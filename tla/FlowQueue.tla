------------------------------ MODULE FlowQueue ------------------------------
(***************************************************************************)
(* What the hand-over of accepted flows promises, abstractly: one FIFO     *)
(* queue from the stack thread to the engine.  The stack may append to it  *)
(* at any time, however slow the engine is; the engine takes flows in the  *)
(* order they were accepted, each of them once.  When the stack stops, the *)
(* end of the queue may be cut off, but what is left is still served; when *)
(* the engine stops, nobody serves the queue any more.                     *)
(***************************************************************************)
EXTENDS Sequences, SequencesExt

CONSTANT Flows

VARIABLES queue,    \* accepted flows the engine has not taken
          served,   \* flows the engine has taken, in order
          putting,  \* the stack thread runs
          taking    \* the engine runs

vars == <<queue, served, putting, taking>>

Init == /\ queue = <<>> /\ served = <<>>
        /\ putting = TRUE /\ taking = TRUE

Put == /\ putting /\ taking
       /\ queue' \in Seq(Flows) /\ IsPrefix(queue, queue')
       /\ UNCHANGED <<served, putting, taking>>

Take == /\ taking /\ queue # <<>>
        /\ served' = Append(served, Head(queue))
        /\ queue' = Tail(queue)
        /\ UNCHANGED <<putting, taking>>

StopPutting == /\ putting /\ putting' = FALSE
               /\ IsPrefix(queue', queue)
               /\ UNCHANGED <<served, taking>>

StopTaking == /\ taking /\ taking' = FALSE
              /\ queue' = <<>>
              /\ UNCHANGED <<served, putting>>

Next == Put \/ Take \/ StopPutting \/ StopTaking

Spec == Init /\ [][Next]_vars
=============================================================================
