---------------------------- MODULE FrameLedger ----------------------------
(***************************************************************************)
(* What SixDofCalculator promises for the frames it takes: they are        *)
(* started in the order of taking, or dropped in that order without being  *)
(* started, and each one that was started is finished once, with a result  *)
(* or with a report that the result is lost.  A result that is enqueued at *)
(* the last attempt is reported lost as well.                              *)
(***************************************************************************)
EXTENDS Integers, Sequences

VARIABLES taken,    \* frames taken; they are numbered 1 .. taken
          waiting,  \* taken and not yet started, oldest first
          working,  \* started and not yet finished
          produced, reported, dropped  \* with a result, reported lost, dropped

ledgerVars == <<taken, waiting, working, produced, reported, dropped>>

LedgerInit == /\ taken = 0 /\ waiting = <<>> /\ working = {}
              /\ produced = {} /\ reported = {} /\ dropped = {}

Take == /\ taken' = taken + 1
        /\ waiting' = Append(waiting, taken + 1)
        /\ UNCHANGED <<working, produced, reported, dropped>>

Begin == /\ waiting # <<>>
         /\ waiting' = Tail(waiting)
         /\ working' = working \cup {Head(waiting)}
         /\ UNCHANGED <<taken, produced, reported, dropped>>

Drop == /\ waiting # <<>>
        /\ waiting' = Tail(waiting)
        /\ dropped' = dropped \cup {Head(waiting)}
        /\ UNCHANGED <<taken, working, produced, reported>>

Finish(f) == /\ f \notin produced \cup reported \cup dropped
             /\ working' = working \ {f}
             /\ \/ produced' = produced \cup {f} /\ UNCHANGED reported
                \/ UNCHANGED produced /\ reported' = reported \cup {f}
                \/ produced' = produced \cup {f} /\ reported' = reported \cup {f}
             /\ UNCHANGED <<taken, waiting, dropped>>

LedgerNext == Take \/ Begin \/ Drop \/ (\E f \in working : Finish(f))

LedgerSpec == LedgerInit /\ [][LedgerNext]_ledgerVars
=============================================================================
