----------------------------- MODULE LossyPipe -----------------------------
(***************************************************************************)
(* What ConcreteDataOutputter promises for the results it takes: however   *)
(* many queues and threads lie in between, they pass one after the other   *)
(* through a single pipe.  A result enters once, may get lost anywhere on  *)
(* the way, and otherwise comes out after all that entered before it.      *)
(***************************************************************************)
EXTENDS Integers, Sequences

CONSTANT Items       \* what may enter

VARIABLES pipe,      \* what has entered and is on its way, oldest first
          delivered, \* what came out, oldest first
          lost       \* what got lost

pipeVars == <<pipe, delivered, lost>>

In(s) == {s[i] : i \in DOMAIN s}

PipeInit == pipe = <<>> /\ delivered = <<>> /\ lost = {}

Enter(x) == /\ x \notin In(pipe) \cup In(delivered) \cup lost
            /\ pipe' = Append(pipe, x)
            /\ UNCHANGED <<delivered, lost>>

Lose(i) == /\ pipe' = SubSeq(pipe, 1, i - 1) \o SubSeq(pipe, i + 1, Len(pipe))
           /\ lost' = lost \cup {pipe[i]}
           /\ UNCHANGED delivered

Deliver == /\ pipe # <<>>
           /\ delivered' = Append(delivered, Head(pipe))
           /\ pipe' = Tail(pipe)
           /\ UNCHANGED lost

PipeNext == (\E x \in Items : Enter(x)) \/ (\E i \in DOMAIN pipe : Lose(i)) \/ Deliver

PipeSpec == PipeInit /\ [][PipeNext]_pipeVars
=============================================================================
