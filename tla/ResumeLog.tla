----------------------------- MODULE ResumeLog -----------------------------
(***************************************************************************)
(* What the resume log promises its readers, whatever it retains: frames   *)
(* are only ever added at the end of one history, and an answer to a       *)
(* reader that has the first `after` frames is either all of the rest or   *)
(* a refusal.  FrameRing is shown to implement it.                         *)
(***************************************************************************)
EXTENDS Integers, Sequences

CONSTANT Frame

VARIABLES
  log,     \* every frame ever published, in order: frame i has bseq i
  reply    \* the last answer given to a reader

ResumeLogInit == log = <<>> /\ reply = [kind |-> "none"]

Publish == /\ \E f \in Frame : log' = Append(log, f)
           /\ UNCHANGED reply

\* The whole suffix: frame after + i of the history under number after + i.
Suffix(after) == [i \in 1 .. Len(log) - after |->
                    [bseq |-> after + i, frame |-> log[after + i]]]

Answer == /\ \/ \E after \in 0 .. Len(log) :
                  reply' = [kind |-> "delta", after |-> after, frames |-> Suffix(after)]
             \/ reply' = [kind |-> "resync-required"]
          /\ UNCHANGED log

ResumeLogNext == Publish \/ Answer

ResumeLogSpec == ResumeLogInit /\ [][ResumeLogNext]_<<log, reply>>
=============================================================================
