----------------------------- MODULE BuildSpec -----------------------------
(***************************************************************************)
(* What the build command promises whoever runs it, with the scripts and   *)
(* the files left out: the command that was asked for succeeds exactly when*)
(* all it needs has run, each part once and after the parts it reads from. *)
(***************************************************************************)

VARIABLES target, done, status

Target == {"validate", "bundle", "golang", "rtk", "types", "all"}
Script == Target \ {"all"}
Status == {"none", "running", "ok", "failed"}

(* golang, rtk and types read what bundle writes. *)
Requires(c) == IF c \in {"golang", "rtk", "types"} THEN {"bundle"} ELSE {}

Needed(t) == IF t = "all" THEN Script ELSE {t} \cup Requires(t)

Init ==
    /\ target = "all"
    /\ done = {}
    /\ status = "none"

Ask(t) ==
    /\ status # "running"
    /\ target' = t
    /\ done' = {}
    /\ status' = "running"

(* A schema that does not validate is never bundled by the full pipeline.  *)
Run(c) ==
    /\ status = "running"
    /\ c \in Needed(target) \ done
    /\ Requires(c) \subseteq done
    /\ target = "all" /\ c # "validate" => "validate" \in done
    /\ done' = done \cup {c}
    /\ UNCHANGED <<target, status>>

Succeed ==
    /\ status = "running"
    /\ done = Needed(target)
    /\ status' = "ok"
    /\ UNCHANGED <<target, done>>

Fail ==
    /\ status = "running"
    /\ status' = "failed"
    /\ UNCHANGED <<target, done>>

Next ==
    \/ \E t \in Target : Ask(t)
    \/ \E c \in Script : Run(c)
    \/ Succeed
    \/ Fail

Spec == Init /\ [][Next]_<<target, done, status>>
=============================================================================
