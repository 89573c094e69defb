------------------------------ MODULE KeyHome -------------------------------
(***************************************************************************)
(* The signing identity of an evidence home (identity.py): the private     *)
(* key's file, overwritten in place, and the directory of trusted keys,    *)
(* as processes create, load and rotate them with nothing to keep them     *)
(* apart. Every step ends where another process may look at the files, or  *)
(* the process be killed.                                                  *)
(***************************************************************************)
EXTENDS Integers, FiniteSets

CONSTANTS
  Procs,
  MaxKeys      \* bound on the keys that are ever generated

Keys   == 1..MaxKeys
NoKey  == 0
Torn   == -1     \* a file that was truncated and not yet written

VARIABLES
  private,     \* signing_key.pem: NoKey if it does not exist
  trusted,     \* trusted_keys/: absent, torn or whole, by key
  made,        \* the keys generated so far
  torn,        \* history: trusted keys whose writer was killed, or failed, at it
  skipped,     \* history: outgoing keys whose registration failed
  proc         \* of each process: its command, where it is in it, its locals

KeyTypeOK ==
  /\ private \in Keys \cup {NoKey, Torn}
  /\ trusted \in [Keys -> {"absent", "torn", "whole"}]
  /\ made \in 0..MaxKeys
  /\ torn \subseteq Keys /\ skipped \subseteq Keys

Idle == [op |-> "none", pc |-> "idle", key |-> NoKey, prior |-> NoKey, ref |-> 0, file |-> {}, slot |-> 0]

KeyInit ==
  /\ private = NoKey
  /\ trusted = [k \in Keys |-> "absent"]
  /\ made = 0 /\ torn = {} /\ skipped = {}
  /\ proc = [p \in Procs |-> Idle]

Goto(p, pc) == proc' = [proc EXCEPT ![p].pc = pc]
Leave(p)    == proc' = [proc EXCEPT ![p] = Idle]

Generate == made < MaxKeys /\ made' = made + 1

(* A fresh key is to be written, by a process that found none or rotates.  *)
WithNewKey(p, pc) ==
  /\ Generate
  /\ proc' = [proc EXCEPT ![p] = [@ EXCEPT !.key = made + 1, !.pc = pc]]

-----------------------------------------------------------------------------
(* load_or_create: an unreadable key is an error; a missing one is made.   *)
LoadKey(p) ==
  /\ proc[p].pc = "load"
  /\ \/ /\ private \in Keys
        /\ proc' = [proc EXCEPT ![p] = [@ EXCEPT !.key = private, !.pc = "register"]]
        /\ UNCHANGED made
     \/ private = Torn /\ Leave(p) /\ UNCHANGED made
     \/ private = NoKey /\ WithNewKey(p, "truncate")
  /\ UNCHANGED <<private, trusted, torn, skipped>>

(* Private keys are written into a file truncated first.                   *)
TruncateKey(p) ==
  /\ proc[p].pc = "truncate"
  /\ private' = Torn
  /\ Goto(p, "write")
  /\ UNCHANGED <<trusted, made, torn, skipped>>

WriteKey(p) ==
  /\ proc[p].pc = "write"
  /\ private' = proc[p].key
  /\ Goto(p, "register")
  /\ UNCHANGED <<trusted, made, torn, skipped>>

\* Mutant: the loaded key is not registered.
Register_Never(p) ==
  /\ proc[p].pc = "register"
  /\ Goto(p, "ready")
  /\ UNCHANGED <<private, trusted, made, torn, skipped>>

(* A file that exists is taken for a registered key, whatever it holds.    *)
Register(p) ==
  /\ proc[p].pc = "register"
  /\ Goto(p, IF trusted[proc[p].key] = "absent" THEN "open" ELSE "ready")
  /\ UNCHANGED <<private, trusted, made, torn, skipped>>

(* One that did not is truncated, whatever it holds by now.                *)
OpenTrusted(p) ==
  /\ proc[p].pc = "open"
  /\ trusted' = [trusted EXCEPT ![proc[p].key] = "torn"]
  /\ Goto(p, "enroll")
  /\ UNCHANGED <<private, made, torn, skipped>>

Enroll(p) ==
  /\ proc[p].pc = "enroll"
  /\ trusted' = [trusted EXCEPT ![proc[p].key] = "whole"]
  /\ Goto(p, "ready")
  /\ UNCHANGED <<private, made, torn, skipped>>

-----------------------------------------------------------------------------
(* rotate_key: the outgoing key is registered first; one that cannot be    *)
(* read, or registered, does not block the rotation.                       *)
ReadPrior(p) ==
  /\ proc[p].pc = "prior"
  /\ \/ /\ private \in Keys
        /\ proc' = [proc EXCEPT ![p] = [@ EXCEPT !.key = private, !.prior = private, !.pc = "register"]]
        /\ UNCHANGED made
     \/ WithNewKey(p, "truncate")
  /\ UNCHANGED <<private, trusted, torn, skipped>>

(* The error of a registration is swallowed; the key is in hand already.   *)
SkipPrior(p) ==
  /\ proc[p].op = "rotate" /\ proc[p].key = proc[p].prior
  /\ proc[p].pc \in {"register", "open", "enroll"}
  /\ skipped' = skipped \cup {proc[p].key}
  /\ torn' = IF proc[p].pc = "enroll" THEN torn \cup {proc[p].key} ELSE torn
  /\ Goto(p, "ready")
  /\ UNCHANGED <<private, trusted, made>>

(* The outgoing key is dealt with: the successor is made, and recorded.    *)
Rotating(p) == proc[p].op = "rotate" /\ proc[p].pc = "ready" /\ proc[p].key = proc[p].prior

EndRotation(p) ==
  /\ proc[p].op = "rotate" /\ proc[p].pc = "ready" /\ ~Rotating(p)
  /\ Leave(p)
  /\ UNCHANGED <<private, trusted, made, torn, skipped>>

(* A process is killed, or an error ends its command, where it stands.     *)
Kill(p) ==
  /\ proc[p].pc # "idle"
  /\ torn' = IF proc[p].pc = "enroll" THEN torn \cup {proc[p].key} ELSE torn
  /\ Leave(p)
  /\ UNCHANGED <<private, trusted, made, skipped>>

IdentityStep(p) ==
  \/ LoadKey(p) \/ TruncateKey(p) \/ WriteKey(p) \/ Register(p)
  \/ OpenTrusted(p) \/ Enroll(p) \/ ReadPrior(p) \/ SkipPrior(p)
  \/ EndRotation(p) \/ Kill(p)
=============================================================================
