----------------------------- MODULE AuditTrail -----------------------------
(***************************************************************************)
(* The audit service: changes of one record, each reported with the        *)
(* versions before and after it, kept as the fields that differ, and read  *)
(* back as the record's history.                                           *)
(*                                                                         *)
(* A version is a function from the paths of its leaves, sequences of keys,*)
(* to what stands there; none has an empty object, and a record that is    *)
(* not there is the version without a leaf. Objects are compared as JSON,  *)
(* and callers keep the order of the keys.                                 *)
(***************************************************************************)
EXTENDS Integers, FiniteSets, Sequences

CONSTANTS
    Versions,    \* of the record, all that it may take
    IgnoredKeys,
    SecretKeys,
    MaxChanges,  \* bound on changes
    Null,
    REDACTED

VARIABLES
    version,  \* of the record, in the service that owns it
    reported, \* changes whose entry is not written yet
    trail,    \* entries, in the order they were written
    changed,  \* changes so far
    clock

vars == <<version, reported, trail, changed, clock>>

NoVersion == [path \in {} |-> Null]

Init ==
    /\ version = NoVersion
    /\ reported = {}
    /\ trail = <<>>
    /\ changed = 0
    /\ clock = 0

-----------------------------------------------------------------------------
(* diffRecords *)

within(path, p) == Len(path) <= Len(p) /\ SubSeq(p, 1, Len(path)) = path

leaves(v, path) == {p \in DOMAIN v : within(path, p)}

isPlainObject(v, path) == leaves(v, path) # {} /\ path \notin DOMAIN v

(* Mutant: a secret is looked for in the first key only.                   *)
isRedactedField_first(path) == path[1] \in SecretKeys

isRedactedField(path) == \E i \in DOMAIN path : path[i] \in SecretKeys

(* Mutant: the keys of the version before are forgotten.                   *)
keys_afterOnly(before, after) == DOMAIN after

keys(before, after) == DOMAIN before \cup DOMAIN after

(* record leaves the default. *)
maxDepth == 3

(* Fields of either version that the walk comes to: it goes down while both*)
(* have an object there, and enters neither a secret nor what it ignores.  *)
comesTo(before, after, p, n) ==
    /\ n <= maxDepth + 1
    /\ \A i \in 1 .. n : p[i] \notin IgnoredKeys
    /\ \A m \in 1 .. n - 1 :
          LET above == SubSeq(p, 1, m) IN
          /\ ~ isRedactedField(above)
          /\ isPlainObject(before, above) /\ isPlainObject(after, above)

fields(before, after) ==
    UNION {{SubSeq(p, 1, n) : n \in {n \in 1 .. Len(p) : comesTo(before, after, p, n)}} :
              p \in keys(before, after)}

goesDown(before, after, path) ==
    /\ ~ isRedactedField(path)
    /\ isPlainObject(before, path) /\ isPlainObject(after, path)
    /\ Len(path) <= maxDepth

(* What stands at a field. An absent one is empty, and not equal to null.  *)
valueAt(v, path) == [p \in leaves(v, path) |-> v[p]]

(* normalise: absent is recorded as null. *)
normalise(value, path) == IF DOMAIN value = {} THEN [p \in {path} |-> Null] ELSE value

diffRecords(before, after) ==
    {[field |-> path,
      before |-> IF isRedactedField(path) THEN REDACTED ELSE normalise(valueAt(before, path), path),
      after |-> IF isRedactedField(path) THEN REDACTED ELSE normalise(valueAt(after, path), path)] :
        path \in {p \in fields(before, after) :
                     ~ goesDown(before, after, p) /\ valueAt(before, p) # valueAt(after, p)}}

-----------------------------------------------------------------------------
(* The record changes, or is refused a change, in the service that owns it;*)
(* the report of it arrives some time later.                               *)
Change ==
    /\ changed < MaxChanges
    /\ changed' = changed + 1
    /\ \E after \in Versions \ {version}, outcome \in {"SUCCESS", "DENIED"} :
          /\ version' = IF outcome = "SUCCESS" THEN after ELSE version
          /\ reported' = reported \cup
                {[nr |-> changed', before |-> version, after |-> after, outcome |-> outcome]}
    /\ UNCHANGED <<trail, clock>>

record ==
    /\ \E dto \in reported :
          /\ reported' = reported \ {dto}
          /\ trail' = Append(trail,
                [of |-> dto, changes |-> diffRecords(dto.before, dto.after), occurredAt |-> clock])
    /\ UNCHANGED <<version, changed, clock>>

Tick ==
    /\ trail # <<>> /\ trail[Len(trail)].occurredAt = clock
    /\ clock' = clock + 1
    /\ UNCHANGED <<version, reported, trail, changed>>

Next == Change \/ record \/ Tick

Spec == Init /\ [][Next]_vars

-----------------------------------------------------------------------------
(* Properties. *)

(* history: oldest first; entries of one moment in either order. *)
history ==
    {h \in [1 .. Len(trail) -> DOMAIN trail] :
        /\ \A i, j \in DOMAIN h : i # j => h[i] # h[j]
        /\ \A i, j \in DOMAIN h : i < j => trail[h[i]].occurredAt <= trail[h[j]].occurredAt}

(* What a reader makes of a history: the fields of each change that took   *)
(* place are put into the version before.                                  *)
applied(v, changes) ==
    LET told == {c \in changes : c.after # REDACTED}
        kept == {p \in DOMAIN v : \A c \in told : ~ within(c.field, p)}
        put  == UNION {DOMAIN c.after : c \in told}
    IN [p \in kept \cup put |->
           IF p \in kept THEN v[p] ELSE (CHOOSE c \in told : p \in DOMAIN c.after).after[p]]

versionAfter(h) ==
    LET told[n \in 0 .. Len(trail)] ==
            IF n = 0 THEN NoVersion
            ELSE IF trail[h[n]].of.outcome # "SUCCESS" THEN told[n - 1]
            ELSE applied(told[n - 1], trail[h[n]].changes)
    IN told[Len(trail)]

(* What an auditor may learn of a version: null is as good as absent.      *)
open(v) ==
    LET shown == {p \in DOMAIN v :
                     v[p] # Null /\ \A i \in DOMAIN p : p[i] \notin SecretKeys \cup IgnoredKeys}
    IN [p \in shown |-> v[p]]

inOrder ==
    \A i, j \in DOMAIN trail : i < j =>
        trail[i].of.nr < trail[j].of.nr /\ trail[i].occurredAt < trail[j].occurredAt

(* diffRecords and history: when every report was written before the next  *)
(* one, at a later moment, the history alone tells what the record is now, *)
(* except for its secrets and for what is ignored.                         *)
HistoryTells ==
    reported = {} /\ inOrder => \A h \in history : open(versionAfter(h)) = open(version)

secretIn(p) == \E n \in DOMAIN p : p[n] \in SecretKeys

(* Does the walk come to the secret in p? Every object around it is in     *)
(* both versions, and none is too deep to be gone into.                    *)
cameTo(dto, p) ==
    \E n \in DOMAIN p :
        /\ p[n] \in SecretKeys
        /\ n - 1 <= maxDepth
        /\ \A m \in 1 .. n - 1 :
              LET above == SubSeq(p, 1, m)
              IN isPlainObject(dto.before, above) /\ isPlainObject(dto.after, above)

(* diffRecords: "Sensitive values are replaced rather than omitted, so the *)
(* log still shows that a password changed without showing what it changed *)
(* to". Of a secret that changed the log shows that it did; what it was    *)
(* and is stands in no entry, if the walk came to it. A secret inside an   *)
(* object that is new, gone or too deep is recorded with that object, and  *)
(* of it nothing is claimed: there the code does what the comment on       *)
(* REDACTED_FIELDS says "must never" be done.                              *)
SecretsAreKept ==
    \A i \in DOMAIN trail :
        LET dto     == trail[i].of
            shown   == {c \in trail[i].changes : c.before # REDACTED}
            secrets == {p \in DOMAIN dto.before \cup DOMAIN dto.after : secretIn(p)}
        IN \A p \in secrets :
              /\ /\ \A n \in DOMAIN p : p[n] \notin IgnoredKeys
                 /\ valueAt(dto.before, p) # valueAt(dto.after, p)
                 => \E c \in trail[i].changes : within(c.field, p)
              /\ cameTo(dto, p) => \A c \in shown : p \notin DOMAIN c.before \cup DOMAIN c.after
=============================================================================
