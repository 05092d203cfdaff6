----------------------------------- MODULE Vault -----------------------------------
(***************************************************************************)
(* Credentials and the secrets behind them (backend/app: core/secrets.py,  *)
(* services/credentials.py): the value of a credential is sealed with a    *)
(* data key of its own, the data key is wrapped with the key-encryption    *)
(* key of the environment, and rewrap_all moves every data key to a new    *)
(* one, batch by batch, beside the requests that go on.                    *)
(***************************************************************************)
EXTENDS Integers, FiniteSets

CONSTANTS
  Slots,         \* where a credential may be, numbered in the order of SecretRecord.id
  Fields,        \* the secret fields of the credential's type, all of them required
  PageSize,      \* rewrap_all's batch
  MaxWrites,     \* bound on creates and updates; a write is named by its number
  MaxRotations,  \* bound on the passes of rewrap_all
  MaxUses        \* bound on the runs and tests that use a credential

ASSUME VaultAssumption ==
  /\ Slots \subseteq Nat /\ IsFiniteSet(Slots)
  /\ PageSize \in Nat \ {0}
  /\ MaxWrites \in Nat /\ MaxRotations \in Nat /\ MaxUses \in Nat

VARIABLES
  credential,  \* status of each row; "none" before it is created
  record,      \* its row of secrets: who wraps which data key, and what is sealed
  serving,     \* SECRET_ENCRYPTION_KEY of the API and the worker
  rotation,    \* the pass of rewrap_all that is under way
  use,         \* a run that was given the credential and has not ended
  writes, rotations, uses,
  raced,       \* secrets saved between a batch's SELECT and its commit
  disturbed    \* since the pass began a secret was deleted or saved under the old key

vaultVars == <<credential, record, serving, rotation, use, writes, rotations, uses, raced,
               disturbed>>

Keks == {"old", "new"}
NoRecord == [kek |-> "none"]
NoRotation == [at |-> "idle", offset |-> 0, page |-> {}]

VaultInit ==
  /\ credential = [c \in Slots |-> "none"]
  /\ record = [c \in Slots |-> NoRecord]
  /\ serving = "old"
  /\ rotation = NoRotation
  /\ use = [c \in Slots |-> "none"]
  /\ writes = 0 /\ rotations = 0 /\ uses = 0
  /\ raced = {}
  /\ disturbed = FALSE

Stored(c) == record[c] # NoRecord
Live(c) == credential[c] \in {"ACTIVE", "INVALID"} /\ Stored(c)

----------------------------------------------------------------------------
(* EncryptedDbSecretStore *)

\* write: a fresh data key, wrapped under the process's KEK, and the payload sealed with it.
\* A field holds the number of the write that gave it, 0 is no value.
Write(c, payload) ==
  /\ writes' = writes + 1
  /\ record' = [record EXCEPT ![c] = [kek |-> serving, wrapped |-> writes',
                                      sealed |-> writes', payload |-> payload]]
  /\ raced' = IF \E copy \in rotation.page : copy.of = c
              THEN raced \cup {c} ELSE raced \ {c}
  /\ disturbed' = (disturbed \/ serving = "old")

\* read: the wrapped key must be the process's, and open what is sealed.
Opens(c) == record[c].kek = serving /\ record[c].wrapped = record[c].sealed

\* The values submitted, and nothing of what was stored before.
Submitted(fields) == [f \in Fields |-> IF f \in fields THEN writes + 1 ELSE 0]

----------------------------------------------------------------------------
(* credentials *)

\* create: every required field is there.
Create(c) ==
  /\ credential[c] = "none" /\ writes < MaxWrites
  /\ Write(c, Submitted(Fields))
  /\ credential' = [credential EXCEPT ![c] = "ACTIVE"]
  /\ UNCHANGED <<serving, rotation, use, rotations, uses>>

\* update: the fields of the form that were filled in.
Update(c, fields) ==
  /\ Live(c) /\ writes < MaxWrites /\ fields # {}
  /\ Write(c, Submitted(fields))
  /\ credential' = [credential EXCEPT ![c] = "ACTIVE"]
  /\ UNCHANGED <<serving, rotation, use, rotations, uses>>

\* delete, when no active version names the credential. The row stays, the secret goes.
DeleteCredential(c) ==
  /\ Live(c)
  /\ credential' = [credential EXCEPT ![c] = "DELETED"]
  /\ record' = [record EXCEPT ![c] = NoRecord]
  /\ disturbed' = TRUE
  /\ UNCHANGED <<serving, rotation, use, writes, rotations, uses, raced>>

\* resolve_for_execution: a dispatch is given the value, or fails.
Resolve(c) ==
  /\ Live(c) /\ Opens(c) /\ use[c] = "none" /\ uses < MaxUses
  /\ use' = [use EXCEPT ![c] = "running"]
  /\ uses' = uses + 1
  /\ UNCHANGED <<credential, record, serving, rotation, writes, rotations, raced, disturbed>>

\* The run ends; mark_invalid when it could not sign in, even if the row was deleted since.
RunEndsWith(c, signedIn) ==
  /\ use[c] = "running"
  /\ use' = [use EXCEPT ![c] = "none"]
  /\ credential' = IF signedIn THEN credential ELSE [credential EXCEPT ![c] = "INVALID"]
  /\ UNCHANGED <<record, serving, rotation, writes, rotations, uses, raced, disturbed>>

\* record_test, which only looks whether there is a value.
Test(c) ==
  /\ Live(c) /\ uses < MaxUses
  /\ uses' = uses + 1
  /\ credential' = [credential EXCEPT ![c] = IF Stored(c) THEN "ACTIVE" ELSE "INVALID"]
  /\ UNCHANGED <<record, serving, rotation, use, writes, rotations, raced, disturbed>>

----------------------------------------------------------------------------
(* rewrap_all *)

\* The process is restarted with the new key.
Restart ==
  /\ serving = "old" /\ rotations > 0
  /\ serving' = "new"
  /\ UNCHANGED <<credential, record, rotation, use, writes, rotations, uses, raced, disturbed>>

BeginRotation ==
  /\ rotation.at = "idle" /\ rotations < MaxRotations
  /\ rotation' = [NoRotation EXCEPT !.at = "reading"]
  /\ rotations' = rotations + 1
  /\ disturbed' = FALSE
  /\ UNCHANGED <<credential, record, serving, use, writes, uses, raced>>

Copy(c) == [of |-> c, kek |-> record[c].kek, wrapped |-> record[c].wrapped]

\* ORDER BY id: the number of a row among these.
Position(c, slots) == Cardinality({d \in slots : d <= c})

\* OFFSET ... LIMIT ...: a batch of them, in any order, since each is written by itself.
PageOf(slots) ==
  {Copy(c) : c \in {d \in slots :
     Position(d, slots) \in rotation.offset + 1 .. rotation.offset + PageSize}}

\* A fault to detect: what is done is left out of the pages, and the offset counts it all the
\* same.
PageOfUndone == PageOf({c \in Slots : Stored(c) /\ record[c].kek = "old"})

\* SELECT: a page of all the secrets there are.
StoredSlots == {c \in Slots : Stored(c)}
Page == PageOf(StoredSlots)

ReadPage ==
  /\ rotation.at = "reading"
  /\ rotation' = IF Page = {} THEN [NoRotation EXCEPT !.at = "done"]
                 ELSE [rotation EXCEPT !.at = "writing", !.page = Page]
  /\ UNCHANGED <<credential, record, serving, use, writes, rotations, uses, raced, disturbed>>

\* A fault to detect: nothing is skipped.
UnwrapsUnchecked(copy) == TRUE

\* Whether the old key opens it. What it does not open was done by an earlier pass.
Unwraps(copy) == copy.kek = "old"

\* The data key wrapped under the new key; what is not the old key's would be lost.
Rewrapped(copy) == IF copy.kek = "old" THEN copy.wrapped ELSE 0

\* The UPDATEs of a batch and its commit: one column, computed from the copy. A row deleted
\* meanwhile fails the batch.
CommitPage ==
  LET rotated == {copy \in rotation.page : Unwraps(copy)}
      done == {copy.of : copy \in rotated}
  IN /\ rotation.at = "writing"
     /\ \A c \in done : Stored(c)
     /\ record' = [c \in Slots |->
          IF c \in done
          THEN LET copy == CHOOSE copy \in rotated : copy.of = c
               IN [record[c] EXCEPT !.kek = "new", !.wrapped = Rewrapped(copy)]
          ELSE record[c]]
     /\ rotation' = [at |-> "reading",
                     offset |-> rotation.offset + Cardinality(rotation.page), page |-> {}]
     /\ UNCHANGED <<credential, serving, use, writes, rotations, uses, raced, disturbed>>

\* The pass stops, halfway or at the end, and may be run again.
EndRotation ==
  /\ rotation.at # "idle"
  /\ rotation' = NoRotation
  /\ UNCHANGED <<credential, record, serving, use, writes, rotations, uses, raced, disturbed>>

VaultNext ==
  \/ \E c \in Slots :
       \/ Create(c) \/ DeleteCredential(c) \/ Resolve(c) \/ Test(c)
       \/ \E fields \in SUBSET Fields : Update(c, fields)
       \/ \E signedIn \in BOOLEAN : RunEndsWith(c, signedIn)
  \/ Restart \/ BeginRotation \/ ReadPage \/ CommitPage \/ EndRotation

VaultSpec == VaultInit /\ [][VaultNext]_vaultVars

----------------------------------------------------------------------------
(* Properties *)

\* The wrapped key of a secret opens what is sealed, through passes of rewrap_all that stop
\* halfway and run again over a mixture, and restarts with the new key; except for a secret
\* saved between a batch's SELECT and its commit (rewrap_all takes no lock).
SecretsSurvive ==
  \A c \in Slots \ raced : Stored(c) => record[c].wrapped = record[c].sealed

\* A pass that comes to its end leaves nothing under the old key, however many passes stopped
\* before it and whatever was created beside it, unless meanwhile a secret was deleted, which
\* moves the offset, or saved by a process that still has the old key.
RotationReachesAll ==
  rotation.at = "done" /\ ~disturbed => \A c \in Slots : Stored(c) => record[c].kek = "new"

\* What the module says: "an omitted secret on update means *unchanged*, not *cleared*. A form
\* that cannot show a value must not be able to erase it by being submitted".
OmittedIsKept ==
  [][\A c \in Slots : Stored(c) /\ record'[c] # NoRecord =>
       \A f \in Fields : record[c].payload[f] # 0 => record'[c].payload[f] # 0]_vaultVars
=============================================================================
