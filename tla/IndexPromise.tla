---------------------------- MODULE IndexPromise -----------------------------
(***************************************************************************)
(* What concurrent writers of one collection promise its readers: a call   *)
(* of index_chunks replaces the chunks of its batch all at once and leaves *)
(* the others alone, a call of recreate_collection deletes the collection  *)
(* it found under the name, which another call may have deleted already    *)
(* and even created anew, and a call that fails has done nothing.          *)
(***************************************************************************)
CONSTANTS
    Call, Chunk,
    Nobody        \* no call

VARIABLES
    batch,        \* the chunks each call is to replace, none to delete them all
    creator,      \* the call that created the collection, or Nobody
    contents,     \* the call that wrote each chunk, or Nobody
    found,        \* the collection a call is to delete, or Nobody
    outcome       \* of each call

promiseVars == <<batch, creator, contents, found, outcome>>

Init ==
    /\ batch = [t \in Call |-> {}]
    /\ creator = Nobody
    /\ contents = [c \in Chunk |-> Nobody]
    /\ found = [t \in Call |-> Nobody]
    /\ outcome = [t \in Call |-> "pending"]

Ask(t) ==
    /\ outcome[t] = "pending"
    /\ batch[t] = {} /\ found[t] = Nobody
    /\ \E chunks \in (SUBSET Chunk) \ {{}} : batch' = [batch EXCEPT ![t] = chunks]
    /\ UNCHANGED <<creator, contents, found, outcome>>

Ends(t, how) ==
    /\ outcome[t] = "pending"
    /\ outcome' = [outcome EXCEPT ![t] = how]
    /\ UNCHANGED <<batch, found>>

Upsert(t) ==
    /\ batch[t] # {}
    /\ Ends(t, "done")
    /\ creator' = IF creator = Nobody THEN t ELSE creator
    /\ contents' = [c \in Chunk |-> IF c \in batch[t] THEN t ELSE contents[c]]

Find(t) ==
    /\ outcome[t] = "pending"
    /\ batch[t] = {}
    /\ found[t] = Nobody /\ creator # Nobody
    /\ found' = [found EXCEPT ![t] = creator]
    /\ UNCHANGED <<batch, creator, contents, outcome>>

Clear(t) ==
    /\ batch[t] = {}
    /\ found[t] = creator
    /\ Ends(t, "done")
    /\ creator' = Nobody
    /\ contents' = [c \in Chunk |-> Nobody]

ClearNothing(t) ==
    /\ found[t] \notin {Nobody, creator}
    /\ Ends(t, "done")
    /\ UNCHANGED <<creator, contents>>

Fail(t) ==
    /\ Ends(t, "failed")
    /\ UNCHANGED <<creator, contents>>

Next ==
    \E t \in Call :
      Ask(t) \/ Upsert(t) \/ Find(t) \/ Clear(t) \/ ClearNothing(t) \/ Fail(t)

Spec == Init /\ [][Next]_promiseVars

=============================================================================
