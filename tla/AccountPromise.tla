--------------------------- MODULE AccountPromise ---------------------------
(***************************************************************************)
(* What signing in promises (CollectionAccessService.resolve_identity):    *)
(* an identity is linked to one user, once and for ever, in one step that  *)
(* also creates the user if its email has none; a user has at most one     *)
(* identity of each provider; an email is verified by whoever proves it.   *)
(* Locks, lookups and transactions are not visible here.                   *)
(***************************************************************************)
CONSTANTS Email, Key, Provider, ProviderOf(_), NoUser, Stub

VARIABLES
    accounts,     \* the users, named by their email
    verified,     \* those with email_verified
    owner         \* the user each identity is linked to

promiseVars == <<accounts, verified, owner>>

Init ==
    /\ accounts \subseteq Email
    /\ verified = {}
    /\ owner = [k \in Key |-> NoUser]

(* A provider vouches for emails, the stub header does not. *)
Proves(k, user) == IF ProviderOf(k) = Stub THEN {} ELSE {user}

Link(k, user) ==
    /\ owner[k] = NoUser
    /\ \A other \in Key :
         ProviderOf(other) = ProviderOf(k) => owner[other] # user
    /\ owner' = [owner EXCEPT ![k] = user]
    /\ accounts' = accounts \cup {user}
    /\ verified' = verified \cup Proves(k, user)

Confirm(k) ==
    /\ owner[k] # NoUser
    /\ verified' = verified \cup Proves(k, owner[k])
    /\ UNCHANGED <<accounts, owner>>

Next == \E k \in Key : Confirm(k) \/ \E user \in Email : Link(k, user)

Spec == Init /\ [][Next]_promiseVars

=============================================================================
