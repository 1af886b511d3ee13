------------------------ MODULE AccountProvisioning -------------------------
(***************************************************************************)
(* Signing in: get_or_create_user_for_identity of                          *)
(* src/access/repository.py, one transaction per request, run by any       *)
(* number of API processes against one PostgreSQL database.                *)
(*                                                                         *)
(* Transactions run READ COMMITTED: each statement sees what others have   *)
(* committed and what its own transaction wrote.  An insert that meets     *)
(* another transaction's uncommitted row of the same unique key waits for  *)
(* that transaction to end, and so does an update of the same row.         *)
(* Advisory locks are held to the end of the transaction.                  *)
(*                                                                         *)
(* A user row is named by its email: users.email is unique, and no         *)
(* statement of the program updates it or deletes the row.                 *)
(***************************************************************************)
EXTENDS Naturals

CONSTANTS
    Proc,         \* API processes, each with one session at a time
    Email,        \* normalized emails
    Provider,     \* external identity providers (Clerk)
    Stub,         \* the stub_header provider of local development
    Subject,      \* external subjects
    Legacy,       \* users that exist without an identity
    NoUser, NoProc, NoClaim

ASSUME AccountAssumption ==
    /\ Stub \notin Provider
    /\ Legacy \subseteq Email
    /\ NoUser \notin Email
    /\ NoProc \notin Proc

(* (provider, external_subject); the stub header's subject is the email. *)
Key == (Provider \X Subject) \cup ({Stub} \X Email)

ProviderOf(k) == k[1]

ASSUME KeyAssumption == Key \cap Email = {}

(* What identity providers may claim: a subject's email may change, and    *)
(* the service has turned away external identities without a verified one. *)
Claim ==
    [key : Provider \X Subject, email : Email]
        \cup {[key |-> <<Stub, e>>, email |-> e] : e \in Email}

ASSUME ClaimAssumption == NoClaim \notin Claim

VARIABLES
    accounts,     \* committed users
    verified,     \* committed users with email_verified
    owner,        \* committed user_external_identities
    locks,        \* who holds each advisory lock
    at,           \* the next statement of each process' transaction
    claim,        \* the RequestIdentity it is for
    row,          \* the user it has found or created
    wrote,        \* its uncommitted writes
    proved        \* history: emails a provider has vouched for

dbVars == <<accounts, verified, owner>>
vars == <<accounts, verified, owner, locks, at, claim, row, wrote, proved>>

Place == {"idle", "lock_identity", "lock_email", "find", "find_email", "check",
          "insert_user", "reread", "link", "verify", "commit"}
Write == {"user", "identity", "verified"}

(* Where the code dereferences row. *)
NeedsRow == {"check", "link", "verify", "commit"}

TypeOK ==
    /\ accounts \subseteq Email
    /\ verified \subseteq Email
    /\ owner \in [Key -> Email \cup {NoUser}]
    /\ locks \in [Key \cup Email -> Proc \cup {NoProc}]
    /\ at \in [Proc -> Place]
    /\ claim \in [Proc -> Claim \cup {NoClaim}]
    /\ row \in [Proc -> Email \cup {NoUser}]
    /\ wrote \in [Proc -> SUBSET Write]
    /\ proved \subseteq Email
    /\ \A p \in Proc : at[p] # "idle" => claim[p] \in Claim
    /\ \A p \in Proc : at[p] \in NeedsRow => row[p] \in Email

Init ==
    /\ accounts = Legacy
    /\ verified = {}
    /\ owner = [k \in Key |-> NoUser]
    /\ locks = [l \in Key \cup Email |-> NoProc]
    /\ at = [p \in Proc |-> "idle"]
    /\ claim = [p \in Proc |-> NoClaim]
    /\ row = [p \in Proc |-> NoUser]
    /\ wrote = [p \in Proc |-> {}]
    /\ proved = {}

KeyOf(p) == claim[p].key
EmailOf(p) == claim[p].email
IsExternal(p) == ProviderOf(KeyOf(p)) # Stub

-----------------------------------------------------------------------------
(* Steps of a transaction.                                                 *)

Goes(p, place) == at' = [at EXCEPT ![p] = place]

Found(p, user) == row' = [row EXCEPT ![p] = user]

Writes(p, what) == wrote' = [wrote EXCEPT ![p] = @ \cup {what}]

(* Commit or rollback: the session ends, its advisory locks go with it. *)
Ends(p) ==
    /\ Goes(p, "idle")
    /\ claim' = [claim EXCEPT ![p] = NoClaim]
    /\ row' = [row EXCEPT ![p] = NoUser]
    /\ wrote' = [wrote EXCEPT ![p] = {}]
    /\ locks' = [l \in DOMAIN locks |-> IF locks[l] = p THEN NoProc ELSE locks[l]]

Begin(p) ==
    /\ at[p] = "idle"
    /\ Goes(p, "lock_identity")
    /\ \E c \in Claim :
         /\ claim' = [claim EXCEPT ![p] = c]
         /\ proved' = IF ProviderOf(c.key) = Stub THEN proved
                      ELSE proved \cup {c.email}
    /\ UNCHANGED <<dbVars, locks, row, wrote>>

Locks(p, l, place) ==
    /\ locks[l] = NoProc
    /\ locks' = [locks EXCEPT ![l] = p]
    /\ Goes(p, place)
    /\ UNCHANGED <<dbVars, claim, row, wrote, proved>>

LockIdentity_Skipped(p) ==
    /\ at[p] = "lock_identity"
    /\ Goes(p, IF IsExternal(p) THEN "lock_email" ELSE "find")
    /\ UNCHANGED <<dbVars, locks, claim, row, wrote, proved>>

LockIdentity(p) ==
    /\ at[p] = "lock_identity"
    /\ Locks(p, KeyOf(p), IF IsExternal(p) THEN "lock_email" ELSE "find")

LockEmail(p) ==
    /\ at[p] = "lock_email"
    /\ Locks(p, EmailOf(p), "find")

FindByIdentity(p) ==
    /\ at[p] = "find"
    /\ Found(p, owner[KeyOf(p)])
    /\ Goes(p, IF owner[KeyOf(p)] # NoUser THEN "check"
               ELSE IF IsExternal(p) THEN "find_email"
               ELSE "insert_user")
    /\ UNCHANGED <<dbVars, locks, claim, wrote, proved>>

FindByEmail(p) ==
    /\ at[p] = "find_email"
    /\ \/ EmailOf(p) \in accounts /\ Found(p, EmailOf(p)) /\ Goes(p, "check")
       \/ EmailOf(p) \notin accounts /\ Found(p, NoUser) /\ Goes(p, "insert_user")
    /\ UNCHANGED <<dbVars, locks, claim, wrote, proved>>

Conflicts_Never(p) == FALSE

(* _has_conflicting_provider_subjects *)
Conflicts(p) ==
    \E k \in Key : /\ owner[k] = row[p] /\ k # KeyOf(p)
                   /\ ProviderOf(k) = ProviderOf(KeyOf(p))

CheckPasses(p) ==
    /\ at[p] = "check"
    /\ ~Conflicts(p)
    /\ Goes(p, "link")
    /\ UNCHANGED <<dbVars, locks, claim, row, wrote, proved>>

(* "external identity email collision requires explicit account linking" *)
Reject_KeepsLocks(p) ==
    /\ at[p] = "check"
    /\ Conflicts(p)
    /\ Goes(p, "idle")
    /\ UNCHANGED <<dbVars, locks, claim, row, wrote, proved>>

Reject(p) ==
    /\ at[p] = "check"
    /\ Conflicts(p)
    /\ Ends(p)
    /\ UNCHANGED <<dbVars, proved>>

Inserting(email) == {q \in Proc : "user" \in wrote[q] /\ EmailOf(q) = email}

InsertUser(p) ==
    /\ at[p] = "insert_user"
    /\ Inserting(EmailOf(p)) = {}
    /\ EmailOf(p) \notin accounts
    /\ Found(p, EmailOf(p))
    /\ Writes(p, "user")
    /\ Goes(p, "link")
    /\ UNCHANGED <<dbVars, locks, claim, proved>>

InsertConflicts_UsesNone(p) ==
    /\ at[p] = "insert_user"
    /\ Inserting(EmailOf(p)) = {}
    /\ EmailOf(p) \in accounts
    /\ Goes(p, "link")
    /\ UNCHANGED <<dbVars, locks, claim, row, wrote, proved>>

(* on_conflict_do_nothing returns no row. *)
InsertConflicts(p) ==
    /\ at[p] = "insert_user"
    /\ Inserting(EmailOf(p)) = {}
    /\ EmailOf(p) \in accounts
    /\ Goes(p, "reread")
    /\ UNCHANGED <<dbVars, locks, claim, row, wrote, proved>>

(* Nothing deletes users, so the row that was in the way is found; the     *)
(* fallbacks behind this lookup have nothing to do.  It is not checked for *)
(* conflicting subjects.                                                   *)
Reread(p) ==
    /\ at[p] = "reread"
    /\ EmailOf(p) \in accounts
    /\ Found(p, EmailOf(p))
    /\ Goes(p, "link")
    /\ UNCHANGED <<dbVars, locks, claim, wrote, proved>>

Linking(k) == {q \in Proc : "identity" \in wrote[q] /\ KeyOf(q) = k}

LinkIdentity_VerifiesAll(p) ==
    LET k == KeyOf(p) IN
    /\ at[p] = "link"
    /\ Linking(k) = {}
    /\ \/ owner[k] = NoUser /\ Writes(p, "identity") /\ UNCHANGED row
       \/ owner[k] # NoUser /\ Found(p, owner[k]) /\ UNCHANGED wrote
    /\ Goes(p, "verify")
    /\ UNCHANGED <<dbVars, locks, claim, proved>>

(* The insert with on_conflict_do_nothing, and the lookup after it. *)
LinkIdentity(p) ==
    LET k == KeyOf(p) IN
    /\ at[p] = "link"
    /\ Linking(k) = {}
    /\ \/ owner[k] = NoUser /\ Writes(p, "identity") /\ UNCHANGED row
       \/ owner[k] # NoUser /\ Found(p, owner[k]) /\ UNCHANGED wrote
    /\ Goes(p, IF IsExternal(p) THEN "verify" ELSE "commit")
    /\ UNCHANGED <<dbVars, locks, claim, proved>>

MarkVerified(p) ==
    /\ at[p] = "verify"
    /\ \A q \in Proc \ {p} : ~("verified" \in wrote[q] /\ row[q] = row[p])
    /\ Writes(p, "verified")
    /\ Goes(p, "commit")
    /\ UNCHANGED <<dbVars, locks, claim, row, proved>>

Commit(p) ==
    /\ at[p] = "commit"
    /\ accounts' = accounts \cup {e \in Email : e = EmailOf(p) /\ "user" \in wrote[p]}
    /\ owner' = IF "identity" \in wrote[p] THEN [owner EXCEPT ![KeyOf(p)] = row[p]]
                ELSE owner
    /\ verified' = verified \cup {e \in Email : e = row[p] /\ "verified" \in wrote[p]}
    /\ Ends(p)
    /\ UNCHANGED proved

(* The process dies or loses the connection: the server rolls back. *)
Crash(p) ==
    /\ at[p] # "idle"
    /\ Ends(p)
    /\ UNCHANGED <<dbVars, proved>>

Waits(p) ==
    \/ LockIdentity(p) \/ LockEmail(p)
    \/ InsertUser(p) \/ InsertConflicts(p)
    \/ LinkIdentity(p) \/ MarkVerified(p)

Moves(p) ==
    \/ FindByIdentity(p) \/ FindByEmail(p) \/ CheckPasses(p) \/ Reject(p)
    \/ Reread(p) \/ Commit(p)

Next == \E p \in Proc : Begin(p) \/ Waits(p) \/ Moves(p) \/ Crash(p)

Spec == Init /\ [][Next]_vars

(* The lock manager queues waiters, so none is passed over for ever. *)
FairSpec ==
    Spec /\ \A p \in Proc : SF_vars(Waits(p)) /\ WF_vars(Moves(p))

-----------------------------------------------------------------------------
(* Properties.                                                             *)

(* However sign-ins of several subjects interleave, no two subjects of one *)
(* provider end up with one user, even where the conflict check ran before *)
(* the other link was committed, or not at all (after Reread).             *)
OneSubjectPerProvider ==
    \A k1, k2 \in Key :
      /\ owner[k1] # NoUser /\ owner[k1] = owner[k2]
      /\ ProviderOf(k1) = ProviderOf(k2)
      => k1 = k2

(* A user is created together with its first identity: a race of two first *)
(* sign-ins, or a crash, leaves no user behind that nobody can sign in to. *)
NoOrphans == \A u \in accounts \ Legacy : \E k \in Key : owner[k] = u

(* email_verified is only ever set where a provider vouched for the email  *)
(* of that very user, although the update goes by id and the identity's    *)
(* current email may be another one.                                       *)
VerifiedMeansProved == verified \subseteq proved

(* Every sign-in ends: its locks are released on every path, and the two   *)
(* advisory locks, the unique keys and the row lock never wait in a circle.*)
EverySignInEnds == \A p \in Proc : at[p] # "idle" ~> at[p] = "idle"

Promise == INSTANCE AccountPromise

(* Concurrent transactions have the effect of sign-ins one after another.  *)
KeepsPromise == Promise!Spec

=============================================================================
