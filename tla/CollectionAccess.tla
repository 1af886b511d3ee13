-------------------------- MODULE CollectionAccess --------------------------
(***************************************************************************)
(* Who may use a collection: authorize_collection and list_collections of  *)
(* src/access/service.py.  A request resolves its identity with several    *)
(* reads and writes, each in a session of its own, while operators edit    *)
(* the domain rules, the manual overrides and the memberships, and other   *)
(* requests of the same user renew them.                                   *)
(*                                                                         *)
(* Signing in is one step here: AccountProvisioning shows that it has the  *)
(* effect of one, and that an identity resolves to the same user for ever, *)
(* while the email it comes with may change.                               *)
(***************************************************************************)
EXTENDS Naturals

CONSTANTS
    Proc,         \* requests in progress
    User, Email, Community,
    Collection,
    CommunityOf,  \* collections.community_id, NoCommunity for a public one
    Anonymous,
    Listing,      \* the goal of GET /collections
    Missing,      \* the goal of a request that names no existing collection
    NoCommunity

ASSUME AccessAssumption ==
    /\ NoCommunity \notin Community
    /\ CommunityOf \in [Collection -> Community \cup {NoCommunity}]
    /\ Listing \notin Collection /\ Missing \notin Collection
    /\ Listing # Missing

Signed == [kind : {"stub", "external"}, user : User, email : Email]

ASSUME AnonymousAssumption == Anonymous \notin Signed

Goal == Collection \cup {Listing, Missing}
Status == {"none", "active", "inactive"}

VARIABLES
    override,     \* the active manual_access_overrides row of an email
    rules,        \* communities with an active domain rule for an email
    member,       \* community_memberships.status
    at,           \* the next session of each request
    claim, goal,  \* its RequestIdentity, and what it asks for
    affiliation,  \* AffiliationDecision.community_id
    outcome,
    shown,        \* the collections a listing called accessible
    named,        \* history: communities the operators have named for the
                  \* email since the request began
    withdrawn     \* history: requests during which a membership was withdrawn

policyVars == <<override, rules, member>>
requestVars == <<at, claim, goal, affiliation, outcome, shown>>
vars == <<policyVars, requestVars, named, withdrawn>>

Place == {"idle", "override", "rules", "sign_in", "membership", "decide", "done"}
Outcome == {"none", "granted", "denied", "refused", "not_found", "listed"}

TypeOK ==
    /\ override \in [Email -> Community \cup {NoCommunity}]
    /\ rules \in [Email -> SUBSET Community]
    /\ member \in [User \X Community -> Status]
    /\ at \in [Proc -> Place]
    /\ claim \in [Proc -> Signed \cup {Anonymous}]
    /\ goal \in [Proc -> Goal]
    /\ affiliation \in [Proc -> Community \cup {NoCommunity}]
    /\ outcome \in [Proc -> Outcome]
    /\ shown \in [Proc -> SUBSET Collection]
    /\ named \in [Proc -> SUBSET Community]
    /\ withdrawn \subseteq Proc
    /\ \A p \in Proc :
         /\ at[p] \in {"override", "rules", "sign_in", "membership"} => claim[p] \in Signed
         /\ at[p] = "membership" => affiliation[p] \in Community
         /\ at[p] = "done" <=> outcome[p] # "none"

IsExternal(c) == c # Anonymous /\ c.kind = "external"

(* Communities that operators name for an email at this moment. *)
Names(e) ==
    {k \in Community : override[e] = k \/ rules[e] = {k}}

Init ==
    /\ override = [e \in Email |-> NoCommunity]
    /\ rules = [e \in Email |-> {}]
    /\ member = [m \in User \X Community |-> "none"]
    /\ at = [p \in Proc |-> "idle"]
    /\ claim = [p \in Proc |-> Anonymous]
    /\ goal = [p \in Proc |-> Missing]
    /\ affiliation = [p \in Proc |-> NoCommunity]
    /\ outcome = [p \in Proc |-> "none"]
    /\ shown = [p \in Proc |-> {}]
    /\ named = [p \in Proc |-> {}]
    /\ withdrawn = {}

-----------------------------------------------------------------------------
(* Operators.                                                              *)

(* What is named now was named during every request in progress. *)
Witnessed ==
    named' = [p \in Proc |->
                IF IsExternal(claim[p]) THEN named[p] \cup Names(claim[p].email)'
                ELSE named[p]]

SetOverride ==
    /\ \E e \in Email, k \in Community \cup {NoCommunity} :
         override' = [override EXCEPT ![e] = k]
    /\ UNCHANGED <<rules, member, requestVars, withdrawn>>
    /\ Witnessed

SetRules ==
    /\ \E e \in Email, ks \in SUBSET Community : rules' = [rules EXCEPT ![e] = ks]
    /\ UNCHANGED <<override, member, requestVars, withdrawn>>
    /\ Witnessed

SetMembership ==
    /\ \E m \in User \X Community, status \in {"active", "inactive"} :
         /\ member' = [member EXCEPT ![m] = status]
         /\ withdrawn' = IF status = "active" THEN withdrawn ELSE Proc
    /\ UNCHANGED <<override, rules, requestVars, named>>

-----------------------------------------------------------------------------
(* Requests.                                                               *)

Goes(p, place) == at' = [at EXCEPT ![p] = place]

Ends(p, with) ==
    /\ Goes(p, "done")
    /\ outcome' = [outcome EXCEPT ![p] = with]

(* The collection is looked up first: an unknown one is a 404 to anybody.  *)
Begin(p) ==
    /\ at[p] \in {"idle", "done"}
    /\ \E c \in Signed \cup {Anonymous}, g \in Goal :
         LET next == IF g = Missing THEN "done"
                     ELSE IF c = Anonymous THEN "decide"
                     ELSE IF c.kind = "stub" THEN "sign_in"
                     ELSE "override"
         IN
         /\ claim' = [claim EXCEPT ![p] = c]
         /\ goal' = [goal EXCEPT ![p] = g]
         /\ Goes(p, next)
         /\ outcome' = [outcome EXCEPT ![p] =
              IF g = Missing THEN "not_found" ELSE "none"]
         /\ named' = [named EXCEPT ![p] =
              IF IsExternal(c) THEN Names(c.email) ELSE {}]
    /\ affiliation' = [affiliation EXCEPT ![p] = NoCommunity]
    /\ shown' = [shown EXCEPT ![p] = {}]
    /\ withdrawn' = withdrawn \ {p}
    /\ UNCHANGED policyVars

Affiliates(p, k, place) ==
    /\ affiliation' = [affiliation EXCEPT ![p] = k]
    /\ Goes(p, place)

(* CommunityAffiliationResolver: a manual override beats every rule. *)
ReadOverride(p) ==
    /\ at[p] = "override"
    /\ LET k == override[claim[p].email]
       IN Affiliates(p, k, IF k # NoCommunity THEN "sign_in" ELSE "rules")
    /\ UNCHANGED <<policyVars, claim, goal, outcome, shown, named, withdrawn>>

ReadRules_Any(p) ==
    /\ at[p] = "rules"
    /\ \E k \in rules[claim[p].email] : Affiliates(p, k, "sign_in")
    /\ UNCHANGED <<policyVars, claim, goal, outcome, shown, named, withdrawn>>

ReadRules(p) ==
    /\ at[p] = "rules"
    /\ \E k \in Community : rules[claim[p].email] = {k} /\ Affiliates(p, k, "sign_in")
    /\ UNCHANGED <<policyVars, claim, goal, outcome, shown, named, withdrawn>>

(* unsupported_email_domain or ambiguous_email_domain: a listing falls     *)
(* back to what nobody in particular may see.                              *)
NoAffiliation(p) ==
    /\ at[p] = "rules"
    /\ \A k \in Community : rules[claim[p].email] # {k}
    /\ \/ goal[p] = Listing
          /\ Ends(p, "listed")
          /\ shown' = [shown EXCEPT ![p] =
               {c \in Collection : CommunityOf[c] = NoCommunity}]
       \/ goal[p] # Listing /\ Ends(p, "refused") /\ UNCHANGED shown
    /\ UNCHANGED <<policyVars, claim, goal, affiliation, named, withdrawn>>

SignIn(p) ==
    /\ at[p] = "sign_in"
    /\ Goes(p, IF affiliation[p] # NoCommunity THEN "membership" ELSE "decide")
    /\ UNCHANGED <<policyVars, claim, goal, affiliation, outcome, shown, named, withdrawn>>

(* The email belongs to another subject of the provider. *)
SignInFails(p) ==
    /\ at[p] = "sign_in"
    /\ IsExternal(claim[p])
    /\ Ends(p, "refused")
    /\ UNCHANGED <<policyVars, claim, goal, affiliation, shown, named, withdrawn>>

EnsureMembership_InsertOnly(p) ==
    /\ at[p] = "membership"
    /\ member' = [member EXCEPT ![<<claim[p].user, affiliation[p]>>] =
                    IF @ = "none" THEN "active" ELSE @]
    /\ Goes(p, "decide")
    /\ UNCHANGED <<override, rules, claim, goal, affiliation, outcome, shown, named, withdrawn>>

(* One statement, insert or reactivate. *)
EnsureMembership(p) ==
    /\ at[p] = "membership"
    /\ member' = [member EXCEPT ![<<claim[p].user, affiliation[p]>>] = "active"]
    /\ Goes(p, "decide")
    /\ UNCHANGED <<override, rules, claim, goal, affiliation, outcome, shown, named, withdrawn>>

IsMember(p, k) == claim[p] # Anonymous /\ member[<<claim[p].user, k>>] = "active"

MayUse_Members(p, c) ==
    CommunityOf[c] = NoCommunity \/ IsMember(p, CommunityOf[c])

MayUse(p, c) ==
    \/ CommunityOf[c] = NoCommunity
    \/ /\ claim[p] # Anonymous
       /\ affiliation[p] \in {NoCommunity, CommunityOf[c]}
       /\ IsMember(p, CommunityOf[c])

Authorize(p) ==
    /\ at[p] = "decide"
    /\ goal[p] \in Collection
    /\ Ends(p, IF MayUse(p, goal[p]) THEN "granted" ELSE "denied")
    /\ UNCHANGED <<policyVars, claim, goal, affiliation, shown, named, withdrawn>>

Accessible_Members(p, c) ==
    CommunityOf[c] = NoCommunity \/ IsMember(p, CommunityOf[c])

(* _compute_access_state = "accessible" *)
Accessible(p, c) ==
    \/ CommunityOf[c] = NoCommunity
    \/ /\ claim[p] # Anonymous
       /\ affiliation[p] # NoCommunity => affiliation[p] = CommunityOf[c]
       /\ IsMember(p, CommunityOf[c])

List(p) ==
    /\ at[p] = "decide"
    /\ goal[p] = Listing
    /\ Ends(p, "listed")
    /\ shown' = [shown EXCEPT ![p] = {c \in Collection : Accessible(p, c)}]
    /\ UNCHANGED <<policyVars, claim, goal, affiliation, named, withdrawn>>

Operate == SetOverride \/ SetRules \/ SetMembership

Serve(p) ==
    \/ Begin(p) \/ ReadOverride(p) \/ ReadRules(p) \/ NoAffiliation(p)
    \/ SignIn(p) \/ SignInFails(p) \/ EnsureMembership(p)
    \/ Authorize(p) \/ List(p)

Next == Operate \/ \E p \in Proc : Serve(p)

Spec == Init /\ [][Next]_vars

-----------------------------------------------------------------------------
(* Properties.                                                             *)

Private(c) == CommunityOf[c] # NoCommunity

(* A provider's user enters a private collection only if an operator's     *)
(* rule or override named its community for the user's email during that   *)
(* very request: a membership left over from before is not enough.  (Two   *)
(* reads in two sessions: named at some moment is all that can be said.)   *)
AccessJustified ==
    \A p \in Proc :
      /\ outcome[p] = "granted" /\ Private(goal[p]) /\ IsExternal(claim[p])
      => CommunityOf[goal[p]] \in named[p]

(* A request whose email an operator has assigned to the collection's      *)
(* community is let in, whatever became of the user's membership before:   *)
(* only a withdrawal in the middle of the request keeps it out.            *)
EntitledGetsIn ==
    \A p \in Proc :
      /\ outcome[p] = "denied" /\ affiliation[p] = CommunityOf[goal[p]]
      => p \in withdrawn

(* Requests make nobody a member of a community that was not named for     *)
(* them, however the operators' edits fall between their reads.            *)
MembershipsEarned ==
    [][\A u \in User, k \in Community :
         /\ member[<<u, k>>] # "active" /\ member'[<<u, k>>] = "active"
         /\ at' # at
         => \E p \in Proc : /\ at'[p] # at[p] /\ k \in named[p]
                            /\ IsExternal(claim[p]) /\ claim[p].user = u]_vars

(* What authorize_collection would answer the same identity right now.     *)
Effective(e) ==
    IF override[e] # NoCommunity THEN override[e]
    ELSE IF \E k \in Community : rules[e] = {k}
         THEN CHOOSE k \in Community : rules[e] = {k}
         ELSE NoCommunity

WouldEnter(p, c) ==
    /\ claim[p] # Anonymous
    /\ IF claim[p].kind = "stub" THEN IsMember(p, CommunityOf[c])
       ELSE Effective(claim[p].email) = CommunityOf[c]

StillAffiliated(p) ==
    IsExternal(claim[p]) => affiliation[p] = Effective(claim[p].email)

(* Listing and authorization are two implementations of one rule: a        *)
(* listing calls a private collection accessible exactly if authorization  *)
(* would grant it, unless the rules or the membership changed meanwhile.   *)
ListingHonest ==
    [][\A p \in Proc :
         /\ at[p] # "done" /\ outcome'[p] = "listed" /\ StillAffiliated(p)
         => \A c \in Collection :
              Private(c) =>
                /\ c \in shown'[p] => WouldEnter(p, c)
                /\ WouldEnter(p, c) => c \in shown'[p] \/ p \in withdrawn]_vars

=============================================================================
