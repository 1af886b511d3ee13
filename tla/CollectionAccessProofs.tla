----------------------- MODULE CollectionAccessProofs -----------------------
(***************************************************************************)
(* Proofs about CollectionAccess for any number of requests, users, emails *)
(* and communities, and any edits of the operators between two sessions of *)
(* a request.  Each property speaks of a request that is over; what makes  *)
(* it inductive is what the request carries from session to session.       *)
(***************************************************************************)
EXTENDS CollectionAccess, TLAPS

(* An affiliation was named during the request, and is only ever had by a  *)
(* provider's user, whose membership was renewed before the decision.      *)
RequestInv(p) ==
    /\ IsExternal(claim[p]) => Names(claim[p].email) \subseteq named[p]
    /\ at[p] \in {"override", "rules"} => IsExternal(claim[p])
    /\ affiliation[p] # NoCommunity =>
         IsExternal(claim[p]) /\ affiliation[p] \in named[p]
    /\ at[p] \in {"idle", "override", "rules"} => affiliation[p] = NoCommunity
    /\ at[p] \in {"sign_in", "decide"} /\ IsExternal(claim[p]) =>
         affiliation[p] # NoCommunity
    /\ at[p] = "decide" /\ affiliation[p] # NoCommunity =>
         member[<<claim[p].user, affiliation[p]>>] = "active" \/ p \in withdrawn
    /\ outcome[p] \in {"granted", "denied"} => goal[p] \in Collection

IInv ==
    /\ TypeOK
    /\ \A p \in Proc : RequestInv(p)
    /\ AccessJustified
    /\ EntitledGetsIn

-----------------------------------------------------------------------------
(* Types.                                                                  *)

LEMMA ClaimTyped ==
    ASSUME TypeOK, NEW p \in Proc, claim[p] \in Signed \/ IsExternal(claim[p])
    PROVE  /\ claim[p] \in Signed /\ claim[p].user \in User /\ claim[p].email \in Email
           /\ claim[p] # Anonymous
<1>1. claim[p] \in Signed /\ claim[p] # Anonymous
  BY AnonymousAssumption DEF TypeOK, IsExternal
<1> QED  BY <1>1 DEF Signed

LEMMA InitInv == Init => IInv
<1> SUFFICES ASSUME Init PROVE IInv
  OBVIOUS
<1>1. TypeOK
  BY DEF Init, TypeOK, Place, Goal, Status, Outcome
<1>2. ASSUME NEW p \in Proc
      PROVE  RequestInv(p)
  BY DEF Init, RequestInv, IsExternal
<1>3. AccessJustified /\ EntitledGetsIn
  BY DEF Init, AccessJustified, EntitledGetsIn
<1> QED  BY <1>1, <1>2, <1>3 DEF IInv

LEMMA OperateTyped ==
    ASSUME TypeOK, Operate
    PROVE  TypeOK'
<1> USE DEF TypeOK
<1>1. CASE SetOverride \/ SetRules
  <2>1. named' \in [Proc -> SUBSET Community]
    BY <1>1 DEF SetOverride, SetRules, Witnessed, Names
  <2> QED  BY <1>1, <2>1 DEF SetOverride, SetRules, requestVars
<1>2. CASE SetMembership
  BY <1>2 DEF SetMembership, requestVars, Status
<1> QED  BY <1>1, <1>2 DEF Operate

LEMMA ServeTyped ==
    ASSUME TypeOK, NEW p \in Proc, Serve(p)
    PROVE  TypeOK'
<1> USE DEF TypeOK, Place, Outcome
<1>1. CASE Begin(p)
  <2>1. PICK c \in Signed \cup {Anonymous}, g \in Goal :
          /\ claim' = [claim EXCEPT ![p] = c]
          /\ goal' = [goal EXCEPT ![p] = g]
          /\ at' = [at EXCEPT ![p] = IF g = Missing THEN "done"
                                     ELSE IF c = Anonymous THEN "decide"
                                     ELSE IF c.kind = "stub" THEN "sign_in"
                                     ELSE "override"]
          /\ outcome' = [outcome EXCEPT ![p] =
               IF g = Missing THEN "not_found" ELSE "none"]
          /\ named' = [named EXCEPT ![p] =
               IF IsExternal(c) THEN Names(c.email) ELSE {}]
    BY <1>1 DEF Begin, Goes
  <2>2. named' \in [Proc -> SUBSET Community]
    BY <2>1 DEF Names
  <2>3. at' \in [Proc -> Place] /\ outcome' \in [Proc -> Outcome]
    BY <2>1
  <2>4. claim' \in [Proc -> Signed \cup {Anonymous}] /\ goal' \in [Proc -> Goal]
    BY <2>1
  <2>5. /\ affiliation' \in [Proc -> Community \cup {NoCommunity}]
        /\ shown' \in [Proc -> SUBSET Collection]
        /\ withdrawn' \subseteq Proc /\ UNCHANGED policyVars
    BY <1>1 DEF Begin
  <2>6. ASSUME NEW q \in Proc
        PROVE  /\ at'[q] \in {"override", "rules", "sign_in", "membership"} =>
                    claim'[q] \in Signed
               /\ at'[q] = "membership" => affiliation'[q] \in Community
               /\ at'[q] = "done" <=> outcome'[q] # "none"
    <3>1. CASE q = p
      BY <2>1, <3>1
    <3>2. CASE q # p
      BY <1>1, <2>1, <3>2 DEF Begin
    <3> QED  BY <3>1, <3>2
  <2> QED  BY <2>2, <2>3, <2>4, <2>5, <2>6 DEF policyVars
<1>2. CASE ReadOverride(p)
  <2>1. override[claim[p].email] \in Community \cup {NoCommunity}
    BY <1>2, ClaimTyped DEF ReadOverride
  <2> QED  BY <1>2, <2>1 DEF ReadOverride, Affiliates, Goes, policyVars
<1>3. CASE ReadRules(p)
  BY <1>3 DEF ReadRules, Affiliates, Goes, policyVars
<1>4. CASE NoAffiliation(p)
  BY <1>4 DEF NoAffiliation, Ends, Goes, policyVars
<1>5. CASE SignIn(p) \/ SignInFails(p)
  BY <1>5 DEF SignIn, SignInFails, Ends, Goes, policyVars
<1>6. CASE EnsureMembership(p)
  BY <1>6 DEF EnsureMembership, Goes, Status
<1>7. CASE Authorize(p)
  BY <1>7 DEF Authorize, Ends, Goes, policyVars
<1>8. CASE List(p)
  BY <1>8 DEF List, Ends, Goes, policyVars
<1> QED  BY <1>1, <1>2, <1>3, <1>4, <1>5, <1>6, <1>7, <1>8 DEF Serve

-----------------------------------------------------------------------------
(* Requests.                                                               *)

Justified(p) ==
    outcome[p] = "granted" /\ Private(goal[p]) /\ IsExternal(claim[p]) =>
      CommunityOf[goal[p]] \in named[p]

Entitled(p) ==
    outcome[p] = "denied" /\ affiliation[p] = CommunityOf[goal[p]] => p \in withdrawn

LEMMA Parts ==
    /\ AccessJustified <=> \A p \in Proc : Justified(p)
    /\ EntitledGetsIn <=> \A p \in Proc : Entitled(p)
BY DEF AccessJustified, EntitledGetsIn, Justified, Entitled

LEMMA OperateKeeps ==
    ASSUME TypeOK, Operate, NEW p \in Proc, RequestInv(p), Justified(p), Entitled(p)
    PROVE  RequestInv(p)' /\ Justified(p)' /\ Entitled(p)'
<1> USE DEF requestVars
<1>1. CASE SetOverride \/ SetRules
  <2>1. /\ named[p] \subseteq named'[p]
        /\ IsExternal(claim[p]) => Names(claim[p].email)' \subseteq named'[p]
        /\ UNCHANGED <<requestVars, member, withdrawn>>
    BY <1>1 DEF SetOverride, SetRules, Witnessed, TypeOK
  <2>2. RequestInv(p)'
    BY <2>1 DEF RequestInv, IsExternal
  <2> QED  BY <2>1, <2>2 DEF Justified, Entitled, Private, IsExternal
<1>2. CASE SetMembership
  <2>1. /\ UNCHANGED <<requestVars, named, override, rules>>
        /\ p \in withdrawn => p \in withdrawn'
        /\ \A m \in User \X Community :
             member[m] = "active" => member'[m] = "active" \/ p \in withdrawn'
    BY <1>2 DEF SetMembership, TypeOK
  <2>2. affiliation[p] # NoCommunity =>
          <<claim[p].user, affiliation[p]>> \in User \X Community
    BY ClaimTyped DEF RequestInv, TypeOK
  <2>3. RequestInv(p)'
    BY <2>1, <2>2 DEF RequestInv, IsExternal, Names
  <2> QED  BY <2>1, <2>3 DEF Justified, Entitled, Private, IsExternal
<1> QED  BY <1>1, <1>2 DEF Operate

(* Another request at most renews a membership. *)
LEMMA OthersKeep ==
    ASSUME TypeOK, NEW p \in Proc, Serve(p), NEW q \in Proc, q # p,
           RequestInv(q), Justified(q), Entitled(q)
    PROVE  RequestInv(q)' /\ Justified(q)' /\ Entitled(q)'
<1>1. /\ at'[q] = at[q] /\ claim'[q] = claim[q] /\ goal'[q] = goal[q]
      /\ affiliation'[q] = affiliation[q] /\ outcome'[q] = outcome[q]
      /\ named'[q] = named[q] /\ override' = override /\ rules' = rules
      /\ q \in withdrawn <=> q \in withdrawn'
  <2>1. CASE Begin(p)
    BY <2>1 DEF Begin, Goes, policyVars, TypeOK
  <2>2. CASE ReadOverride(p) \/ ReadRules(p)
    BY <2>2 DEF ReadOverride, ReadRules, Affiliates, Goes, policyVars, TypeOK
  <2>3. CASE NoAffiliation(p) \/ SignIn(p) \/ SignInFails(p)
    BY <2>3 DEF NoAffiliation, SignIn, SignInFails, Ends, Goes, policyVars, TypeOK
  <2>4. CASE EnsureMembership(p)
    BY <2>4 DEF EnsureMembership, Goes, TypeOK
  <2>5. CASE Authorize(p) \/ List(p)
    BY <2>5 DEF Authorize, List, Ends, Goes, policyVars, TypeOK
  <2> QED  BY <2>1, <2>2, <2>3, <2>4, <2>5 DEF Serve
<1>2. \A m \in User \X Community : member[m] = "active" => member'[m] = "active"
  <2>1. CASE EnsureMembership(p)
    BY <2>1 DEF EnsureMembership, TypeOK
  <2>2. CASE ~EnsureMembership(p)
    BY <2>2 DEF Serve, Begin, ReadOverride, ReadRules, NoAffiliation, SignIn, SignInFails,
                Authorize, List, policyVars
  <2> QED  BY <2>1, <2>2
<1>3. affiliation[q] # NoCommunity =>
        <<claim[q].user, affiliation[q]>> \in User \X Community
  BY ClaimTyped DEF RequestInv, TypeOK
<1>4. RequestInv(q)'
  BY <1>1, <1>2, <1>3 DEF RequestInv, IsExternal, Names
<1> QED  BY <1>1, <1>4 DEF Justified, Entitled, Private, IsExternal

LEMMA ServeKeeps ==
    ASSUME TypeOK, NEW p \in Proc, Serve(p), RequestInv(p), Justified(p), Entitled(p)
    PROVE  RequestInv(p)' /\ Justified(p)' /\ Entitled(p)'
<1> USE DEF TypeOK, policyVars
<1>1. CASE Begin(p)
  <2>1. PICK c \in Signed \cup {Anonymous}, g \in Goal :
          /\ claim' = [claim EXCEPT ![p] = c]
          /\ goal' = [goal EXCEPT ![p] = g]
          /\ at' = [at EXCEPT ![p] = IF g = Missing THEN "done"
                                     ELSE IF c = Anonymous THEN "decide"
                                     ELSE IF c.kind = "stub" THEN "sign_in"
                                     ELSE "override"]
          /\ outcome' = [outcome EXCEPT ![p] =
               IF g = Missing THEN "not_found" ELSE "none"]
          /\ named' = [named EXCEPT ![p] =
               IF IsExternal(c) THEN Names(c.email) ELSE {}]
    BY <1>1 DEF Begin, Goes
  <2>2. affiliation'[p] = NoCommunity /\ UNCHANGED <<override, rules, member>>
    BY <1>1 DEF Begin
  <2>3. IsExternal(c) => c \in Signed /\ c.kind = "external"
    BY DEF IsExternal
  <2>4. c \in Signed => c.kind \in {"stub", "external"}
    BY DEF Signed
  <2>5. claim'[p] = c /\ named'[p] = (IF IsExternal(c) THEN Names(c.email) ELSE {})
    BY <2>1
  <2>6. Names(c.email)' = Names(c.email)
    BY <2>2 DEF Names
  <2>7. Names(claim[p].email)' = Names(c.email)'
    BY <2>5 DEF Names
  <2>8. outcome'[p] \in {"not_found", "none"}
    BY <2>1
  <2>9. /\ at'[p] \in {"override", "rules"} => IsExternal(c)
        /\ at'[p] \in {"sign_in", "decide"} => ~IsExternal(c)
    BY <2>1, <2>3, <2>4 DEF IsExternal
  <2>10. IsExternal(claim[p])' <=> IsExternal(c)
    BY <2>5 DEF IsExternal
  <2>11. RequestInv(p)'
    BY <2>2, <2>5, <2>6, <2>7, <2>8, <2>9, <2>10 DEF RequestInv
  <2> QED  BY <2>8, <2>11 DEF Justified, Entitled
<1>2. CASE ReadOverride(p)
  <2> USE DEF ReadOverride, Affiliates, Goes
  <2>1. IsExternal(claim[p]) /\ claim[p].email \in Email
    BY <1>2, ClaimTyped DEF RequestInv
  <2>2. override[claim[p].email] # NoCommunity => override[claim[p].email] \in named[p]
    BY <2>1 DEF RequestInv, Names
  <2>3. outcome'[p] = "none"
    BY <1>2
  <2>4. RequestInv(p)'
    BY <1>2, <2>1, <2>2, <2>3 DEF RequestInv, IsExternal, Names
  <2> QED  BY <2>3, <2>4 DEF Justified, Entitled
<1>3. CASE ReadRules(p)
  <2> USE DEF ReadRules, Affiliates, Goes
  <2>1. IsExternal(claim[p])
    BY <1>3 DEF RequestInv
  <2>2. affiliation'[p] \in named[p] /\ affiliation'[p] # NoCommunity
    BY <1>3, <2>1, AccessAssumption DEF RequestInv, Names
  <2>3. outcome'[p] = "none" /\ at'[p] = "sign_in"
    BY <1>3
  <2>4. UNCHANGED <<claim, named, override, rules>>
    BY <1>3
  <2>5. RequestInv(p)'
    BY <2>1, <2>2, <2>3, <2>4 DEF RequestInv, IsExternal, Names
  <2> QED  BY <2>3, <2>5 DEF Justified, Entitled
<1>4. CASE NoAffiliation(p) \/ SignInFails(p)
  <2> USE DEF NoAffiliation, SignInFails, Ends, Goes
  <2>1. outcome'[p] \in {"listed", "refused"} /\ at'[p] = "done"
    BY <1>4
  <2>2. UNCHANGED <<claim, named, override, rules, affiliation>>
    BY <1>4
  <2>3. RequestInv(p)'
    BY <2>1, <2>2 DEF RequestInv, IsExternal, Names
  <2> QED  BY <2>1, <2>3 DEF Justified, Entitled
<1>5. CASE SignIn(p)
  <2>1. outcome'[p] = "none" /\ at[p] = "sign_in"
        /\ at'[p] = (IF affiliation[p] # NoCommunity THEN "membership" ELSE "decide")
        /\ UNCHANGED <<claim, named, override, rules, affiliation>>
    BY <1>5 DEF SignIn, Goes
  <2>2. RequestInv(p)'
    BY <2>1 DEF RequestInv, IsExternal, Names
  <2> QED  BY <2>1, <2>2 DEF Justified, Entitled
<1>6. CASE EnsureMembership(p)
  <2>1. outcome'[p] = "none" /\ at[p] = "membership" /\ at'[p] = "decide"
        /\ UNCHANGED <<claim, named, override, rules, affiliation>>
    BY <1>6 DEF EnsureMembership, Goes
  <2>2. <<claim[p].user, affiliation[p]>> \in User \X Community
    BY <2>1, ClaimTyped
  <2>3. member'[<<claim[p].user, affiliation[p]>>] = "active"
    BY <1>6, <2>2 DEF EnsureMembership
  <2>4. affiliation[p] # NoCommunity
    BY <2>1, AccessAssumption
  <2>5. RequestInv(p)'
    BY <2>1, <2>3, <2>4 DEF RequestInv, IsExternal, Names
  <2> QED  BY <2>1, <2>5 DEF Justified, Entitled
<1>7. CASE Authorize(p)
  <2>1. /\ goal[p] \in Collection /\ at[p] = "decide" /\ at'[p] = "done"
        /\ outcome'[p] = (IF MayUse(p, goal[p]) THEN "granted" ELSE "denied")
        /\ UNCHANGED <<claim, goal, named, override, rules, affiliation, withdrawn>>
    BY <1>7 DEF Authorize, Ends, Goes
  <2>2. RequestInv(p)'
    BY <2>1 DEF RequestInv, IsExternal, Names
  <2>3. Justified(p)'
    BY <2>1 DEF Justified, RequestInv, MayUse, Private, IsExternal
  <2>4. Entitled(p)'
    <3> SUFFICES ASSUME outcome'[p] = "denied", affiliation[p] = CommunityOf[goal[p]]
                 PROVE  p \in withdrawn
      BY <2>1 DEF Entitled
    <3>1. ~MayUse(p, goal[p]) /\ affiliation[p] # NoCommunity
      BY <2>1 DEF MayUse
    <3>2. claim[p] # Anonymous
      BY <3>1 DEF RequestInv, IsExternal
    <3> QED  BY <2>1, <3>1, <3>2 DEF MayUse, IsMember, RequestInv
  <2> QED  BY <2>2, <2>3, <2>4
<1>8. CASE List(p)
  <2>1. outcome'[p] = "listed" /\ at'[p] = "done"
        /\ UNCHANGED <<claim, goal, named, override, rules, affiliation>>
    BY <1>8 DEF List, Ends, Goes
  <2>2. RequestInv(p)'
    BY <2>1 DEF RequestInv, IsExternal, Names
  <2> QED  BY <2>1, <2>2 DEF Justified, Entitled
<1> QED  BY <1>1, <1>2, <1>3, <1>4, <1>5, <1>6, <1>7, <1>8 DEF Serve

LEMMA Stutters ==
    ASSUME IInv, UNCHANGED vars
    PROVE  IInv'
BY DEF IInv, vars, policyVars, requestVars, TypeOK, RequestInv, AccessJustified,
       EntitledGetsIn, IsExternal, Names, Private

LEMMA StepInv ==
    ASSUME IInv, [Next]_vars
    PROVE  IInv'
<1>1. \A p \in Proc : RequestInv(p) /\ Justified(p) /\ Entitled(p)
  BY Parts DEF IInv
<1>2. TypeOK
  BY DEF IInv
<1>3. ASSUME TypeOK', \A p \in Proc : RequestInv(p)' /\ Justified(p)' /\ Entitled(p)'
      PROVE  IInv'
  BY <1>3 DEF IInv, AccessJustified, EntitledGetsIn, Justified, Entitled
<1>4. CASE UNCHANGED vars
  BY <1>4, Stutters
<1>5. CASE Operate
  BY <1>1, <1>2, <1>3, <1>5, OperateTyped, OperateKeeps
<1>6. ASSUME NEW p \in Proc, Serve(p)
      PROVE  IInv'
  BY <1>1, <1>2, <1>3, <1>6, ServeTyped, ServeKeeps, OthersKeep
<1> QED  BY <1>4, <1>5, <1>6 DEF Next

-----------------------------------------------------------------------------
(* Theorems.                                                               *)

(* What requests carry from session to session is inductive. *)
THEOREM Invariance == Spec => []IInv
BY InitInv, StepInv, PTL DEF Spec

(* Requests are well typed; membership is only renewed with an affiliation.*)
THEOREM TypeCorrect == Spec => []TypeOK
<1>1. IInv => TypeOK
  BY DEF IInv
<1> QED  BY Invariance, <1>1, PTL

(* A private collection is entered only on an affiliation of this request. *)
THEOREM AccessSafety == Spec => []AccessJustified
<1>1. IInv => AccessJustified
  BY DEF IInv
<1> QED  BY Invariance, <1>1, PTL

(* Only a withdrawal during the request keeps an entitled user out.        *)
THEOREM EntitledSafety == Spec => []EntitledGetsIn
<1>1. IInv => EntitledGetsIn
  BY DEF IInv
<1> QED  BY Invariance, <1>1, PTL

-----------------------------------------------------------------------------
(* Action properties.                                                      *)

LEMMA EarnedStep ==
    ASSUME IInv, Next, at' # at, NEW u \in User, NEW k \in Community,
           member[<<u, k>>] # "active", member'[<<u, k>>] = "active"
    PROVE  \E p \in Proc : /\ at'[p] # at[p] /\ k \in named[p]
                           /\ IsExternal(claim[p]) /\ claim[p].user = u
<1>1. PICK p \in Proc : Serve(p)
  BY DEF Next, Operate, SetOverride, SetRules, SetMembership, requestVars
<1>2. EnsureMembership(p)
  BY <1>1 DEF Serve, Begin, ReadOverride, ReadRules, NoAffiliation, SignIn, SignInFails,
              Authorize, List, policyVars
<1>3. /\ at[p] = "membership" /\ at'[p] # at[p]
      /\ member' = [member EXCEPT ![<<claim[p].user, affiliation[p]>>] = "active"]
  BY <1>2 DEF EnsureMembership, Goes, IInv, TypeOK
<1>4. u = claim[p].user /\ k = affiliation[p]
  BY <1>3 DEF IInv, TypeOK
<1>5. k # NoCommunity
  BY AccessAssumption
<1> QED  BY <1>3, <1>4, <1>5 DEF IInv, RequestInv

LEMMA ListingStep ==
    ASSUME IInv, Next, NEW p \in Proc, at[p] # "done", outcome'[p] = "listed",
           StillAffiliated(p), NEW c \in Collection, Private(c)
    PROVE  /\ c \in shown'[p] => WouldEnter(p, c)
           /\ WouldEnter(p, c) => c \in shown'[p] \/ p \in withdrawn
<1> USE DEF Goes
<1>0. TypeOK /\ RequestInv(p) /\ outcome[p] = "none"
  BY DEF IInv, TypeOK
<1>1. NoAffiliation(p) \/ List(p)
  <2>1. PICK q \in Proc : Serve(q)
    BY <1>0 DEF Next, Operate, SetOverride, SetRules, SetMembership, requestVars
  <2>2. outcome' # outcome
    BY <1>0
  <2>3. \/ Begin(q) \/ NoAffiliation(q) \/ SignInFails(q) \/ Authorize(q) \/ List(q)
    BY <2>1, <2>2 DEF Serve, ReadOverride, ReadRules, SignIn, EnsureMembership
  <2>4. ~Begin(q)
    BY <1>0 DEF Begin, TypeOK
  <2>5. ~SignInFails(q) /\ ~Authorize(q)
    BY <1>0 DEF SignInFails, Authorize, Ends, TypeOK
  <2>6. q = p
    BY <1>0, <2>3, <2>4, <2>5 DEF NoAffiliation, List, Ends, TypeOK
  <2> QED  BY <2>3, <2>4, <2>5, <2>6
<1>2. CASE NoAffiliation(p)
  <2>1. at[p] = "rules" /\ IsExternal(claim[p]) /\ affiliation[p] = NoCommunity
    BY <1>0, <1>2 DEF NoAffiliation, RequestInv
  <2>2. Effective(claim[p].email) = NoCommunity /\ claim[p].kind # "stub"
    BY <2>1 DEF StillAffiliated, IsExternal
  <2>3. ~WouldEnter(p, c)
    BY <2>2 DEF WouldEnter, Private
  <2>4. c \notin shown'[p]
    BY <1>0, <1>2 DEF NoAffiliation, Private, TypeOK, Ends
  <2> QED  BY <2>3, <2>4
<1>3. CASE List(p)
  <2>1. at[p] = "decide" /\ (c \in shown'[p] <=> Accessible(p, c))
    BY <1>0, <1>3 DEF List, TypeOK
  <2>2. CASE IsExternal(claim[p])
    <3>1. /\ affiliation[p] # NoCommunity /\ claim[p] # Anonymous /\ claim[p].kind # "stub"
          /\ affiliation[p] = Effective(claim[p].email)
      BY <1>0, <2>1, <2>2 DEF RequestInv, StillAffiliated, IsExternal
    <3>2. WouldEnter(p, c) <=> affiliation[p] = CommunityOf[c]
      BY <3>1 DEF WouldEnter
    <3>3. Accessible(p, c) <=> affiliation[p] = CommunityOf[c] /\ IsMember(p, CommunityOf[c])
      BY <3>1 DEF Accessible, Private
    <3>4. affiliation[p] = CommunityOf[c] => IsMember(p, CommunityOf[c]) \/ p \in withdrawn
      BY <1>0, <2>1, <3>1 DEF RequestInv, IsMember
    <3> QED  BY <2>1, <3>2, <3>3, <3>4
  <2>3. CASE ~IsExternal(claim[p])
    <3>1. affiliation[p] = NoCommunity
      BY <1>0, <2>3 DEF RequestInv
    <3>2. claim[p] # Anonymous => claim[p].kind = "stub"
      <4>1. claim[p] # Anonymous => claim[p] \in Signed
        BY <1>0 DEF TypeOK
      <4> QED  BY <2>3, <4>1 DEF IsExternal, Signed
    <3>3. Accessible(p, c) <=> IsMember(p, CommunityOf[c])
      BY <3>1 DEF Accessible, Private, IsMember
    <3>4. WouldEnter(p, c) <=> IsMember(p, CommunityOf[c])
      BY <3>2 DEF WouldEnter, IsMember
    <3> QED  BY <2>1, <3>3, <3>4
  <2> QED  BY <2>2, <2>3
<1> QED  BY <1>1, <1>2, <1>3

(* No interleaving of operators and requests makes anyone a member of a    *)
(* community that was not named for them.                                  *)
THEOREM MembershipSafety == Spec => MembershipsEarned
<1> DEFINE Earned == \A u \in User, k \in Community :
         /\ member[<<u, k>>] # "active" /\ member'[<<u, k>>] = "active"
         /\ at' # at
         => \E p \in Proc : /\ at'[p] # at[p] /\ k \in named[p]
                            /\ IsExternal(claim[p]) /\ claim[p].user = u
<1>1. IInv /\ [Next]_vars => [Earned]_vars
  BY EarnedStep
<1> HIDE DEF Earned
<1>2. Spec => [][Earned]_vars
  BY <1>1, Invariance, PTL DEF Spec
<1> QED  BY <1>2 DEF Earned, MembershipsEarned

(* A listing and an authorization of the same moment agree.                *)
THEOREM ListingSafety == Spec => ListingHonest
<1> DEFINE Honest == \A p \in Proc :
         /\ at[p] # "done" /\ outcome'[p] = "listed" /\ StillAffiliated(p)
         => \A c \in Collection :
              Private(c) =>
                /\ c \in shown'[p] => WouldEnter(p, c)
                /\ WouldEnter(p, c) => c \in shown'[p] \/ p \in withdrawn
<1>1. IInv /\ [Next]_vars => [Honest]_vars
  BY ListingStep
<1> HIDE DEF Honest
<1>2. Spec => [][Honest]_vars
  BY <1>1, Invariance, PTL DEF Spec
<1> QED  BY <1>2 DEF Honest, ListingHonest

=============================================================================
