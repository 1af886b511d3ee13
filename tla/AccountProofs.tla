--------------------------- MODULE AccountProofs ----------------------------
(***************************************************************************)
(* Proofs about AccountProvisioning, for any number of processes, emails,  *)
(* providers and subjects.  The database is safe because of what a         *)
(* transaction knows between two statements: which locks it holds, and     *)
(* what those locks keep others from committing meanwhile.                 *)
(***************************************************************************)
EXTENDS AccountProvisioning, TLAPS

(* The statements that follow a lock. *)
HasIdentity == Place \ {"idle", "lock_identity"}
HasEmail == HasIdentity \ {"lock_email"}

LockInv ==
    /\ \A p \in Proc : at[p] \in HasIdentity => locks[KeyOf(p)] = p
    /\ \A p \in Proc : at[p] \in HasEmail /\ IsExternal(p) => locks[EmailOf(p)] = p

NoSubjectOf(provider, user) ==
    \A k \in Key : ProviderOf(k) = provider => owner[k] # user

(* What a transaction has written, by where it is. *)
WritesInv(p) ==
    /\ at[p] \notin {"link", "verify", "commit"} => wrote[p] = {}
    /\ at[p] = "link" => wrote[p] \subseteq {"user"}
    /\ at[p] \in {"lock_email", "find_email", "verify"} => IsExternal(p)
    /\ at[p] = "verify" => "verified" \notin wrote[p]
    /\ at[p] = "commit" => ("verified" \in wrote[p] <=> IsExternal(p))
    /\ at[p] \in {"verify", "commit"} =>
         ("identity" \in wrote[p] <=> owner[KeyOf(p)] = NoUser)
    /\ "user" \in wrote[p] => row[p] = EmailOf(p) /\ owner[KeyOf(p)] = NoUser

(* What it knows of the user it found. *)
RowInv(p) ==
    /\ at[p] \in {"find_email", "insert_user", "reread"} => owner[KeyOf(p)] = NoUser
    /\ at[p] \in NeedsRow =>
         /\ owner[KeyOf(p)] = NoUser => row[p] = EmailOf(p)
         /\ owner[KeyOf(p)] # NoUser => row[p] = owner[KeyOf(p)]
         /\ row[p] \in accounts \/ "user" \in wrote[p]
    /\ /\ at[p] \in {"insert_user", "reread", "link", "verify", "commit"}
       /\ owner[KeyOf(p)] = NoUser
       => NoSubjectOf(ProviderOf(KeyOf(p)), EmailOf(p))
    /\ at[p] # "idle" /\ IsExternal(p) => EmailOf(p) \in proved

TxnInv == \A p \in Proc : WritesInv(p) /\ RowInv(p)

DbInv ==
    /\ \A k \in Key : owner[k] # NoUser => owner[k] \in accounts
    /\ \A e \in Email : owner[<<Stub, e>>] \in {NoUser, e}
    /\ \A k \in Key : owner[k] # NoUser /\ ProviderOf(k) # Stub => owner[k] \in proved
    /\ OneSubjectPerProvider
    /\ NoOrphans
    /\ VerifiedMeansProved

IInv == TypeOK /\ LockInv /\ TxnInv /\ DbInv

-----------------------------------------------------------------------------
(* Keys.                                                                   *)

LEMMA KeyShape ==
    ASSUME NEW k \in Key
    PROVE  /\ ProviderOf(k) # Stub => ProviderOf(k) \in Provider
           /\ ProviderOf(k) = Stub => \E e \in Email : k = <<Stub, e>>
BY AccountAssumption DEF Key, ProviderOf

LEMMA ClaimShape ==
    ASSUME NEW c \in Claim
    PROVE  /\ c.key \in Key /\ c.email \in Email
           /\ ProviderOf(c.key) = Stub => c.key = <<Stub, c.email>>
BY AccountAssumption DEF Claim, Key, ProviderOf

LEMMA ActiveTyped ==
    ASSUME TypeOK, NEW p \in Proc, at[p] # "idle"
    PROVE  /\ claim[p] \in Claim /\ KeyOf(p) \in Key /\ EmailOf(p) \in Email
           /\ ~IsExternal(p) => KeyOf(p) = <<Stub, EmailOf(p)>>
<1>1. claim[p] \in Claim
  BY DEF TypeOK
<1> QED  BY <1>1, ClaimShape DEF KeyOf, EmailOf, IsExternal

-----------------------------------------------------------------------------
(* The initial states.                                                     *)

LEMMA InitInv == Init => IInv
<1> SUFFICES ASSUME Init PROVE IInv
  OBVIOUS
<1> USE DEF Init
<1>1. TypeOK
  BY AccountAssumption DEF TypeOK, Place, Write, NeedsRow
<1>2. LockInv
  BY DEF LockInv, HasIdentity, HasEmail, Place
<1>3. TxnInv
  BY DEF TxnInv, WritesInv, RowInv, NeedsRow
<1>4. DbInv
  <2>1. \A e \in Email : <<Stub, e>> \in Key
    BY DEF Key
  <2> QED  BY <2>1 DEF DbInv, OneSubjectPerProvider, NoOrphans, VerifiedMeansProved
<1> QED  BY <1>1, <1>2, <1>3, <1>4 DEF IInv

-----------------------------------------------------------------------------
(* Types.                                                                  *)

LEMMA EndsTyped ==
    ASSUME TypeOK, NEW p \in Proc, Ends(p),
           accounts' \subseteq Email, verified' \subseteq Email, proved' \subseteq Email,
           owner' \in [Key -> Email \cup {NoUser}]
    PROVE  TypeOK'
<1> USE DEF TypeOK, Ends, Goes
<1>1. /\ at' \in [Proc -> Place] /\ wrote' \in [Proc -> SUBSET Write]
      /\ claim' \in [Proc -> Claim \cup {NoClaim}]
      /\ row' \in [Proc -> Email \cup {NoUser}]
  BY DEF Place
<1>2. locks' \in [Key \cup Email -> Proc \cup {NoProc}]
  OBVIOUS
<1>3. ASSUME NEW q \in Proc
      PROVE  /\ at'[q] # "idle" => claim'[q] \in Claim
             /\ at'[q] \in NeedsRow => row'[q] \in Email
  BY DEF NeedsRow
<1> QED  BY <1>1, <1>2, <1>3

LEMMA TypeStep ==
    ASSUME TypeOK, [Next]_vars
    PROVE  TypeOK'
<1> USE DEF TypeOK
<1>1. CASE UNCHANGED vars
  BY <1>1 DEF vars
<1>2. ASSUME NEW p \in Proc, Begin(p)
      PROVE  TypeOK'
  <2>1. PICK c \in Claim : claim' = [claim EXCEPT ![p] = c]
                           /\ proved' \subseteq proved \cup {c.email}
    BY <1>2 DEF Begin
  <2>2. c.email \in Email
    BY ClaimShape
  <2> QED  BY <1>2, <2>1, <2>2 DEF Begin, Goes, Place, NeedsRow, dbVars
<1>3. ASSUME NEW p \in Proc, LockIdentity(p) \/ LockEmail(p)
      PROVE  TypeOK'
  <2>1. at[p] # "idle" /\ \E l \in Key \cup Email :
          \E place \in {"lock_email", "find"} : Locks(p, l, place)
    BY <1>3, ActiveTyped DEF LockIdentity, LockEmail
  <2> QED  BY <2>1 DEF Locks, Goes, Place, NeedsRow, dbVars
<1>4. ASSUME NEW p \in Proc, FindByIdentity(p)
      PROVE  TypeOK'
  BY <1>4, ActiveTyped DEF FindByIdentity, Found, Goes, Place, NeedsRow, dbVars
<1>5. ASSUME NEW p \in Proc, FindByEmail(p)
      PROVE  TypeOK'
  BY <1>5, ActiveTyped DEF FindByEmail, Found, Goes, Place, NeedsRow, dbVars
<1>6. ASSUME NEW p \in Proc, CheckPasses(p)
      PROVE  TypeOK'
  BY <1>6 DEF CheckPasses, Goes, Place, NeedsRow, dbVars
<1>7. ASSUME NEW p \in Proc, Reject(p) \/ Crash(p)
      PROVE  TypeOK'
  BY <1>7, EndsTyped DEF Reject, Crash, dbVars
<1>8. ASSUME NEW p \in Proc, InsertUser(p)
      PROVE  TypeOK'
  BY <1>8, ActiveTyped
     DEF InsertUser, Found, Writes, Goes, Place, Write, NeedsRow, dbVars
<1>9. ASSUME NEW p \in Proc, InsertConflicts(p)
      PROVE  TypeOK'
  BY <1>9 DEF InsertConflicts, Goes, Place, NeedsRow, dbVars
<1>10. ASSUME NEW p \in Proc, Reread(p)
       PROVE  TypeOK'
  BY <1>10, ActiveTyped DEF Reread, Found, Goes, Place, NeedsRow, dbVars
<1>11. ASSUME NEW p \in Proc, LinkIdentity(p)
       PROVE  TypeOK'
  <2>1. KeyOf(p) \in Key /\ row[p] \in Email
    BY <1>11, ActiveTyped DEF LinkIdentity, NeedsRow
  <2> QED  BY <1>11, <2>1
           DEF LinkIdentity, Found, Writes, Goes, Place, Write, NeedsRow, dbVars
<1>12. ASSUME NEW p \in Proc, MarkVerified(p)
       PROVE  TypeOK'
  BY <1>12 DEF MarkVerified, Writes, Goes, Place, Write, NeedsRow, dbVars
<1>13. ASSUME NEW p \in Proc, Commit(p)
       PROVE  TypeOK'
  <2>1. KeyOf(p) \in Key /\ row[p] \in Email
    BY <1>13, ActiveTyped DEF Commit, NeedsRow
  <2> QED  BY <1>13, <2>1, EndsTyped DEF Commit
<1> QED
  BY <1>1, <1>2, <1>3, <1>4, <1>5, <1>6, <1>7, <1>8, <1>9, <1>10, <1>11, <1>12, <1>13
     DEF Next, Waits, Moves

-----------------------------------------------------------------------------
(* Locks.                                                                  *)

LEMMA LockStep ==
    ASSUME TypeOK, LockInv, [Next]_vars
    PROVE  LockInv'
<1> USE DEF TypeOK
(* What keeps every process' locks: only places and locks of p move. *)
<1>0. ASSUME NEW p \in Proc,
             claim' = claim,
             \A q \in Proc \ {p} : at'[q] = at[q],
             \A q \in Proc \ {p}, l \in Key \cup Email :
               locks[l] = q => locks'[l] = q,
             at'[p] \in HasIdentity => locks'[KeyOf(p)] = p,
             at'[p] \in HasEmail /\ IsExternal(p) => locks'[EmailOf(p)] = p
      PROVE  LockInv'
  <2>1. ASSUME NEW q \in Proc, q # p, at[q] \in HasIdentity
        PROVE  locks'[KeyOf(q)] = q
    BY <1>0, <2>1, ActiveTyped DEF LockInv, HasIdentity
  <2>2. ASSUME NEW q \in Proc, q # p, at[q] \in HasEmail, IsExternal(q)
        PROVE  locks'[EmailOf(q)] = q
    BY <1>0, <2>2, ActiveTyped DEF LockInv, HasEmail, HasIdentity
  <2> QED  BY <1>0, <2>1, <2>2 DEF LockInv, KeyOf, EmailOf, IsExternal
<1>1. CASE UNCHANGED vars
  BY <1>1 DEF vars, LockInv, KeyOf, EmailOf, IsExternal
<1>2. ASSUME NEW p \in Proc, Begin(p)
      PROVE  LockInv'
  <2>1. at'[p] \notin HasIdentity /\ at'[p] \notin HasEmail
    BY <1>2 DEF Begin, Goes, HasIdentity, HasEmail
  <2>2. ASSUME NEW q \in Proc, q # p
        PROVE  at'[q] = at[q] /\ claim'[q] = claim[q] /\ locks' = locks
    BY <1>2, <2>2 DEF Begin, Goes
  <2> QED  BY <2>1, <2>2 DEF LockInv, KeyOf, EmailOf, IsExternal
<1>3. ASSUME NEW p \in Proc, LockIdentity(p)
      PROVE  LockInv'
  <2>1. KeyOf(p) \in Key /\ KeyOf(p) \notin Email
    BY <1>3, ActiveTyped, KeyAssumption DEF LockIdentity
  <2>2. /\ claim' = claim /\ locks[KeyOf(p)] = NoProc
        /\ locks' = [locks EXCEPT ![KeyOf(p)] = p]
        /\ at' = [at EXCEPT ![p] = IF IsExternal(p) THEN "lock_email" ELSE "find"]
    BY <1>3 DEF LockIdentity, Locks, Goes
  <2>3. \A q \in Proc \ {p}, l \in Key \cup Email : locks[l] = q => locks'[l] = q
    BY <2>1, <2>2, AccountAssumption
  <2>4. at'[p] \in HasEmail => ~IsExternal(p)
    BY <2>2 DEF HasEmail, HasIdentity
  <2> QED  BY <1>0, <2>1, <2>2, <2>3, <2>4
<1>4. ASSUME NEW p \in Proc, LockEmail(p)
      PROVE  LockInv'
  <2>1. EmailOf(p) \in Email /\ EmailOf(p) \notin Key /\ KeyOf(p) \in Key
    BY <1>4, ActiveTyped, KeyAssumption DEF LockEmail
  <2>2. /\ claim' = claim /\ locks[EmailOf(p)] = NoProc
        /\ locks' = [locks EXCEPT ![EmailOf(p)] = p]
        /\ at' = [at EXCEPT ![p] = "find"]
    BY <1>4 DEF LockEmail, Locks, Goes
  <2>3. \A q \in Proc \ {p}, l \in Key \cup Email : locks[l] = q => locks'[l] = q
    BY <2>1, <2>2, AccountAssumption
  <2>4. locks[KeyOf(p)] = p
    BY <1>4 DEF LockEmail, LockInv, HasIdentity, Place
  <2> QED  BY <1>0, <2>1, <2>2, <2>3, <2>4
<1>5. ASSUME NEW p \in Proc, Ends(p)
      PROVE  LockInv'
  <2>1. at'[p] \notin HasIdentity /\ at'[p] \notin HasEmail
    BY <1>5 DEF Ends, Goes, HasIdentity, HasEmail
  <2>2. ASSUME NEW q \in Proc, q # p
        PROVE  /\ at'[q] = at[q] /\ claim'[q] = claim[q]
               /\ \A l \in Key \cup Email : locks[l] = q => locks'[l] = q
    BY <1>5, <2>2 DEF Ends, Goes
  <2>3. ASSUME NEW q \in Proc, q # p, at[q] \in HasIdentity
        PROVE  locks'[KeyOf(q)] = q
    BY <2>2, <2>3, ActiveTyped DEF LockInv, HasIdentity
  <2>4. ASSUME NEW q \in Proc, q # p, at[q] \in HasEmail, IsExternal(q)
        PROVE  locks'[EmailOf(q)] = q
    BY <2>2, <2>4, ActiveTyped DEF LockInv, HasEmail, HasIdentity
  <2> QED  BY <2>1, <2>2, <2>3, <2>4 DEF LockInv, KeyOf, EmailOf, IsExternal
<1>6. ASSUME NEW p \in Proc,
             \/ FindByIdentity(p) \/ FindByEmail(p) \/ CheckPasses(p)
             \/ InsertUser(p) \/ InsertConflicts(p) \/ Reread(p)
             \/ LinkIdentity(p) \/ MarkVerified(p)
      PROVE  LockInv'
  <2>1. /\ claim' = claim /\ locks' = locks /\ at[p] \in HasEmail
        /\ at[p] \in HasIdentity
    BY <1>6 DEF FindByIdentity, FindByEmail, CheckPasses, InsertUser, InsertConflicts,
                Reread, LinkIdentity, MarkVerified, HasEmail, HasIdentity, Place
  <2>2. \A q \in Proc \ {p} : at'[q] = at[q]
    BY <1>6 DEF FindByIdentity, FindByEmail, CheckPasses, InsertUser, InsertConflicts,
                Reread, LinkIdentity, MarkVerified, Goes
  <2> QED  BY <1>0, <2>1, <2>2 DEF LockInv
<1> QED
  BY <1>1, <1>2, <1>3, <1>4, <1>5, <1>6 DEF Next, Waits, Moves, Reject, Commit, Crash

-----------------------------------------------------------------------------
(* Transactions.                                                           *)

LEMMA OthersKeep ==
    ASSUME NEW q \in Proc, WritesInv(q), RowInv(q),
           at'[q] = at[q], claim'[q] = claim[q], row'[q] = row[q], wrote'[q] = wrote[q],
           owner' = owner, accounts \subseteq accounts', proved \subseteq proved'
    PROVE  WritesInv(q)' /\ RowInv(q)'
<1>1. KeyOf(q)' = KeyOf(q) /\ EmailOf(q)' = EmailOf(q) /\ (IsExternal(q)' <=> IsExternal(q))
  BY DEF KeyOf, EmailOf, IsExternal
<1>2. WritesInv(q)'
  BY <1>1 DEF WritesInv
<1>3. RowInv(q)'
  BY <1>1 DEF RowInv, NoSubjectOf
<1> QED  BY <1>2, <1>3

(* A transaction that is over knows nothing, and the others keep theirs.   *)
LEMMA EndsKeeps ==
    ASSUME TypeOK, TxnInv, NEW p \in Proc, Ends(p), UNCHANGED <<dbVars, proved>>
    PROVE  TxnInv'
<1>1. WritesInv(p)' /\ RowInv(p)'
  BY DEF TypeOK, Ends, Goes, WritesInv, RowInv, NeedsRow
<1>2. ASSUME NEW q \in Proc, q # p
      PROVE  WritesInv(q)' /\ RowInv(q)'
  <2>1. /\ at'[q] = at[q] /\ claim'[q] = claim[q] /\ row'[q] = row[q]
        /\ wrote'[q] = wrote[q]
    BY <1>2 DEF TypeOK, Ends, Goes
  <2> QED  BY <2>1, OthersKeep DEF TxnInv, dbVars
<1> QED  BY <1>1, <1>2 DEF TxnInv

(* No other process can change what a process reads under its locks: if    *)
(* two hold the identity lock of one key they are the same.                *)
LEMMA IdentityLockExcludes ==
    ASSUME LockInv, NEW p \in Proc, NEW q \in Proc, at[p] \in HasIdentity,
           at[q] \in HasIdentity, KeyOf(p) = KeyOf(q)
    PROVE  p = q
BY DEF LockInv

LEMMA EmailLockExcludes ==
    ASSUME LockInv, NEW p \in Proc, NEW q \in Proc, at[p] \in HasEmail,
           at[q] \in HasEmail, IsExternal(p), IsExternal(q), EmailOf(p) = EmailOf(q)
    PROVE  p = q
BY DEF LockInv

LEMMA TxnCommit ==
    ASSUME TypeOK, LockInv, TxnInv, DbInv, NEW p \in Proc, Commit(p)
    PROVE  TxnInv'
<1> USE DEF TypeOK
<1>1. /\ KeyOf(p) \in Key /\ EmailOf(p) \in Email /\ row[p] \in Email
      /\ at[p] \in HasIdentity /\ at[p] \in HasEmail
      /\ WritesInv(p) /\ RowInv(p) /\ at[p] = "commit"
  BY ActiveTyped DEF Commit, TxnInv, HasIdentity, HasEmail, Place, NeedsRow
<1>2. WritesInv(p)' /\ RowInv(p)'
  BY DEF Commit, Ends, Goes, WritesInv, RowInv, NeedsRow
<1>3. ASSUME NEW q \in Proc, q # p
      PROVE  WritesInv(q)' /\ RowInv(q)'
  <2>1. /\ at'[q] = at[q] /\ claim'[q] = claim[q] /\ row'[q] = row[q]
        /\ wrote'[q] = wrote[q]
    BY <1>3 DEF Commit, Ends, Goes
  <2>2. accounts \subseteq accounts' /\ proved' = proved
    BY DEF Commit
  <2>3. WritesInv(q) /\ RowInv(q)
    BY DEF TxnInv
  <2>4. CASE "identity" \notin wrote[p]
    <3>1. owner' = owner
      BY <2>4 DEF Commit
    <3> QED  BY <2>1, <2>2, <2>3, <3>1, OthersKeep
  <2>5. CASE at[q] \notin HasIdentity
    <3>1. at[q] \in {"idle", "lock_identity"}
      BY <2>5 DEF HasIdentity
    <3>2. IsExternal(q)' <=> IsExternal(q)
      BY <2>1 DEF IsExternal, KeyOf
    <3>3. EmailOf(q)' = EmailOf(q)
      BY <2>1 DEF EmailOf
    <3> QED  BY <2>1, <2>2, <2>3, <3>1, <3>2, <3>3 DEF WritesInv, RowInv, NeedsRow
  <2>6. CASE "identity" \in wrote[p] /\ at[q] \in HasIdentity
    <3>1. /\ KeyOf(q) \in Key /\ EmailOf(q) \in Email
          /\ ~IsExternal(q) => KeyOf(q) = <<Stub, EmailOf(q)>>
      BY <2>6, ActiveTyped DEF HasIdentity
    <3>2. KeyOf(q) # KeyOf(p)
      BY <1>1, <1>3, <2>6, IdentityLockExcludes
    <3>3. owner' = [owner EXCEPT ![KeyOf(p)] = row[p]]
      BY <2>6 DEF Commit
    <3>4. owner'[KeyOf(q)] = owner[KeyOf(q)]
      BY <3>1, <3>2, <3>3
    <3>5. row[p] = EmailOf(p)
      BY <1>1, <2>6 DEF WritesInv, RowInv, NeedsRow
    <3>6. /\ KeyOf(q)' = KeyOf(q) /\ EmailOf(q)' = EmailOf(q)
          /\ IsExternal(q)' <=> IsExternal(q)
      BY <2>1 DEF KeyOf, EmailOf, IsExternal
    <3>7. WritesInv(q)'
      BY <2>1, <2>3, <3>4, <3>6 DEF WritesInv
    <3>8. ASSUME at[q] \in {"insert_user", "reread", "link", "verify", "commit"},
                 owner[KeyOf(q)] = NoUser
          PROVE  NoSubjectOf(ProviderOf(KeyOf(q)), EmailOf(q))'
      <4>1. NoSubjectOf(ProviderOf(KeyOf(q)), EmailOf(q))
        BY <2>3, <3>8 DEF RowInv
      <4>2. ASSUME ProviderOf(KeyOf(p)) = ProviderOf(KeyOf(q))
            PROVE  EmailOf(p) # EmailOf(q)
        <5>1. CASE IsExternal(q)
          <6>1. IsExternal(p) /\ at[q] \in HasEmail
            BY <3>8, <4>2, <5>1 DEF IsExternal, HasEmail, HasIdentity, Place
          <6> QED  BY <1>1, <1>3, <5>1, <6>1, EmailLockExcludes
        <5>2. CASE ~IsExternal(q)
          <6>1. ~IsExternal(p)
            BY <4>2, <5>2 DEF IsExternal
          <6>2. KeyOf(p) = <<Stub, EmailOf(p)>> /\ KeyOf(q) = <<Stub, EmailOf(q)>>
            BY <1>1, <3>1, <5>2, <6>1, ActiveTyped
          <6> QED  BY <3>2, <6>2
        <5> QED  BY <5>1, <5>2
      <4>3. ASSUME NEW k \in Key, ProviderOf(k) = ProviderOf(KeyOf(q))
            PROVE  owner'[k] # EmailOf(q)
        <5>1. CASE k = KeyOf(p)
          BY <1>1, <3>3, <3>5, <4>2, <4>3, <5>1
        <5>2. CASE k # KeyOf(p)
          BY <3>3, <4>1, <4>3, <5>2 DEF NoSubjectOf
        <5> QED  BY <5>1, <5>2
      <4> QED  BY <3>6, <4>3 DEF NoSubjectOf
    <3>9. RowInv(q)'
      BY <2>1, <2>2, <2>3, <3>4, <3>6, <3>8 DEF RowInv
    <3> QED  BY <3>7, <3>9
  <2> QED  BY <2>4, <2>5, <2>6
<1> QED  BY <1>2, <1>3 DEF TxnInv

(* A statement of p that commits nothing: p's own knowledge is what counts.*)
LEMMA StatementKeeps ==
    ASSUME TypeOK, TxnInv, NEW p \in Proc, UNCHANGED dbVars, claim' = claim,
           proved' = proved,
           \A q \in Proc \ {p} :
             at'[q] = at[q] /\ row'[q] = row[q] /\ wrote'[q] = wrote[q],
           WritesInv(p)', RowInv(p)'
    PROVE  TxnInv'
<1>1. ASSUME NEW q \in Proc, q # p
      PROVE  WritesInv(q)' /\ RowInv(q)'
  BY <1>1, OthersKeep DEF TxnInv, dbVars
<1> QED  BY <1>1 DEF TxnInv

LEMMA TxnStep ==
    ASSUME TypeOK, LockInv, TxnInv, DbInv, [Next]_vars
    PROVE  TxnInv'
<1> USE DEF TypeOK
<1>0. ASSUME NEW p \in Proc
      PROVE  WritesInv(p) /\ RowInv(p)
  BY DEF TxnInv
<1>1. CASE UNCHANGED vars
  BY <1>1 DEF vars, TxnInv, WritesInv, RowInv, NoSubjectOf, KeyOf, EmailOf, IsExternal
<1>2. ASSUME NEW p \in Proc, Begin(p)
      PROVE  TxnInv'
  <2>1. PICK c \in Claim :
          /\ claim' = [claim EXCEPT ![p] = c]
          /\ proved' = IF ProviderOf(c.key) = Stub THEN proved
                       ELSE proved \cup {c.email}
    BY <1>2 DEF Begin
  <2>2. /\ at[p] = "idle" /\ at' = [at EXCEPT ![p] = "lock_identity"]
        /\ UNCHANGED <<dbVars, row, wrote>> /\ proved \subseteq proved'
    BY <1>2, <2>1 DEF Begin, Goes
  <2>3. WritesInv(p)'
    BY <1>0, <2>2 DEF WritesInv
  <2>4. RowInv(p)'
    BY <2>1, <2>2 DEF RowInv, NeedsRow, IsExternal, KeyOf, EmailOf
  <2>5. ASSUME NEW q \in Proc, q # p
        PROVE  WritesInv(q)' /\ RowInv(q)'
    <3>1. at'[q] = at[q] /\ claim'[q] = claim[q] /\ row'[q] = row[q] /\ wrote'[q] = wrote[q]
      BY <2>1, <2>2, <2>5
    <3> QED  BY <1>0, <2>2, <3>1, OthersKeep DEF dbVars
  <2> QED  BY <2>3, <2>4, <2>5 DEF TxnInv
<1>3. ASSUME NEW p \in Proc, LockIdentity(p) \/ LockEmail(p)
      PROVE  TxnInv'
  <2>1. /\ UNCHANGED <<dbVars, claim, row, wrote, proved>>
        /\ \A q \in Proc \ {p} : at'[q] = at[q]
        /\ at[p] \in {"lock_identity", "lock_email"}
        /\ \/ at'[p] = "find"
           \/ at'[p] = "lock_email" /\ IsExternal(p)
    BY <1>3 DEF LockIdentity, LockEmail, Locks, Goes
  <2>2. WritesInv(p)'
    BY <1>0, <2>1 DEF WritesInv, IsExternal, KeyOf
  <2>3. RowInv(p)'
    BY <1>0, <2>1 DEF RowInv, NeedsRow, IsExternal, KeyOf, EmailOf
  <2> QED  BY <2>1, <2>2, <2>3, StatementKeeps
<1>4. ASSUME NEW p \in Proc, FindByIdentity(p)
      PROVE  TxnInv'
  <2> USE <1>4 DEF FindByIdentity, Found, Goes
  <2>1. /\ KeyOf(p) \in Key /\ EmailOf(p) \in Email
        /\ ~IsExternal(p) => KeyOf(p) = <<Stub, EmailOf(p)>>
    BY ActiveTyped
  <2>2. ASSUME owner[KeyOf(p)] = NoUser, ~IsExternal(p)
        PROVE  NoSubjectOf(ProviderOf(KeyOf(p)), EmailOf(p))
    <3> SUFFICES ASSUME NEW k \in Key, ProviderOf(k) = ProviderOf(KeyOf(p)),
                        owner[k] = EmailOf(p)
                 PROVE  FALSE
      BY DEF NoSubjectOf
    <3>1. PICK e \in Email : k = <<Stub, e>>
      BY <2>2, KeyShape DEF IsExternal
    <3>2. e = EmailOf(p)
      BY <2>1, <3>1, AccountAssumption DEF DbInv
    <3> QED  BY <2>1, <2>2, <3>1, <3>2, AccountAssumption
  <2>3. owner[KeyOf(p)] # NoUser => owner[KeyOf(p)] \in accounts
    BY <2>1 DEF DbInv
  <2>4. WritesInv(p)'
    BY <1>0, <2>1 DEF WritesInv, IsExternal, KeyOf, EmailOf
  <2>5. RowInv(p)'
    BY <1>0, <2>1, <2>2, <2>3
       DEF RowInv, NeedsRow, NoSubjectOf, IsExternal, KeyOf, EmailOf, dbVars
  <2> QED  BY <2>4, <2>5, StatementKeeps
<1>5. ASSUME NEW p \in Proc, FindByEmail(p)
      PROVE  TxnInv'
  <2> USE <1>5 DEF FindByEmail, Found, Goes
  <2>1. KeyOf(p) \in Key /\ EmailOf(p) \in Email
    BY ActiveTyped
  <2>2. EmailOf(p) \notin accounts => NoSubjectOf(ProviderOf(KeyOf(p)), EmailOf(p))
    BY <2>1, AccountAssumption DEF NoSubjectOf, DbInv
  <2>3. WritesInv(p)'
    BY <1>0, <2>1 DEF WritesInv, IsExternal, KeyOf, EmailOf
  <2>4. RowInv(p)'
    BY <1>0, <2>1, <2>2
       DEF RowInv, NeedsRow, NoSubjectOf, IsExternal, KeyOf, EmailOf, dbVars
  <2> QED  BY <2>3, <2>4, StatementKeeps
<1>6. ASSUME NEW p \in Proc, CheckPasses(p)
      PROVE  TxnInv'
  <2> USE <1>6 DEF CheckPasses, Goes
  <2>1. KeyOf(p) \in Key /\ EmailOf(p) \in Email /\ row[p] \in Email
    BY ActiveTyped DEF NeedsRow
  <2>2. owner[KeyOf(p)] = NoUser => NoSubjectOf(ProviderOf(KeyOf(p)), EmailOf(p))
    <3> SUFFICES ASSUME owner[KeyOf(p)] = NoUser, NEW k \in Key,
                        ProviderOf(k) = ProviderOf(KeyOf(p)), owner[k] = EmailOf(p)
                 PROVE  FALSE
      BY DEF NoSubjectOf
    <3>1. row[p] = EmailOf(p) /\ k # KeyOf(p)
      BY <1>0, <2>1, AccountAssumption DEF RowInv, NeedsRow
    <3> QED  BY <3>1 DEF Conflicts
  <2>3. WritesInv(p)'
    BY <1>0, <2>1 DEF WritesInv, IsExternal, KeyOf, EmailOf
  <2>4. RowInv(p)'
    BY <1>0, <2>1, <2>2
       DEF RowInv, NeedsRow, NoSubjectOf, IsExternal, KeyOf, EmailOf, dbVars
  <2> QED  BY <2>3, <2>4, StatementKeeps
<1>7. ASSUME NEW p \in Proc, Reject(p) \/ Crash(p)
      PROVE  TxnInv'
  BY <1>7, EndsKeeps DEF Reject, Crash
<1>8. ASSUME NEW p \in Proc, InsertUser(p)
      PROVE  TxnInv'
  <2> USE <1>8 DEF InsertUser, Found, Writes, Goes
  <2>1. KeyOf(p) \in Key /\ EmailOf(p) \in Email
    BY ActiveTyped
  <2>2. WritesInv(p)'
    BY <1>0, <2>1 DEF WritesInv, RowInv, IsExternal, KeyOf, EmailOf, dbVars
  <2>3. RowInv(p)'
    BY <1>0, <2>1 DEF RowInv, NeedsRow, NoSubjectOf, IsExternal, KeyOf, EmailOf, dbVars
  <2> QED  BY <2>2, <2>3, StatementKeeps
<1>9. ASSUME NEW p \in Proc, InsertConflicts(p)
      PROVE  TxnInv'
  <2> USE <1>9 DEF InsertConflicts, Goes
  <2>1. WritesInv(p)'
    BY <1>0 DEF WritesInv, IsExternal, KeyOf, EmailOf
  <2>2. RowInv(p)'
    BY <1>0 DEF RowInv, NeedsRow, NoSubjectOf, IsExternal, KeyOf, EmailOf, dbVars
  <2> QED  BY <2>1, <2>2, StatementKeeps
<1>10. ASSUME NEW p \in Proc, Reread(p)
       PROVE  TxnInv'
  <2> USE <1>10 DEF Reread, Found, Goes
  <2>1. WritesInv(p)'
    BY <1>0 DEF WritesInv, IsExternal, KeyOf, EmailOf
  <2>2. RowInv(p)'
    BY <1>0 DEF RowInv, NeedsRow, NoSubjectOf, IsExternal, KeyOf, EmailOf, dbVars
  <2> QED  BY <2>1, <2>2, StatementKeeps
<1>11. ASSUME NEW p \in Proc, LinkIdentity(p)
       PROVE  TxnInv'
  <2> USE <1>11 DEF LinkIdentity, Found, Writes, Goes
  <2>1. KeyOf(p) \in Key /\ EmailOf(p) \in Email
    BY ActiveTyped
  <2>2. wrote[p] \subseteq {"user"}
    BY <1>0 DEF WritesInv
  <2>3. WritesInv(p)'
    <3>1. CASE owner[KeyOf(p)] = NoUser
      BY <1>0, <2>1, <2>2, <3>1 DEF WritesInv, IsExternal, KeyOf, EmailOf, dbVars
    <3>2. CASE owner[KeyOf(p)] # NoUser
      BY <1>0, <2>1, <2>2, <3>2 DEF WritesInv, IsExternal, KeyOf, EmailOf, dbVars
    <3> QED  BY <3>1, <3>2
  <2>4. RowInv(p)'
    BY <1>0, <2>1 DEF RowInv, NeedsRow, NoSubjectOf, IsExternal, KeyOf, EmailOf, dbVars
  <2>5. \A q \in Proc \ {p} :
          at'[q] = at[q] /\ row'[q] = row[q] /\ wrote'[q] = wrote[q]
    OBVIOUS
  <2> QED  BY <2>3, <2>4, <2>5, StatementKeeps
<1>12. ASSUME NEW p \in Proc, MarkVerified(p)
       PROVE  TxnInv'
  <2> USE <1>12 DEF MarkVerified, Writes, Goes
  <2>1. WritesInv(p)'
    BY <1>0 DEF WritesInv, IsExternal, KeyOf, EmailOf, dbVars
  <2>2. RowInv(p)'
    BY <1>0 DEF RowInv, NeedsRow, NoSubjectOf, IsExternal, KeyOf, EmailOf, dbVars
  <2> QED  BY <2>1, <2>2, StatementKeeps
<1>13. ASSUME NEW p \in Proc, Commit(p)
       PROVE  TxnInv'
  BY <1>13, TxnCommit
<1> QED
  BY <1>1, <1>2, <1>3, <1>4, <1>5, <1>6, <1>7, <1>8, <1>9, <1>10, <1>11, <1>12, <1>13
     DEF Next, Waits, Moves

-----------------------------------------------------------------------------
(* The database.                                                           *)

(* What a commit does to the database, said without the transaction.       *)
LEMMA CommitEffect ==
    ASSUME TypeOK, LockInv, TxnInv, DbInv, NEW p \in Proc, Commit(p)
    PROVE  LET k == KeyOf(p)
               e == EmailOf(p)
           IN
           \/ /\ owner[k] = NoUser
              /\ NoSubjectOf(ProviderOf(k), e)
              /\ owner' = [owner EXCEPT ![k] = e]
              /\ accounts' = accounts \cup {e}
              /\ verified' = verified \cup (IF IsExternal(p) THEN {e} ELSE {})
           \/ /\ owner[k] # NoUser
              /\ UNCHANGED <<owner, accounts>>
              /\ verified' = verified \cup (IF IsExternal(p) THEN {owner[k]} ELSE {})
<1>1. /\ KeyOf(p) \in Key /\ EmailOf(p) \in Email /\ row[p] \in Email
      /\ WritesInv(p) /\ RowInv(p) /\ at[p] = "commit"
  BY ActiveTyped DEF Commit, TxnInv, NeedsRow, TypeOK
<1>2. verified' = verified \cup (IF IsExternal(p) THEN {row[p]} ELSE {})
  BY <1>1 DEF Commit, WritesInv
<1>3. CASE owner[KeyOf(p)] = NoUser
  <2>1. row[p] = EmailOf(p) /\ NoSubjectOf(ProviderOf(KeyOf(p)), EmailOf(p))
    BY <1>1, <1>3 DEF RowInv, NeedsRow
  <2>2. owner' = [owner EXCEPT ![KeyOf(p)] = EmailOf(p)]
    BY <1>1, <1>3, <2>1 DEF Commit, WritesInv
  <2>3. accounts' = accounts \cup {EmailOf(p)}
    BY <1>1, <2>1 DEF Commit, RowInv, NeedsRow
  <2> QED  BY <1>2, <1>3, <2>1, <2>2, <2>3
<1>4. CASE owner[KeyOf(p)] # NoUser
  <2>1. row[p] = owner[KeyOf(p)]
    BY <1>1, <1>4 DEF RowInv, NeedsRow
  <2>2. owner' = owner /\ accounts' = accounts
    BY <1>1, <1>4 DEF Commit, WritesInv
  <2> QED  BY <1>2, <1>4, <2>1, <2>2
<1> QED  BY <1>3, <1>4

LEMMA DbKept ==
    ASSUME DbInv, UNCHANGED dbVars, proved \subseteq proved'
    PROVE  DbInv'
BY DEF DbInv, dbVars, OneSubjectPerProvider, NoOrphans, VerifiedMeansProved

LEMMA DbCommit ==
    ASSUME TypeOK, LockInv, TxnInv, DbInv, NEW p \in Proc, Commit(p)
    PROVE  DbInv'
<1> DEFINE k == KeyOf(p)
           e == EmailOf(p)
<1>1. /\ k \in Key /\ e \in Email /\ NoUser \notin Email
      /\ ~IsExternal(p) => k = <<Stub, e>>
      /\ IsExternal(p) <=> ProviderOf(k) # Stub
      /\ IsExternal(p) => e \in proved
      /\ proved' = proved
  BY ActiveTyped, AccountAssumption DEF Commit, TxnInv, RowInv, TypeOK, IsExternal
<1> HIDE DEF k, e
<1>2. ASSUME owner[k] = NoUser, NoSubjectOf(ProviderOf(k), e),
             owner' = [owner EXCEPT ![k] = e], accounts' = accounts \cup {e},
             verified' = verified \cup (IF IsExternal(p) THEN {e} ELSE {})
      PROVE  DbInv'
  <2>1. owner'[k] = e /\ \A x \in Key \ {k} : owner'[x] = owner[x]
    BY <1>1, <1>2 DEF TypeOK
  <2>2. \A x \in Key : owner'[x] # NoUser => owner'[x] \in accounts'
    BY <1>2, <2>1 DEF DbInv
  <2>3. \A x \in Email : owner'[<<Stub, x>>] \in {NoUser, x}
    <3> TAKE x \in Email
    <3>1. <<Stub, x>> \in Key /\ ProviderOf(<<Stub, x>>) = Stub
      BY DEF Key, ProviderOf
    <3>2. CASE <<Stub, x>> = k
      BY <1>1, <2>1, <3>1, <3>2
    <3>3. CASE <<Stub, x>> # k
      BY <2>1, <3>1, <3>3 DEF DbInv
    <3> QED  BY <3>2, <3>3
  <2>4. \A x \in Key : owner'[x] # NoUser /\ ProviderOf(x) # Stub => owner'[x] \in proved'
    BY <1>1, <2>1 DEF DbInv
  <2>5. OneSubjectPerProvider'
    <3> SUFFICES ASSUME NEW x \in Key, NEW y \in Key, owner'[x] # NoUser,
                        owner'[x] = owner'[y], ProviderOf(x) = ProviderOf(y)
                 PROVE  x = y
      BY DEF OneSubjectPerProvider
    <3>1. CASE x # k /\ y # k
      BY <2>1, <3>1 DEF DbInv, OneSubjectPerProvider
    <3>2. CASE x = k \/ y = k
      BY <1>2, <2>1, <3>2 DEF NoSubjectOf
    <3> QED  BY <3>1, <3>2
  <2>6. NoOrphans'
    <3> SUFFICES ASSUME NEW u \in accounts' \ Legacy
                 PROVE  \E x \in Key : owner'[x] = u
      BY DEF NoOrphans
    <3>1. CASE u = e
      BY <1>1, <2>1, <3>1
    <3>2. CASE u \in accounts
      <4>1. PICK x \in Key : owner[x] = u
        BY <3>2 DEF DbInv, NoOrphans
      <4>2. u # NoUser
        BY <1>1, <3>2 DEF TypeOK
      <4> QED  BY <1>2, <2>1, <4>1, <4>2
    <3> QED  BY <1>2, <3>1, <3>2
  <2>7. VerifiedMeansProved'
    BY <1>1, <1>2 DEF DbInv, VerifiedMeansProved
  <2> QED  BY <2>2, <2>3, <2>4, <2>5, <2>6, <2>7 DEF DbInv
<1>3. ASSUME owner[k] # NoUser, UNCHANGED <<owner, accounts>>,
             verified' = verified \cup (IF IsExternal(p) THEN {owner[k]} ELSE {})
      PROVE  DbInv'
  <2>1. IsExternal(p) => owner[k] \in proved
    BY <1>1, <1>3 DEF DbInv
  <2> QED  BY <1>1, <1>3, <2>1
           DEF DbInv, OneSubjectPerProvider, NoOrphans, VerifiedMeansProved
<1> QED  BY <1>2, <1>3, CommitEffect DEF k, e

LEMMA StepKeepsDb ==
    ASSUME NEW p \in Proc, Begin(p) \/ Waits(p) \/ Moves(p) \/ Crash(p), ~Commit(p)
    PROVE  UNCHANGED dbVars /\ proved \subseteq proved'
<1>1. CASE Begin(p)
  <2>1. PICK c \in Claim :
          proved' = IF ProviderOf(c.key) = Stub THEN proved ELSE proved \cup {c.email}
    BY <1>1 DEF Begin
  <2> QED  BY <1>1, <2>1 DEF Begin
<1>2. CASE Waits(p)
  BY <1>2 DEF Waits, LockIdentity, LockEmail, Locks, InsertUser, InsertConflicts,
              LinkIdentity, MarkVerified
<1>3. CASE Moves(p) \/ Crash(p)
  BY <1>3 DEF Moves, FindByIdentity, FindByEmail, CheckPasses, Reject, Reread, Crash
<1> QED  BY <1>1, <1>2, <1>3

LEMMA DbStep ==
    ASSUME TypeOK, LockInv, TxnInv, DbInv, [Next]_vars
    PROVE  DbInv'
<1>1. CASE UNCHANGED vars
  BY <1>1, DbKept DEF vars, dbVars
<1>2. CASE Next
  <2>1. PICK p \in Proc : Begin(p) \/ Waits(p) \/ Moves(p) \/ Crash(p)
    BY <1>2 DEF Next
  <2> QED  BY <2>1, DbCommit, StepKeepsDb, DbKept
<1> QED  BY <1>1, <1>2

-----------------------------------------------------------------------------
(* Theorems.                                                               *)

(* Types, locks, transactions and database together are inductive.         *)
THEOREM Invariance == Spec => []IInv
<1>1. IInv /\ [Next]_vars => IInv'
  BY TypeStep, LockStep, TxnStep, DbStep DEF IInv
<1> QED  BY InitInv, <1>1, PTL DEF Spec

(* Every statement of get_or_create_user_for_identity is well typed; the   *)
(* code never dereferences a row it does not have.                         *)
THEOREM TypeCorrect == Spec => []TypeOK
<1>1. IInv => TypeOK
  BY DEF IInv
<1> QED  BY Invariance, <1>1, PTL

(* A user never gets a second subject of one provider, for any number of   *)
(* concurrent sign-ins.                                                    *)
THEOREM SubjectSafety == Spec => []OneSubjectPerProvider
<1>1. IInv => OneSubjectPerProvider
  BY DEF IInv, DbInv
<1> QED  BY Invariance, <1>1, PTL

(* No race of sign-ins leaves a user without an identity.                  *)
THEOREM OrphanSafety == Spec => []NoOrphans
<1>1. IInv => NoOrphans
  BY DEF IInv, DbInv
<1> QED  BY Invariance, <1>1, PTL

(* email_verified is only set where a provider vouched for the email.      *)
THEOREM VerifiedSafety == Spec => []VerifiedMeansProved
<1>1. IInv => VerifiedMeansProved
  BY DEF IInv, DbInv
<1> QED  BY Invariance, <1>1, PTL

(* The transactions implement atomic sign-ins: a commit links a fresh      *)
(* identity or confirms a known one, and nothing else shows.               *)
THEOREM Implements == Spec => KeepsPromise
<1>1. Init => Promise!Init
  BY AccountAssumption DEF Init, Promise!Init
<1>2. ASSUME IInv, NEW p \in Proc, Commit(p)
      PROVE  Promise!Next
  <2>1. /\ KeyOf(p) \in Key /\ EmailOf(p) \in Email
        /\ IsExternal(p) <=> ProviderOf(KeyOf(p)) # Stub
    BY <1>2, ActiveTyped DEF Commit, IInv, IsExternal
  <2>2. CASE owner[KeyOf(p)] = NoUser
    <3>1. Promise!Link(KeyOf(p), EmailOf(p))
      BY <1>2, <2>1, <2>2, CommitEffect
         DEF IInv, Promise!Link, Promise!Proves, NoSubjectOf
    <3> QED  BY <2>1, <3>1 DEF Promise!Next
  <2>3. CASE owner[KeyOf(p)] # NoUser
    <3>1. Promise!Confirm(KeyOf(p))
      BY <1>2, <2>1, <2>3, CommitEffect DEF IInv, Promise!Confirm, Promise!Proves
    <3> QED  BY <2>1, <3>1 DEF Promise!Next
  <2> QED  BY <2>2, <2>3
<1>3. IInv /\ [Next]_vars => [Promise!Next]_Promise!promiseVars
  <2>1. CASE UNCHANGED vars
    BY <2>1 DEF vars, Promise!promiseVars
  <2>2. ASSUME IInv, Next
        PROVE  [Promise!Next]_Promise!promiseVars
    <3>1. PICK p \in Proc : Begin(p) \/ Waits(p) \/ Moves(p) \/ Crash(p)
      BY <2>2 DEF Next
    <3>2. CASE Commit(p)
      BY <1>2, <2>2, <3>2
    <3>3. CASE ~Commit(p)
      BY <3>1, <3>3, StepKeepsDb DEF dbVars, Promise!promiseVars
    <3> QED  BY <3>2, <3>3
  <2> QED  BY <2>1, <2>2
<1> QED  BY <1>1, <1>3, Invariance, PTL DEF Spec, KeepsPromise, Promise!Spec

-----------------------------------------------------------------------------
(* Waiting.  A statement waits for another transaction in five places.     *)

(* q keeps p from its next statement. *)
Blocks(q, p) ==
    \/ at[p] = "lock_identity" /\ locks[KeyOf(p)] = q
    \/ at[p] = "lock_email" /\ locks[EmailOf(p)] = q
    \/ at[p] = "insert_user" /\ q \in Inserting(EmailOf(p))
    \/ at[p] = "link" /\ q \in Linking(KeyOf(p))
    \/ at[p] = "verify" /\ q # p /\ "verified" \in wrote[q] /\ row[q] = row[p]

(* Nobody waits in a circle: of any processes, one is not kept waiting by  *)
(* any of them.                                                            *)
NoCircle == \A S \in SUBSET Proc : S # {} => \E p \in S : \A q \in S : ~Blocks(q, p)

(* The guard of the statement a process is at. *)
MayGo(p) ==
    /\ at[p] = "lock_identity" => locks[KeyOf(p)] = NoProc
    /\ at[p] = "lock_email" => locks[EmailOf(p)] = NoProc
    /\ at[p] = "insert_user" => Inserting(EmailOf(p)) = {}
    /\ at[p] = "reread" => EmailOf(p) \in accounts
    /\ at[p] = "link" => Linking(KeyOf(p)) = {}
    /\ at[p] = "verify" =>
         \A q \in Proc \ {p} : ~("verified" \in wrote[q] /\ row[q] = row[p])

(* Whoever may not go on is waiting for a transaction that is under way.   *)
WaitsForOne ==
    \A p \in Proc : at[p] # "idle" =>
        MayGo(p) \/ \E q \in Proc : at[q] # "idle" /\ Blocks(q, p)

(* The order of the statements, in which the locks are acquired. *)
Rank(place) ==
    CASE place = "idle" -> 0 [] place = "lock_identity" -> 1
      [] place = "lock_email" -> 2 [] place = "find" -> 3
      [] place = "find_email" -> 4 [] place = "check" -> 5
      [] place = "insert_user" -> 6 [] place = "reread" -> 7
      [] place = "link" -> 8 [] place = "verify" -> 9 [] place = "commit" -> 10

(* A lock is held by who has passed the statement that takes it, and a row *)
(* that was in the way of an insert is still there.                        *)
HolderInv ==
    /\ \A q \in Proc, l \in Key \cup Email : locks[l] = q =>
         \/ at[q] \in HasIdentity /\ l = KeyOf(q)
         \/ at[q] \in HasEmail /\ l = EmailOf(q)
    /\ \A p \in Proc : at[p] = "reread" => EmailOf(p) \in accounts

(* Every other process keeps its locks, and so does p what it takes.       *)
LEMMA HolderStep ==
    ASSUME TypeOK, LockInv, HolderInv, [Next]_vars
    PROVE  HolderInv'
<1> USE DEF TypeOK
<1>0. ASSUME NEW p \in Proc,
             \A q \in Proc \ {p} : at'[q] = at[q] /\ claim'[q] = claim[q],
             accounts \subseteq accounts',
             \A q \in Proc \ {p}, l \in Key \cup Email :
               locks'[l] = q => locks[l] = q,
             \A l \in Key \cup Email : locks'[l] = p =>
               \/ at'[p] \in HasIdentity /\ l = KeyOf(p)'
               \/ at'[p] \in HasEmail /\ l = EmailOf(p)',
             at'[p] = "reread" => EmailOf(p)' \in accounts'
      PROVE  HolderInv'
  <2>1. ASSUME NEW q \in Proc, q # p
        PROVE  KeyOf(q)' = KeyOf(q) /\ EmailOf(q)' = EmailOf(q) /\ at'[q] = at[q]
    BY <1>0, <2>1 DEF KeyOf, EmailOf
  <2>2. ASSUME NEW q \in Proc, NEW l \in Key \cup Email, locks'[l] = q
        PROVE  \/ at'[q] \in HasIdentity /\ l = KeyOf(q)'
               \/ at'[q] \in HasEmail /\ l = EmailOf(q)'
    <3>1. CASE q = p
      BY <1>0, <2>2, <3>1
    <3>2. CASE q # p
      <4>1. locks[l] = q
        BY <1>0, <2>2, <3>2
      <4> QED  BY <2>1, <3>2, <4>1 DEF HolderInv
    <3> QED  BY <3>1, <3>2
  <2>3. ASSUME NEW q \in Proc, at'[q] = "reread"
        PROVE  EmailOf(q)' \in accounts'
    <3>1. CASE q = p
      BY <1>0, <2>3, <3>1
    <3>2. CASE q # p
      BY <1>0, <2>1, <2>3, <3>2 DEF HolderInv
    <3> QED  BY <3>1, <3>2
  <2> QED  BY <2>2, <2>3 DEF HolderInv
<1>1. CASE UNCHANGED vars
  BY <1>1 DEF vars, HolderInv, KeyOf, EmailOf
<1>2. ASSUME NEW p \in Proc, Begin(p)
      PROVE  HolderInv'
  <2>1. /\ at[p] = "idle" /\ at'[p] = "lock_identity"
        /\ locks' = locks /\ accounts' = accounts
        /\ \A q \in Proc \ {p} : at'[q] = at[q] /\ claim'[q] = claim[q]
    BY <1>2 DEF Begin, Goes, dbVars
  <2>2. \A l \in Key \cup Email : locks[l] # p
    BY <2>1 DEF HolderInv, HasIdentity, HasEmail
  <2> QED  BY <1>0, <2>1, <2>2
<1>3. ASSUME NEW p \in Proc, NEW l \in Key \cup Email, NEW place \in {"lock_email", "find"},
             Locks(p, l, place),
             \/ l = KeyOf(p) /\ at[p] = "lock_identity"
             \/ l = EmailOf(p) /\ at[p] = "lock_email" /\ place = "find"
      PROVE  HolderInv'
  <2>1. /\ claim' = claim /\ accounts' = accounts
        /\ locks' = [locks EXCEPT ![l] = p] /\ at' = [at EXCEPT ![p] = place]
        /\ KeyOf(p)' = KeyOf(p) /\ EmailOf(p)' = EmailOf(p)
    BY <1>3 DEF Locks, Goes, dbVars, KeyOf, EmailOf
  <2>2. ASSUME NEW m \in Key \cup Email, locks'[m] = p
        PROVE  \/ at'[p] \in HasIdentity /\ m = KeyOf(p)
               \/ at'[p] \in HasEmail /\ m = EmailOf(p)
    <3>1. at'[p] \in HasIdentity /\ (at[p] = "lock_email" => at'[p] \in HasEmail)
      BY <1>3, <2>1 DEF HasIdentity, HasEmail, Place
    <3>2. CASE m = l
      BY <1>3, <3>1, <3>2
    <3>3. CASE m # l
      <4>1. locks[m] = p
        BY <2>1, <2>2, <3>3
      <4> QED  BY <1>3, <3>1, <4>1 DEF HolderInv, HasIdentity, HasEmail
    <3> QED  BY <3>2, <3>3
  <2>3. at'[p] # "reread"
    BY <2>1
  <2>4. \A q \in Proc \ {p}, m \in Key \cup Email : locks'[m] = q => locks[m] = q
    BY <2>1
  <2> QED  BY <1>0, <2>1, <2>2, <2>3, <2>4
<1>4. ASSUME NEW p \in Proc, LockIdentity(p) \/ LockEmail(p)
      PROVE  HolderInv'
  <2>1. KeyOf(p) \in Key /\ EmailOf(p) \in Email
    BY <1>4, ActiveTyped DEF LockIdentity, LockEmail
  <2> QED  BY <1>3, <1>4, <2>1 DEF LockIdentity, LockEmail
<1>5. ASSUME NEW p \in Proc, Ends(p), accounts \subseteq accounts'
      PROVE  HolderInv'
  <2>1. /\ \A q \in Proc \ {p} : at'[q] = at[q] /\ claim'[q] = claim[q]
        /\ at'[p] = "idle"
        /\ \A q \in Proc \ {p}, l \in Key \cup Email : locks'[l] = q => locks[l] = q
        /\ \A l \in Key \cup Email : locks'[l] # p
    BY <1>5, AccountAssumption DEF Ends, Goes
  <2> QED  BY <1>0, <1>5, <2>1
<1>6. ASSUME NEW p \in Proc,
             \/ FindByIdentity(p) \/ FindByEmail(p) \/ CheckPasses(p)
             \/ InsertUser(p) \/ InsertConflicts(p) \/ Reread(p)
             \/ LinkIdentity(p) \/ MarkVerified(p)
      PROVE  HolderInv'
  <2>1. /\ claim' = claim /\ locks' = locks /\ accounts' = accounts
        /\ at[p] \in HasEmail /\ at'[p] \in HasEmail /\ at'[p] \in HasIdentity
        /\ \A q \in Proc \ {p} : at'[q] = at[q]
        /\ at'[p] = "reread" => EmailOf(p) \in accounts
    BY <1>6 DEF FindByIdentity, FindByEmail, CheckPasses, InsertUser, InsertConflicts,
                Reread, LinkIdentity, MarkVerified, Goes, dbVars, HasEmail, HasIdentity,
                Place
  <2>2. KeyOf(p)' = KeyOf(p) /\ EmailOf(p)' = EmailOf(p)
    BY <2>1 DEF KeyOf, EmailOf
  <2>3. \A l \in Key \cup Email : locks'[l] = p => l = KeyOf(p) \/ l = EmailOf(p)
    BY <2>1 DEF HolderInv
  <2> QED  BY <1>0, <2>1, <2>2, <2>3
<1>7. ASSUME NEW p \in Proc, Reject(p) \/ Commit(p) \/ Crash(p)
      PROVE  HolderInv'
  BY <1>5, <1>7 DEF Reject, Commit, Crash, dbVars
<1> QED
  BY <1>1, <1>2, <1>4, <1>6, <1>7 DEF Next, Waits, Moves

(* Who keeps another waiting has come further.                             *)
LEMMA BlockerAhead ==
    ASSUME IInv, HolderInv, NEW p \in Proc, NEW q \in Proc, Blocks(q, p)
    PROVE  Rank(at[p]) < Rank(at[q])
<1> USE DEF TypeOK, IInv
<1>1. at[p] \in Place /\ at[q] \in Place /\ WritesInv(q)
  BY DEF TxnInv
<1>2. CASE at[p] = "lock_identity"
  <2>1. KeyOf(p) \in Key /\ locks[KeyOf(p)] = q
    BY <1>2, ActiveTyped DEF Blocks
  <2>2. at[q] \in HasIdentity
    BY <2>1 DEF HolderInv, HasEmail
  <2> QED  BY <1>2, <2>2 DEF HasIdentity, Place, Rank
<1>3. CASE at[p] = "lock_email"
  <2>1. EmailOf(p) \in Email /\ locks[EmailOf(p)] = q
    BY <1>3, ActiveTyped DEF Blocks
  <2>2. at[q] # "idle" => KeyOf(q) # EmailOf(p)
    BY <2>1, ActiveTyped, KeyAssumption
  <2>3. at[q] \in HasEmail
    BY <2>1, <2>2 DEF HolderInv, HasIdentity
  <2> QED  BY <1>3, <2>3 DEF HasEmail, HasIdentity, Place, Rank
<1>4. CASE at[p] = "insert_user"
  <2>1. at[q] \in {"link", "verify", "commit"}
    BY <1>1, <1>4 DEF Blocks, Inserting, WritesInv
  <2> QED  BY <1>4, <2>1 DEF Rank
<1>5. CASE at[p] = "link"
  <2>1. at[q] \in {"verify", "commit"}
    BY <1>1, <1>5 DEF Blocks, Linking, WritesInv
  <2> QED  BY <1>5, <2>1 DEF Rank
<1>6. CASE at[p] = "verify"
  <2>1. at[q] = "commit"
    BY <1>1, <1>6 DEF Blocks, WritesInv
  <2> QED  BY <1>6, <2>1 DEF Rank
<1> QED  BY <1>2, <1>3, <1>4, <1>5, <1>6 DEF Blocks

(* In a circle everybody is at one of the five places, and nobody at the   *)
(* last of them, hence nobody at the last but one, and so on.              *)
LEMMA CircleImpossible ==
    ASSUME IInv, HolderInv
    PROVE  NoCircle
<1> SUFFICES ASSUME NEW S \in SUBSET Proc, S # {},
                    \A p \in S : \E q \in S : Blocks(q, p)
             PROVE  FALSE
  BY DEF NoCircle
<1>1. \A p \in S : at[p] \in {"lock_identity", "lock_email", "insert_user", "link", "verify"}
  BY DEF Blocks
<1>2. ASSUME NEW p \in S
      PROVE  \E q \in S :
               /\ at[p] # "verify"
               /\ at[p] = "link" => at[q] = "verify"
               /\ at[p] = "insert_user" => at[q] \in {"link", "verify"}
               /\ at[p] = "lock_email" => at[q] \in {"insert_user", "link", "verify"}
               /\ at[p] = "lock_identity" => at[q] # "lock_identity"
  <2>1. PICK q \in S : Blocks(q, p)
    OBVIOUS
  <2>2. Rank(at[p]) < Rank(at[q])
    BY <2>1, BlockerAhead
  <2> QED  BY <1>1, <2>2 DEF Rank
<1>3. \A p \in S : at[p] # "verify" /\ at[p] # "link"
  BY <1>2
<1>4. \A p \in S : at[p] # "insert_user" /\ at[p] # "lock_email"
  BY <1>2, <1>3
<1> QED  BY <1>1, <1>2, <1>3, <1>4

LEMMA BlockerActive ==
    ASSUME IInv, HolderInv, NEW p \in Proc, at[p] # "idle"
    PROVE  MayGo(p) \/ \E q \in Proc : at[q] # "idle" /\ Blocks(q, p)
<1> USE DEF TypeOK, IInv
<1>1. KeyOf(p) \in Key /\ EmailOf(p) \in Email
  BY ActiveTyped
<1>2. \A q \in Proc : at[q] = "idle" => wrote[q] = {}
  BY DEF TxnInv, WritesInv
<1>3. CASE at[p] \in {"lock_identity", "lock_email"}
  <2>1. ASSUME NEW l \in Key \cup Email, locks[l] # NoProc
        PROVE  \E q \in Proc : at[q] # "idle" /\ locks[l] = q
    BY <2>1 DEF HolderInv, HasIdentity, HasEmail
  <2> QED  BY <1>1, <1>3, <2>1 DEF MayGo, Blocks
<1>4. CASE at[p] \in {"insert_user", "link", "verify"}
  BY <1>2, <1>4 DEF MayGo, Blocks, Inserting, Linking
<1>5. CASE at[p] \notin {"lock_identity", "lock_email", "insert_user", "link", "verify"}
  BY <1>5 DEF MayGo, HolderInv
<1> QED  BY <1>3, <1>4, <1>5

LEMMA InvarianceOfHolder == Spec => []HolderInv
<1>1. Init => HolderInv
  BY AccountAssumption DEF Init, HolderInv
<1>2. IInv /\ HolderInv /\ [Next]_vars => HolderInv'
  BY HolderStep DEF IInv
<1> QED  BY <1>1, <1>2, Invariance, PTL DEF Spec

(* Sign-ins never deadlock: whoever cannot go on waits for a transaction   *)
(* under way, and no such waiting goes in a circle, through advisory       *)
(* locks, unique keys and the row lock together.                           *)
THEOREM NoDeadlock == Spec => [](NoCircle /\ WaitsForOne)
<1>1. IInv /\ HolderInv => NoCircle /\ WaitsForOne
  BY CircleImpossible, BlockerActive DEF WaitsForOne
<1> QED  BY <1>1, Invariance, InvarianceOfHolder, PTL

(* It stays where it is, goes on, or ends. *)
Advances(p) ==
    at[p] # "idle" =>
        at'[p] = at[p] \/ at'[p] = "idle" \/ Rank(at[p]) < Rank(at'[p])

(* A transaction only goes forward, so it has at most ten statements, and  *)
(* EverySignInEnds rests on no more than that nobody is passed over.       *)
THEOREM SignInAdvances ==
    Spec => /\ [](\A p \in Proc : Rank(at[p]) \in 0..10)
            /\ [][\A p \in Proc : Advances(p)]_vars
<1>1. ASSUME IInv, Next, NEW q \in Proc
      PROVE  Advances(q)
  <2>1. PICK p \in Proc : Begin(p) \/ Waits(p) \/ Moves(p) \/ Crash(p)
    BY <1>1 DEF Next
  <2>2. CASE at'[q] = at[q]
    BY <2>2 DEF Advances
  <2>3. CASE Begin(p) \/ Reject(p) \/ Commit(p) \/ Crash(p)
    BY <1>1, <2>3 DEF Begin, Reject, Commit, Crash, Ends, Goes, IInv, TypeOK, Advances
  <2>4. CASE \/ LockIdentity(p) \/ LockEmail(p) \/ FindByIdentity(p) \/ FindByEmail(p)
             \/ CheckPasses(p) \/ InsertUser(p) \/ InsertConflicts(p) \/ Reread(p)
             \/ LinkIdentity(p) \/ MarkVerified(p)
    <3>1. PICK place \in Place : at' = [at EXCEPT ![p] = place]
                                 /\ Rank(at[p]) < Rank(place)
      BY <2>4 DEF LockIdentity, LockEmail, Locks, FindByIdentity, FindByEmail,
                  CheckPasses, InsertUser, InsertConflicts, Reread, LinkIdentity,
                  MarkVerified, Goes, Place, Rank
    <3> QED  BY <1>1, <3>1 DEF IInv, TypeOK, Advances
  <2> QED  BY <2>1, <2>3, <2>4 DEF Waits, Moves
<1>2. IInv /\ [Next]_vars => [\A p \in Proc : Advances(p)]_vars
  BY <1>1
<1>3. IInv => \A p \in Proc : Rank(at[p]) \in 0..10
  <2>1. \A place \in Place : Rank(place) \in 0..10
    BY DEF Place, Rank
  <2> QED  BY <2>1 DEF IInv, TypeOK
<1> QED  BY <1>2, <1>3, Invariance, PTL DEF Spec

=============================================================================
