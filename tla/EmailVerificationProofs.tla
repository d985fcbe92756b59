----------------------- MODULE EmailVerificationProofs -----------------------
(***************************************************************************)
(* Proofs about EmailVerification, for any accounts, addresses, handlers   *)
(* and tokens: the inductive invariant IInv and the two safety properties  *)
(* of patient accounts that it implies.                                    *)
(*                                                                         *)
(* A step changes one handler, one account with its tokens, or both.       *)
(* HandlerStep is for the steps of a handler that leave the tables alone.  *)
(* Others says that a step on one account's tables disturbs nothing of the *)
(* others, so that the lemmas of those steps only look at that account.    *)
(***************************************************************************)
EXTENDS EmailVerification, FiniteSetTheorems, TLAPS

\* A token belongs to an account that exists, and was issued.
TokensOK == \A t \in Token : tok[t] # NoRow => Exists(tok[t].user) /\ t < next

\* An account whose id was not used does not exist, and no request serves it.
FreshOK == \A u \in fresh : ~Exists(u) /\ \A r \in Request : work[r].user # u

\* The handlers that are about to insert a token, and the room left for them.
Issuers == {r \in Request : pc[r] \in Issuing}
RoomLeft == next + Cardinality(Issuers) <= MaxTokens + 1

\* A patient account has one request at a time.
Alone ==
    \A r, s \in Request :
        r # s /\ work[r].user = work[s].user => work[r].user \notin Patient

Mailing == {"issue", "burn", "burning", "staged"}
Following == {"verify", "flushed"}

\* What a handler knows: whom it serves, what it mails, what it loaded, and
\* whose tokens it has in hand.
HandlerOK(r) ==
    LET p == pc[r]
        w == work[r]
    IN  /\ p = "idle" => w.user = Null
        /\ p # "idle" => w.user \in User
        /\ p \in Issuing => w.email \in Email
        /\ p \in Mailing \cup Following => w.loaded \in Account
        /\ p \in Following =>
              /\ w.token \in Token /\ w.token < next
              /\ tok[w.token] # NoRow => tok[w.token].user = w.user
        /\ p \in {"burning", "staged"} =>
              \A t \in w.todo \cup w.burnt : t < next /\ (tok[t] # NoRow => tok[t].user = w.user)
        /\ w.changes => p \in {"burn", "burning", "staged"}
        /\ p # "burning" => w.todo = {}
        /\ p \notin {"burning", "staged"} => w.burnt = {}

\* What it can rely on if it serves a patient account: the row it loaded is still
\* the row, it burns every live link, and the link it follows was mailed to the
\* account's address.
ReliesOn(r) ==
    LET p == pc[r]
        w == work[r]
        u == w.user
    IN  /\ p = "register" => ~Exists(u) /\ changes[u] = 0 /\ former[u] = {}
        /\ p \in Mailing \cup Following /\ Exists(u) =>
              /\ w.loaded.email = acct[u].email
              /\ w.loaded.verified = acct[u].verified
        /\ p \in Mailing /\ ~w.changes /\ Exists(u) => w.email = acct[u].email
        /\ w.changes /\ Exists(u) => ~acct[u].changed
        /\ p \in {"burning", "staged"} => Unused(u) \subseteq w.todo \cup w.burnt
        /\ p \in Following /\ tok[w.token] # NoRow => tok[w.token].to = acct[u].email

Knows(r) == HandlerOK(r) /\ (work[r].user \in Patient => ReliesOn(r))
HandlersOK == \A r \in Request : Knows(r)

\* A patient account: its one live link was mailed to its address, a change of
\* address is remembered until the day has passed, the old address was warned.
AccountOK(u) ==
    /\ u \in fresh => changes[u] = 0 /\ former[u] = {}
    /\ \A s, t \in Unused(u) : s = t
    /\ \A t \in Unused(u) : tok[t].to = acct[u].email
    /\ changes[u] <= 1
    /\ Exists(u) /\ changes[u] # 0 => acct[u].changed
    /\ Owned(u)
    /\ Exists(u) => former[u] \subseteq warned[u]

PatientsOK == \A u \in Patient : AccountOK(u)

\* The inductive invariant.
IInv ==
    /\ TypeOK /\ TokensOK /\ FreshOK /\ RoomLeft /\ Alone
    /\ HandlersOK /\ PatientsOK

\* The initial states satisfy it.
LEMMA InitInv == Init => IInv
  <1> SUFFICES ASSUME Init PROVE IInv OBVIOUS
  <1> USE VerificationAssumption, VerificationNullAssumption DEF Init
  <1>1. TypeOK
    BY DEF TypeOK, Place, Work, Nothing, Token, Account
  <1>2. TokensOK /\ FreshOK /\ Alone
    BY DEF TokensOK, FreshOK, Alone, Exists, Nothing
  <1>3. RoomLeft
    <2>1. Issuers = {}
      BY DEF Issuers, Issuing
    <2>2. Cardinality(Issuers) = 0
      BY <2>1, FS_EmptySet
    <2> QED BY <2>2 DEF RoomLeft
  <1>4. HandlersOK
    BY DEF HandlersOK, Knows, HandlerOK, Nothing, Issuing, Mailing, Following
  <1>5. PatientsOK
    BY DEF PatientsOK, AccountOK, Unused, Of, Exists, Owned
  <1> QED BY <1>1, <1>2, <1>3, <1>4, <1>5 DEF IInv

\* A handler that goes to another place changes the number of issuers by what it
\* was and what it becomes; there is room for one that becomes an issuer.
LEMMA IssuersCount ==
    ASSUME TypeOK, RoomLeft, NEW r \in Request,
           pc' \in [Request -> Place],
           \A s \in Request \ {r} : pc'[s] = pc[s],
           \/ next' = next /\ (pc'[r] \in Issuing => pc[r] \in Issuing \/ Room)
           \/ next' = next + 1 /\ pc[r] \in Issuing /\ pc'[r] \notin Issuing
    PROVE  RoomLeft'
  <1> USE VerificationAssumption DEF Issuing
  <1>1. IsFiniteSet(Issuers) /\ IsFiniteSet(Issuers')
    BY FS_Subset DEF Issuers
  <1>2. Cardinality(Issuers) \in Nat /\ Cardinality(Issuers') \in Nat /\ next \in Nat
    BY <1>1, FS_CardinalityType DEF TypeOK
  <1>3. CASE pc[r] \in Issuing /\ pc'[r] \in Issuing
    <2>1. Issuers' = Issuers
      BY <1>3 DEF Issuers
    <2> QED BY <2>1, <1>3, <1>2 DEF RoomLeft
  <1>4. CASE pc[r] \in Issuing /\ pc'[r] \notin Issuing
    <2>1. Issuers' = Issuers \ {r} /\ r \in Issuers
      BY <1>4 DEF Issuers
    <2>2. Cardinality(Issuers') = Cardinality(Issuers) - 1
      BY <2>1, <1>1, FS_RemoveElement
    <2> QED BY <2>2, <1>2 DEF RoomLeft
  <1>5. CASE pc[r] \notin Issuing /\ pc'[r] \in Issuing
    <2>1. Issuers' = Issuers \cup {r} /\ r \notin Issuers
      BY <1>5 DEF Issuers
    <2>2. Cardinality(Issuers') = Cardinality(Issuers) + 1
      BY <2>1, <1>1, FS_AddElement
    <2>3. Room /\ next' = next
      BY <1>5
    <2> QED BY <2>2, <2>3, <1>2 DEF RoomLeft, Room, Issuers
  <1>6. CASE pc[r] \notin Issuing /\ pc'[r] \notin Issuing
    <2>1. Issuers' = Issuers
      BY <1>6 DEF Issuers
    <2> QED BY <2>1, <1>6, <1>2 DEF RoomLeft
  <1> QED BY <1>3, <1>4, <1>5, <1>6

\* A handler that takes a step without touching the tables.
LEMMA HandlerStep ==
    ASSUME IInv, NEW r \in Request, NEW p \in Place, NEW w \in Work,
           pc' = [pc EXCEPT ![r] = p], work' = [work EXCEPT ![r] = w],
           UNCHANGED <<acct, tok, next, ghosts>>,
           fresh' \subseteq fresh, w.user \notin fresh',
           p \in Issuing => pc[r] \in Issuing \/ Room,
           w.user \in Patient => \A s \in Request \ {r} : work[s].user # w.user,
           Knows(r)'
    PROVE  IInv'
  <1> USE DEF IInv, ghosts
  <1>0. pc' \in [Request -> Place] /\ pc'[r] = p /\ work'[r] = w
        /\ \A s \in Request \ {r} : pc'[s] = pc[s] /\ work'[s] = work[s]
    BY DEF TypeOK
  <1>1. TypeOK'
    BY DEF TypeOK
  <1>2. TokensOK'
    BY DEF TokensOK, Exists
  <1>3. FreshOK'
    BY <1>0 DEF FreshOK, Exists
  <1>4. RoomLeft'
    BY <1>0, IssuersCount
  <1>5. Alone'
    BY <1>0 DEF Alone
  <1>6. HandlersOK'
    <2> SUFFICES ASSUME NEW s \in Request, s # r PROVE Knows(s)'
      BY DEF HandlersOK
    <2> QED BY <1>0 DEF HandlersOK, Knows, HandlerOK, ReliesOn, Exists, Unused, Of
  <1>7. PatientsOK'
    BY DEF PatientsOK, AccountOK, Unused, Of, Owned, Exists
  <1> QED BY <1>1, <1>2, <1>3, <1>4, <1>5, <1>6, <1>7

\* A request that begins: it serves an account that exists, or a fresh one.
LEMMA BeginInv ==
    ASSUME IInv, NEW r \in Request, NEW u \in User,
           \/ \E e \in Email : Register(r, u, e) \/ ChangeEmail(r, u, e)
           \/ Resend(r, u)
    PROVE  IInv'
  <1> USE VerificationNullAssumption DEF IInv, Begin, ghosts
  <1>0. acct[u] \in Account \cup {NoRow}
    BY DEF TypeOK
  <1>1. ASSUME NEW e \in Email, Register(r, u, e) PROVE IInv'
    <2> DEFINE w == [Nothing EXCEPT !.user = u, !.email = e]
    <2>1. w \in Work /\ w.user = u /\ w.email = e /\ w.changes = FALSE
          /\ w.todo = {} /\ w.burnt = {}
      BY DEF Work, Nothing
    <2>2. pc'[r] = "register" /\ work'[r] = w
      BY <1>1 DEF Register, TypeOK
    <2> HIDE DEF w
    <2>3. u \in fresh /\ UNCHANGED <<acct, ghosts>>
      BY <1>1 DEF Register
    <2>4. ~Exists(u)' /\ (u \in Patient => changes'[u] = 0 /\ former'[u] = {})
      BY <2>3 DEF FreshOK, PatientsOK, AccountOK, Exists
    <2>5. Knows(r)'
      BY <2>1, <2>2, <2>4 DEF Knows, HandlerOK, ReliesOn, Issuing, Mailing, Following
    <2>6. u \notin fresh' /\ fresh' \subseteq fresh
          /\ (u \in Patient => \A s \in Request \ {r} : work[s].user # u)
      BY <1>1 DEF Register, FreshOK
    <2>7. pc' = [pc EXCEPT ![r] = "register"] /\ work' = [work EXCEPT ![r] = w]
          /\ UNCHANGED <<acct, tok, next, ghosts>> /\ Room
      BY <1>1 DEF Register, w
    <2> QED BY <2>1, <2>5, <2>6, <2>7, HandlerStep DEF Place
  <1>2. ASSUME NEW e \in Email, ChangeEmail(r, u, e) PROVE IInv'
    <2> DEFINE w == [Nothing EXCEPT !.user = u, !.email = e, !.loaded = acct[u], !.changes = TRUE]
    <2>1. w \in Work /\ w.user = u /\ w.email = e /\ w.changes = TRUE /\ w.loaded = acct[u]
          /\ w.todo = {} /\ w.burnt = {} /\ acct[u] \in Account
      BY <1>2, <1>0 DEF Work, Nothing, ChangeEmail, Exists
    <2>2. pc'[r] = "burn" /\ work'[r] = w
      BY <1>2 DEF ChangeEmail, TypeOK
    <2>3. Knows(r)'
      BY <1>2, <2>1, <2>2
         DEF ChangeEmail, Knows, HandlerOK, ReliesOn, Issuing, Mailing, Following, Exists
    <2>4. u \notin fresh' /\ fresh' \subseteq fresh
          /\ (u \in Patient => \A s \in Request \ {r} : work[s].user # u)
      BY <1>2, <2>1 DEF ChangeEmail, FreshOK
    <2> HIDE DEF w
    <2>5. pc' = [pc EXCEPT ![r] = "burn"] /\ work' = [work EXCEPT ![r] = w]
          /\ UNCHANGED <<acct, tok, next, ghosts>> /\ Room
      BY <1>2 DEF ChangeEmail, w
    <2> QED BY <2>1, <2>3, <2>4, <2>5, HandlerStep DEF Place
  <1>3. ASSUME Resend(r, u) PROVE IInv'
    <2> DEFINE w == [Nothing EXCEPT !.user = u, !.email = acct[u].email, !.loaded = acct[u]]
    <2>1. w \in Work /\ w.user = u /\ w.email = acct[u].email /\ w.changes = FALSE
          /\ w.todo = {} /\ w.burnt = {}
          /\ w.loaded = acct[u] /\ acct[u] \in Account /\ acct[u].email \in Email
      BY <1>3, <1>0 DEF Work, Nothing, Resend, Exists, Account
    <2>2. pc'[r] = "issue" /\ work'[r] = w
      BY <1>3 DEF Resend, TypeOK
    <2>3. Knows(r)'
      BY <1>3, <2>1, <2>2
         DEF Resend, Knows, HandlerOK, ReliesOn, Issuing, Mailing, Following, Exists
    <2>4. u \notin fresh' /\ fresh' \subseteq fresh
          /\ (u \in Patient => \A s \in Request \ {r} : work[s].user # u)
      BY <1>3, <2>1 DEF Resend, FreshOK
    <2> HIDE DEF w
    <2>5. pc' = [pc EXCEPT ![r] = "issue"] /\ work' = [work EXCEPT ![r] = w]
          /\ UNCHANGED <<acct, tok, next, ghosts>> /\ Room
      BY <1>3 DEF Resend, w
    <2> QED BY <2>1, <2>3, <2>4, <2>5, HandlerStep DEF Place
  <1> QED BY <1>1, <1>2, <1>3

\* A link is followed: it works, so for a patient account it is the one that was
\* mailed to its address.
LEMMA VerifyInv ==
    ASSUME IInv, NEW r \in Request, NEW t \in Token, Verify(r, t) PROVE IInv'
  <1> USE VerificationNullAssumption DEF IInv, Begin, ghosts
  <1> DEFINE u == tok[t].user
             w == [Nothing EXCEPT !.user = u, !.token = t, !.loaded = acct[u]]
  <1>1. u \in User /\ acct[u] \in Account /\ t < next /\ tok[t] \in Row /\ t \in Unused(u)
    BY DEF Verify, TypeOK, TokensOK, Row, Exists, Unused, Of
  <1>2. w \in Work /\ w.user = u /\ w.token = t /\ w.changes = FALSE /\ w.loaded = acct[u]
        /\ w.todo = {} /\ w.burnt = {}
    BY <1>1 DEF Work, Nothing
  <1>3. pc'[r] = "verify" /\ work'[r] = w
    BY DEF Verify, TypeOK
  <1>4. UNCHANGED <<acct, tok, next, ghosts>> /\ fresh' = fresh
        /\ pc' = [pc EXCEPT ![r] = "verify"] /\ work' = [work EXCEPT ![r] = w]
        /\ (u \in Patient => \A s \in Request \ {r} : work[s].user # u)
    BY DEF Verify
  <1>5. u \in Patient => tok[t].to = acct[u].email
    BY <1>1 DEF PatientsOK, AccountOK
  <1>6. u \notin fresh
    BY <1>1, VerificationNullAssumption DEF FreshOK, Exists
  <1> HIDE DEF w
  <1>7. Knows(r)'
    BY <1>1, <1>2, <1>3, <1>4, <1>5
       DEF Knows, HandlerOK, ReliesOn, Issuing, Mailing, Following, Exists
  <1> QED BY <1>1, <1>2, <1>4, <1>6, <1>7, HandlerStep DEF Place, Issuing

\* A request that ends without touching the tables.
LEMMA EndInv ==
    ASSUME IInv, NEW r \in Request, End(r), UNCHANGED <<acct, tok, next, fresh, ghosts>>
    PROVE  IInv'
  <1> USE VerificationNullAssumption DEF IInv, End
  <1>1. Nothing \in Work /\ Nothing.user = Null /\ Nothing.changes = FALSE
        /\ Nothing.todo = {} /\ Nothing.burnt = {}
    BY DEF Nothing, Work
  <1>2. pc'[r] = "idle" /\ work'[r] = Nothing
    BY DEF TypeOK
  <1>3. Null \notin fresh /\ Null \notin Patient
    BY VerificationAssumption DEF TypeOK
  <1>4. Knows(r)'
    BY <1>1, <1>2, <1>3 DEF Knows, HandlerOK, Issuing, Mailing, Following
  <1> QED BY <1>1, <1>3, <1>4, HandlerStep DEF Place, Issuing

\* A request that goes on without touching the tables: the new account is read
\* back, the cooldown is over, the live links are found and locked, a flush is done.
LEMMA GoesOnInv ==
    ASSUME IInv, NEW r \in Request,
           \/ Refreshed(r) \/ Cooldown(r) \/ Scan(r) \/ Burn(r) \/ Stage(r) \/ VerifyFlush(r)
    PROVE  IInv'
  <1> USE VerificationNullAssumption DEF IInv, Go, ghosts
  <1> DEFINE u == work[r].user
  <1>0. Knows(r) /\ pc[r] \in Place /\ work[r] \in Work
    BY DEF HandlersOK, TypeOK
  <1>1. ASSUME Refreshed(r) PROVE IInv'
    <2> DEFINE w == [work[r] EXCEPT !.email = acct[u].email, !.loaded = acct[u]]
    <2>1. u \in User /\ acct[u] \in Account /\ acct[u].email \in Email
      BY <1>0, <1>1 DEF Refreshed, Exists, TypeOK, Knows, HandlerOK, Account
    <2>2. w \in Work /\ w.user = u /\ w.email = acct[u].email /\ w.loaded = acct[u]
          /\ w.changes = work[r].changes /\ w.todo = work[r].todo /\ w.burnt = work[r].burnt
      BY <1>0, <2>1 DEF Work
    <2>3. pc'[r] = "issue" /\ work'[r] = w
          /\ pc' = [pc EXCEPT ![r] = "issue"] /\ work' = [work EXCEPT ![r] = w]
      BY <1>1 DEF Refreshed, TypeOK
    <2> HIDE DEF w
    <2>4. Knows(r)'
      BY <1>0, <1>1, <2>1, <2>2, <2>3
         DEF Refreshed, Knows, HandlerOK, ReliesOn, Issuing, Mailing, Following, Exists
    <2>5. u \notin fresh /\ fresh' = fresh /\ pc[r] \in Issuing
          /\ UNCHANGED <<acct, tok, next, ghosts>>
          /\ (u \in Patient => \A s \in Request \ {r} : work[s].user # u)
      BY <1>1 DEF Refreshed, FreshOK, Alone, Issuing
    <2>6. w.user \notin fresh' /\ fresh' \subseteq fresh
          /\ (w.user \in Patient => \A s \in Request \ {r} : work[s].user # w.user)
      BY <2>2, <2>5
    <2> HIDE DEF u
    <2> QED BY <2>2, <2>3, <2>4, <2>5, <2>6, HandlerStep DEF Place
  <1>2. ASSUME Cooldown(r) PROVE IInv'
    <2>1. CASE CoolingDown(u)
      BY <1>2, <2>1, EndInv DEF Cooldown
    <2>2. CASE ~CoolingDown(u)
      <3>1. pc[r] = "issue" /\ pc' = [pc EXCEPT ![r] = "burn"] /\ work' = work /\ fresh' = fresh
            /\ UNCHANGED <<acct, tok, next, ghosts>>
        BY <1>2, <2>2 DEF Cooldown
      <3>2. pc'[r] = "burn" /\ work' = [work EXCEPT ![r] = work[r]]
        BY <3>1 DEF TypeOK
      <3>3. Knows(r)'
        BY <1>0, <3>1, <3>2
           DEF Knows, HandlerOK, ReliesOn, Issuing, Mailing, Following, Exists
      <3>4. u \notin fresh /\ pc[r] \in Issuing
            /\ (u \in Patient => \A s \in Request \ {r} : work[s].user # u)
        BY <3>1 DEF FreshOK, Alone, Issuing
      <3> QED BY <1>0, <3>1, <3>2, <3>3, <3>4, HandlerStep DEF Place
    <2> QED BY <2>1, <2>2
  <1>3. ASSUME Scan(r) PROVE IInv'
    <2> DEFINE w == [work[r] EXCEPT !.todo = Unused(u)]
    <2>1. Unused(u) \subseteq Token /\ \A t \in Unused(u) : tok[t] # NoRow /\ tok[t].user = u
      BY DEF Unused, Of
    <2>2. w \in Work /\ w.user = u /\ w.email = work[r].email /\ w.loaded = work[r].loaded
          /\ w.changes = work[r].changes /\ w.burnt = work[r].burnt /\ w.todo = Unused(u)
      BY <1>0, <2>1 DEF Work
    <2>3. pc'[r] = "burning" /\ work'[r] = w
          /\ pc' = [pc EXCEPT ![r] = "burning"] /\ work' = [work EXCEPT ![r] = w]
      BY <1>3 DEF Scan, ToBurn, TypeOK
    <2> HIDE DEF w
    <2>4. HandlerOK(r)'
      BY <1>0, <1>3, <2>1, <2>2, <2>3
         DEF Scan, Knows, HandlerOK, Issuing, Mailing, Following, TokensOK
    <2>5. Unused(u)' = Unused(u) /\ Exists(u)' = Exists(u) /\ UNCHANGED <<acct, tok>>
      BY <1>3 DEF Scan, Unused, Of, Exists
    <2>6. u \in Patient => ReliesOn(r)'
      BY <1>0, <1>3, <2>2, <2>3, <2>5 DEF Scan, Knows, ReliesOn, Mailing, Following
    <2>7. u \notin fresh /\ fresh' = fresh /\ pc[r] \in Issuing
          /\ UNCHANGED <<acct, tok, next, ghosts>>
          /\ (u \in Patient => \A s \in Request \ {r} : work[s].user # u)
      BY <1>3 DEF Scan, Burned, FreshOK, Alone, Issuing
    <2>8. Knows(r)'
      BY <2>2, <2>3, <2>4, <2>6 DEF Knows
    <2>9. w.user \notin fresh' /\ fresh' \subseteq fresh
          /\ (w.user \in Patient => \A s \in Request \ {r} : work[s].user # w.user)
      BY <2>2, <2>7
    <2> HIDE DEF u
    <2> QED BY <2>2, <2>3, <2>7, <2>8, <2>9, HandlerStep DEF Place
  <1>4. ASSUME Burn(r) PROVE IInv'
    <2>0. PICK t \in work[r].todo :
                 work' = [work EXCEPT ![r].todo = @ \ {t},
                                      ![r].burnt = IF t \in Unused(u) THEN @ \cup {t} ELSE @]
      BY <1>4 DEF Burn
    <2> DEFINE todo == work[r].todo \ {t}
               burnt == IF t \in Unused(u) THEN work[r].burnt \cup {t} ELSE work[r].burnt
               w == [work[r] EXCEPT !.todo = todo, !.burnt = burnt]
    <2>1. todo \subseteq Token /\ burnt \subseteq Token
          /\ todo \cup burnt \subseteq work[r].todo \cup work[r].burnt
          /\ (t \in Unused(u) => t \in burnt) /\ work[r].burnt \subseteq burnt
          /\ work[r].todo \subseteq todo \cup {t}
      BY <1>0 DEF Work
    <2>2. w \in Work /\ w.user = u /\ w.email = work[r].email /\ w.loaded = work[r].loaded
          /\ w.changes = work[r].changes /\ w.burnt = burnt /\ w.todo = todo
      BY <1>0, <2>1 DEF Work
    <2>3. pc[r] = "burning" /\ pc'[r] = "burning" /\ work'[r] = w
          /\ pc' = [pc EXCEPT ![r] = "burning"] /\ work' = [work EXCEPT ![r] = w]
      <3>1. pc[r] = "burning" /\ pc' = pc
        BY <1>4 DEF Burn
      <3>2. work' = [work EXCEPT ![r] = w]
        BY <2>0
      <3> HIDE DEF w
      <3> QED BY <3>1, <3>2 DEF TypeOK
    <2> HIDE DEF w, todo, burnt
    <2>4. HandlerOK(r)'
      BY <1>0, <1>4, <2>1, <2>2, <2>3
         DEF Burn, Knows, HandlerOK, Issuing, Mailing, Following, TokensOK
    <2>5. Unused(u)' = Unused(u) /\ Exists(u)' = Exists(u) /\ UNCHANGED <<acct, tok>>
      BY <1>4, <2>2, <2>3 DEF Burn, Unused, Of, Exists
    <2>6. u \in Patient => ReliesOn(r)'
      BY <1>0, <1>4, <2>1, <2>2, <2>3, <2>5 DEF Burn, Knows, ReliesOn, Mailing, Following
    <2>7. u \notin fresh /\ fresh' = fresh /\ pc[r] \in Issuing
          /\ UNCHANGED <<acct, tok, next, ghosts>>
          /\ (u \in Patient => \A s \in Request \ {r} : work[s].user # u)
      BY <1>4 DEF Burn, Burned, FreshOK, Alone, Issuing
    <2>8. Knows(r)'
      BY <2>2, <2>3, <2>4, <2>6 DEF Knows
    <2>9. w.user \notin fresh' /\ fresh' \subseteq fresh
          /\ (w.user \in Patient => \A s \in Request \ {r} : work[s].user # w.user)
      BY <2>2, <2>7
    <2> HIDE DEF u
    <2> QED BY <2>2, <2>3, <2>7, <2>8, <2>9, HandlerStep DEF Place
  <1>5. ASSUME Stage(r) PROVE IInv'
    <2>1. pc[r] = "burning" /\ work[r].todo = {} /\ pc' = [pc EXCEPT ![r] = "staged"]
          /\ work' = work /\ fresh' = fresh /\ UNCHANGED <<acct, tok, next, ghosts>>
      BY <1>5 DEF Stage, Burned
    <2>2. pc'[r] = "staged" /\ work' = [work EXCEPT ![r] = work[r]]
      BY <2>1 DEF TypeOK
    <2>3. Knows(r)'
      BY <1>0, <2>1, <2>2
         DEF Knows, HandlerOK, ReliesOn, Issuing, Mailing, Following, Exists, Unused, Of
    <2>4. u \notin fresh /\ pc[r] \in Issuing
          /\ (u \in Patient => \A s \in Request \ {r} : work[s].user # u)
      BY <2>1 DEF FreshOK, Alone, Issuing
    <2> QED BY <1>0, <2>1, <2>2, <2>3, <2>4, HandlerStep DEF Place
  <1>6. ASSUME VerifyFlush(r) PROVE IInv'
    <2>1. pc[r] = "verify" /\ pc' = [pc EXCEPT ![r] = "flushed"] /\ work' = work /\ fresh' = fresh
          /\ UNCHANGED <<acct, tok, next, ghosts>>
      BY <1>6 DEF VerifyFlush
    <2>2. pc'[r] = "flushed" /\ work' = [work EXCEPT ![r] = work[r]]
      BY <2>1 DEF TypeOK
    <2>3. Knows(r)'
      BY <1>0, <2>1, <2>2
         DEF Knows, HandlerOK, ReliesOn, Issuing, Mailing, Following, Exists
    <2>4. u \notin fresh /\ (u \in Patient => \A s \in Request \ {r} : work[s].user # u)
      BY <2>1 DEF FreshOK, Alone
    <2> QED BY <1>0, <2>1, <2>2, <2>3, <2>4, HandlerStep DEF Place, Issuing
  <1> QED BY <1>1, <1>2, <1>3, <1>4, <1>5, <1>6

-----------------------------------------------------------------------------
\* A step on the tables of account u: nothing else of the tables changes, and at
\* most the next token is issued, to u.
StepOn(u) ==
    /\ fresh' = fresh /\ next' \in {next, next + 1}
    /\ \A v \in User \ {u} :
          /\ acct'[v] = acct[v] /\ proven'[v] = proven[v] /\ former'[v] = former[v]
          /\ warned'[v] = warned[v] /\ changes'[v] = changes[v]
    /\ \A t \in Token :
          \/ tok'[t] = tok[t]
          \/ tok[t] # NoRow /\ tok[t].user = u
             /\ (tok'[t] # NoRow => tok'[t].user = u)
          \/ t = next /\ tok'[t] # NoRow /\ tok'[t].user = u

\* It leaves what a handler knows of its tokens true, ...
LEMMA StillKnown ==
    ASSUME IInv, NEW u \in User, StepOn(u), NEW s \in Request,
           HandlerOK(s), pc'[s] = pc[s], work'[s] = work[s]
    PROVE  HandlerOK(s)'
  <1>1. next \in Nat /\ next <= next'
    BY VerificationAssumption DEF IInv, TypeOK, StepOn
  <1>2. ASSUME NEW t \in Token, t < next, tok[t] # NoRow => tok[t].user = work[s].user
        PROVE  t < next' /\ (tok'[t] # NoRow => tok'[t].user = work[s].user)
    BY <1>1, <1>2 DEF StepOn, Token
  <1>3. work[s].todo \cup work[s].burnt \subseteq Token
    BY DEF IInv, TypeOK, Work
  <1> QED BY <1>2, <1>3 DEF HandlerOK

\* ... and touches no row of another account.
LEMMA OthersRows ==
    ASSUME IInv, NEW u \in User, StepOn(u), NEW v \in User, v # u
    PROVE  /\ Exists(v)' = Exists(v) /\ acct'[v] = acct[v]
           /\ Of(v)' = Of(v) /\ Unused(v)' = Unused(v)
           /\ \A t \in Of(v) : tok'[t] = tok[t]
  <1>1. acct'[v] = acct[v]
    BY DEF StepOn
  <1>2. next \in Token => tok[next] = NoRow
    BY DEF IInv, TokensOK, Token
  <1>3. \A t \in Token : t \in Of(v)' <=> t \in Of(v)
    BY <1>2 DEF StepOn, Of
  <1>4. Of(v)' = Of(v)
    BY <1>3 DEF Of
  <1>5. \A t \in Of(v) : tok'[t] = tok[t]
    BY <1>2 DEF StepOn, Of
  <1>6. Unused(v)' = Unused(v)
    BY <1>4, <1>5 DEF Unused
  <1> QED BY <1>1, <1>4, <1>5, <1>6 DEF Exists

\* So the handlers that serve others, and the other accounts, are as they were.
LEMMA Others ==
    ASSUME IInv, NEW u \in User, StepOn(u)
    PROVE  /\ \A s \in Request :
                 pc'[s] = pc[s] /\ work'[s] = work[s] /\ work[s].user # u => Knows(s)'
           /\ \A v \in Patient \ {u} : AccountOK(v)'
  <1>1. ASSUME NEW s \in Request, pc'[s] = pc[s], work'[s] = work[s], work[s].user # u
        PROVE  Knows(s)'
    <2>1. Knows(s)
      BY DEF IInv, HandlersOK
    <2>2. HandlerOK(s)'
      BY <1>1, <2>1, StillKnown DEF Knows
    <2>3. ASSUME NEW v \in Patient, v = work[s].user PROVE ReliesOn(s)'
      <3>1. v \in User /\ v # u
        BY <1>1, <2>3, VerificationAssumption
      <3>2. /\ Exists(v)' = Exists(v) /\ acct'[v] = acct[v]
            /\ Of(v)' = Of(v) /\ Unused(v)' = Unused(v)
            /\ \A t \in Of(v) : tok'[t] = tok[t]
        BY <3>1, OthersRows
      <3>3. changes'[v] = changes[v] /\ former'[v] = former[v]
        BY <3>1 DEF StepOn
      <3>4. ASSUME pc[s] \in Following, tok'[work[s].token] # NoRow
            PROVE  work[s].token \in Of(v)
        <4>1. work[s].token \in Token /\ tok'[work[s].token].user = v
          BY <1>1, <2>2, <2>3, <3>4 DEF HandlerOK
        <4>2. work[s].token \in Of(v)'
          BY <3>4, <4>1 DEF Of
        <4> QED BY <3>2, <4>2
      <3> QED BY <1>1, <2>1, <2>3, <3>2, <3>3, <3>4 DEF Knows, ReliesOn, Of
    <2> QED BY <1>1, <2>2, <2>3 DEF Knows
  <1>2. ASSUME NEW v \in Patient, v # u PROVE AccountOK(v)'
    <2>1. v \in User
      BY VerificationAssumption
    <2>2. AccountOK(v)
      BY DEF IInv, PatientsOK
    <2>3. /\ Exists(v)' = Exists(v) /\ acct'[v] = acct[v]
          /\ Of(v)' = Of(v) /\ Unused(v)' = Unused(v)
          /\ \A t \in Of(v) : tok'[t] = tok[t]
      BY <1>2, <2>1, OthersRows
    <2>4. fresh' = fresh /\ changes'[v] = changes[v] /\ former'[v] = former[v]
          /\ proven'[v] = proven[v] /\ warned'[v] = warned[v]
      BY <1>2, <2>1 DEF StepOn
    <2>5. Unused(v) \subseteq Of(v)
      BY DEF Unused
    <2> QED BY <2>2, <2>3, <2>4, <2>5 DEF AccountOK, Owned
  <1> QED BY <1>1, <1>2

\* A step of handler r on the tables of the account it serves.
LEMMA RequestStep ==
    ASSUME IInv, NEW r \in Request, NEW u \in User, work[r].user = u, StepOn(u),
           TypeOK', TokensOK', RoomLeft', work'[r].user \in {u, Null},
           \A s \in Request \ {r} : pc'[s] = pc[s] /\ work'[s] = work[s],
           Knows(r)', u \in Patient => AccountOK(u)'
    PROVE  IInv'
  <1> USE VerificationNullAssumption DEF IInv
  <1>1. fresh' = fresh /\ fresh \subseteq User
    BY DEF StepOn, TypeOK
  <1>2. FreshOK'
    <2> SUFFICES ASSUME NEW v \in fresh
                 PROVE  ~Exists(v)' /\ \A s \in Request : work'[s].user # v
      BY <1>1 DEF FreshOK
    <2>1. v # u /\ ~Exists(v) /\ \A s \in Request : work[s].user # v
      BY DEF FreshOK
    <2>2. ~Exists(v)'
      BY <1>1, <2>1, OthersRows
    <2> QED BY <1>1, <2>1, <2>2
  <1>3. Alone'
    BY VerificationAssumption DEF Alone
  <1>4. HandlersOK'
    <2> SUFFICES ASSUME NEW s \in Request, s # r PROVE Knows(s)'
      BY DEF HandlersOK
    <2>1. CASE work[s].user # u
      BY <2>1, Others
    <2>2. CASE work[s].user = u
      <3>1. u \notin Patient
        BY <2>2 DEF Alone
      <3>2. HandlerOK(s)'
        BY StillKnown DEF HandlersOK, Knows
      <3> QED BY <2>2, <3>1, <3>2 DEF Knows
    <2> QED BY <2>1, <2>2
  <1>5. PatientsOK'
    BY Others DEF PatientsOK
  <1> QED BY <1>2, <1>3, <1>4, <1>5

\* A step of no handler on the tables of account u.
LEMMA AccountStep ==
    ASSUME IInv, NEW u \in User, StepOn(u), UNCHANGED <<pc, work, next>>,
           TypeOK', TokensOK', Exists(u)' => Exists(u),
           u \in Patient =>
              /\ AccountOK(u)'
              /\ \A s \in Request : work[s].user = u => ReliesOn(s)'
    PROVE  IInv'
  <1> USE DEF IInv
  <1>1. fresh' = fresh /\ fresh \subseteq User
    BY DEF StepOn, TypeOK
  <1>2. FreshOK'
    <2> SUFFICES ASSUME NEW v \in fresh PROVE ~Exists(v)'
      BY <1>1 DEF FreshOK
    <2>1. ~Exists(v) /\ v \in User
      BY <1>1 DEF FreshOK
    <2> QED BY <2>1, OthersRows
  <1>3. Alone' /\ RoomLeft'
    BY DEF Alone, RoomLeft, Issuers
  <1>4. HandlersOK'
    <2> SUFFICES ASSUME NEW s \in Request PROVE Knows(s)'
      BY DEF HandlersOK
    <2>1. CASE work[s].user # u
      BY <2>1, Others
    <2>2. CASE work[s].user = u
      <3>1. HandlerOK(s)'
        BY StillKnown DEF HandlersOK, Knows
      <3> QED BY <2>2, <3>1 DEF Knows
    <2> QED BY <2>1, <2>2
  <1>5. PatientsOK'
    BY Others DEF PatientsOK
  <1> QED BY <1>2, <1>3, <1>4, <1>5

\* Rows keep their type when a column is written.
LEMMA RowTypes ==
    /\ \A row \in Row : [row EXCEPT !.used = TRUE] \in Row /\ [row EXCEPT !.recent = FALSE] \in Row
    /\ \A row \in Account : [row EXCEPT !.verified = TRUE] \in Account
                            /\ [row EXCEPT !.changed = FALSE] \in Account
  BY DEF Row, Account

\* The account is inserted with no link and no past, or the address is taken.
LEMMA InsertInv ==
    ASSUME IInv, NEW r \in Request, Insert(r) PROVE IInv'
  <1> USE VerificationNullAssumption DEF ghosts
  <1>1. CASE Taken(work[r].email)
    BY <1>1, EndInv DEF Insert
  <1>2. CASE ~Taken(work[r].email)
    <2>1. PICK u \in User : u = work[r].user
      BY DEF IInv, HandlersOK, Knows, HandlerOK, Insert
    <2>2. PICK e \in Email : e = work[r].email
      BY DEF IInv, HandlersOK, Knows, HandlerOK, Insert, Issuing
    <2> DEFINE new == [email |-> e, verified |-> FALSE, changed |-> FALSE]
    <2>3. /\ pc[r] = "register" /\ work' = work /\ pc' = [pc EXCEPT ![r] = "registered"]
          /\ acct' = [acct EXCEPT ![u] = new]
          /\ UNCHANGED <<tok, next, fresh, proven, former, warned, changes>>
      BY <1>2, <2>1, <2>2 DEF Insert, Go
    <2>4. new \in Account /\ new.email = e /\ new.verified = FALSE /\ new.changed = FALSE
      BY DEF Account
    <2> HIDE DEF new
    <2>5. TypeOK /\ pc'[r] = "registered" /\ acct'[u] = new /\ Exists(u)'
          /\ \A v \in User \ {u} : acct'[v] = acct[v]
      BY <2>3, <2>4 DEF IInv, TypeOK, Exists
    <2>6. TypeOK'
      BY <2>3, <2>4, <2>5 DEF TypeOK, Place
    <2>7. TokensOK'
      BY <2>3, <2>5 DEF IInv, TokensOK, Exists, TypeOK, Row
    <2>8. StepOn(u)
      BY <2>3, <2>5 DEF StepOn
    <2>9. RoomLeft'
      BY <2>3, <2>5, <2>6, IssuersCount DEF IInv, TypeOK, Issuing
    <2>10. HandlerOK(r) /\ HandlerOK(r)'
      BY <2>3, <2>5 DEF IInv, HandlersOK, Knows, HandlerOK, Issuing, Mailing, Following
    <2>11. ASSUME u \in Patient PROVE ReliesOn(r)' /\ AccountOK(u)'
      <3>1. changes[u] = 0 /\ former[u] = {} /\ ~Exists(u) /\ AccountOK(u)
        BY <2>1, <2>3, <2>11 DEF IInv, HandlersOK, Knows, ReliesOn, PatientsOK
      <3>2. Unused(u) = {} /\ Unused(u)' = {}
        BY <2>3, <3>1 DEF IInv, TokensOK, Unused, Of
      <3>3. ~work'[r].changes
        BY <2>3, <2>10 DEF HandlerOK
      <3>4. ReliesOn(r)'
        BY <2>1, <2>3, <2>5, <3>3 DEF ReliesOn, Mailing, Following
      <3>5. AccountOK(u)'
        BY <2>3, <2>4, <2>5, <3>1, <3>2 DEF AccountOK, Owned
      <3> QED BY <3>4, <3>5
    <2>12. Knows(r)'
      BY <2>1, <2>3, <2>10, <2>11 DEF Knows
    <2>13. \A s \in Request \ {r} : pc'[s] = pc[s] /\ work'[s] = work[s]
      BY <2>3, <2>5 DEF TypeOK
    <2> QED BY <2>1, <2>3, <2>6, <2>7, <2>8, <2>9, <2>11, <2>12, <2>13, RequestStep
  <1> QED BY <1>1, <1>2

\* The account goes, and its tokens with it.
LEMMA DeleteInv ==
    ASSUME IInv, NEW u \in User, Delete(u) PROVE IInv'
  <1> USE VerificationNullAssumption DEF ghosts
  <1>1. /\ acct' = [acct EXCEPT ![u] = NoRow]
        /\ tok' = [t \in Token |-> IF t \in Of(u) THEN NoRow ELSE tok[t]]
        /\ UNCHANGED <<next, fresh, pc, work, proven, former, warned, changes>>
        /\ Exists(u) /\ TypeOK
    BY DEF Delete, IInv
  <1>2. TypeOK'
    BY <1>1 DEF TypeOK
  <1>3. ~Exists(u)' /\ \A v \in User \ {u} : acct'[v] = acct[v]
    BY <1>1 DEF TypeOK, Exists
  <1>4. Of(u)' = {} /\ Unused(u)' = {}
    BY <1>1 DEF Of, Unused
  <1>5. StepOn(u)
    BY <1>1, <1>3 DEF StepOn, Of
  <1>6. TokensOK'
    <2> SUFFICES ASSUME NEW t \in Token, tok'[t] # NoRow
                 PROVE  acct'[tok'[t].user] # NoRow /\ t < next'
      BY DEF TokensOK, Exists
    <2>1. tok'[t] = tok[t] /\ tok[t] # NoRow /\ tok[t].user # u /\ tok[t].user \in User
      BY <1>1 DEF Of, TypeOK, Row
    <2> QED BY <1>1, <1>3, <2>1 DEF IInv, TokensOK, Exists
  <1>7. ASSUME u \in Patient PROVE AccountOK(u)'
    <2>1. AccountOK(u)
      BY <1>7 DEF IInv, PatientsOK
    <2> QED BY <1>1, <1>3, <1>4, <2>1 DEF AccountOK, Owned
  <1>8. ASSUME u \in Patient, NEW s \in Request, work[s].user = u PROVE ReliesOn(s)'
    <2>1. HandlerOK(s) /\ HandlerOK(s)' /\ ReliesOn(s)
      BY <1>1, <1>5, <1>8, StillKnown DEF IInv, HandlersOK, Knows
    <2>2. pc[s] \in Following => tok'[work[s].token] = NoRow
      BY <1>1, <1>4, <2>1, <1>8 DEF HandlerOK, Of
    <2> QED BY <1>1, <1>3, <1>4, <1>8, <2>1, <2>2 DEF ReliesOn
  <1> QED BY <1>1, <1>2, <1>3, <1>5, <1>6, <1>7, <1>8, AccountStep

\* A link expires: the others are none the worse.
LEMMA ExpireInv ==
    ASSUME IInv, NEW t \in Token, Expire(t) PROVE IInv'
  <1> USE VerificationNullAssumption DEF ghosts
  <1> DEFINE row == [tok[t] EXCEPT !.used = TRUE]
  <1>1. tok[t] \in Row /\ ~tok[t].used /\ tok' = [tok EXCEPT ![t] = row]
        /\ UNCHANGED <<acct, next, fresh, pc, work, proven, former, warned, changes>> /\ TypeOK
    BY DEF Expire, IInv, TypeOK
  <1>2. row \in Row /\ row.user = tok[t].user /\ row.to = tok[t].to /\ row.used
    BY <1>1 DEF Row
  <1> HIDE DEF row
  <1>3. PICK u \in User : u = tok[t].user
    BY <1>1 DEF Row
  <1>4. TypeOK'
    BY <1>1, <1>2 DEF TypeOK
  <1>5. tok'[t] = row /\ \A s \in Token \ {t} : tok'[s] = tok[s]
    BY <1>1 DEF TypeOK
  <1>6. StepOn(u)
    BY <1>1, <1>2, <1>3, <1>5 DEF StepOn
  <1>7. TokensOK' /\ Exists(u)' = Exists(u)
    BY <1>1, <1>2, <1>5 DEF IInv, TokensOK, Exists
  <1>8. Unused(u)' = Unused(u) \ {t}
    BY <1>1, <1>2, <1>5 DEF Unused, Of
  <1>9. ASSUME u \in Patient PROVE AccountOK(u)'
    <2>1. AccountOK(u)
      BY <1>9 DEF IInv, PatientsOK
    <2> QED BY <1>1, <1>5, <1>7, <1>8, <2>1 DEF AccountOK, Owned, Unused, Of
  <1>10. ASSUME u \in Patient, NEW s \in Request, work[s].user = u PROVE ReliesOn(s)'
    <2>1. HandlerOK(s) /\ ReliesOn(s)
      BY <1>10 DEF IInv, HandlersOK, Knows
    <2>2. pc[s] \in Following => work[s].token \in Token
      BY <2>1 DEF HandlerOK
    <2> QED BY <1>1, <1>2, <1>5, <1>7, <1>8, <1>10, <2>1, <2>2 DEF ReliesOn
  <1> QED BY <1>1, <1>4, <1>6, <1>7, <1>9, <1>10, AccountStep

\* Time passes: no address and no link changes.
LEMMA CooldownPassesInv ==
    ASSUME IInv, NEW u \in User, CooldownPasses(u) PROVE IInv'
  <1> USE VerificationNullAssumption DEF ghosts
  <1>1. /\ tok' = [t \in Token |-> IF t \in Of(u) THEN [tok[t] EXCEPT !.recent = FALSE] ELSE tok[t]]
        /\ UNCHANGED <<acct, next, fresh, pc, work, proven, former, warned, changes>> /\ TypeOK
    BY DEF CooldownPasses, IInv
  <1>2. \A t \in Of(u) : tok[t] \in Row
    BY <1>1 DEF Of, TypeOK
  <1>3. \A t \in Of(u) : /\ tok'[t] \in Row /\ tok'[t].user = u
                         /\ tok'[t].to = tok[t].to /\ tok'[t].used = tok[t].used
    BY <1>1, <1>2 DEF Of, Row
  <1>4. \A t \in Token \ Of(u) : tok'[t] = tok[t]
    BY <1>1
  <1>5. TypeOK'
    <2>1. tok' \in [Token -> Row \cup {NoRow}]
      BY <1>1, <1>3, <1>4 DEF TypeOK
    <2> QED BY <1>1, <2>1 DEF TypeOK
  <1>6. StepOn(u)
    BY <1>1, <1>3, <1>4 DEF StepOn, Of
  <1>7. TokensOK' /\ Exists(u)' = Exists(u)
    BY <1>1, <1>3, <1>4 DEF IInv, TokensOK, Exists, Of
  <1>8. Unused(u)' = Unused(u) /\ Unused(u) \subseteq Of(u)
    BY <1>3, <1>4 DEF Unused, Of
  <1>9. ASSUME u \in Patient PROVE AccountOK(u)'
    <2>1. AccountOK(u)
      BY <1>9 DEF IInv, PatientsOK
    <2> QED BY <1>1, <1>3, <1>7, <1>8, <2>1 DEF AccountOK, Owned
  <1>10. ASSUME u \in Patient, NEW s \in Request, work[s].user = u PROVE ReliesOn(s)'
    <2>1. HandlerOK(s) /\ ReliesOn(s)
      BY <1>10 DEF IInv, HandlersOK, Knows
    <2>2. ASSUME pc[s] \in Following, tok'[work[s].token] # NoRow
          PROVE  tok[work[s].token] # NoRow /\ tok'[work[s].token].to = tok[work[s].token].to
      BY <1>3, <1>4, <2>1, <2>2 DEF HandlerOK, Of
    <2> QED BY <1>1, <1>7, <1>8, <1>10, <2>1, <2>2 DEF ReliesOn
  <1> QED BY <1>1, <1>5, <1>6, <1>7, <1>9, <1>10, AccountStep

\* The day has passed: the next change of address is the first.
LEMMA DayPassesInv ==
    ASSUME IInv, NEW u \in User, DayPasses(u) PROVE IInv'
  <1> USE VerificationNullAssumption
  <1> DEFINE row == [acct[u] EXCEPT !.changed = FALSE]
  <1>1. acct[u] \in Account /\ acct' = [acct EXCEPT ![u] = row]
        /\ changes' = [changes EXCEPT ![u] = 0]
        /\ UNCHANGED <<tok, next, fresh, pc, work, proven, former, warned>> /\ TypeOK
    BY DEF DayPasses, IInv, TypeOK, Exists
  <1>2. row \in Account /\ row.email = acct[u].email /\ row.verified = acct[u].verified
        /\ ~row.changed
    BY <1>1 DEF Account
  <1> HIDE DEF row
  <1>3. acct'[u] = row /\ changes'[u] = 0
        /\ \A v \in User \ {u} : acct'[v] = acct[v] /\ changes'[v] = changes[v]
    BY <1>1 DEF TypeOK
  <1>4. TypeOK'
    BY <1>1, <1>2 DEF TypeOK
  <1>5. StepOn(u)
    BY <1>1, <1>3 DEF StepOn
  <1>6. Exists(u) /\ Exists(u)' /\ u \notin fresh
    BY <1>1, <1>2, <1>3 DEF Exists, IInv, FreshOK
  <1>7. TokensOK'
    BY <1>1, <1>3, <1>6 DEF IInv, TokensOK, Exists, TypeOK, Row
  <1>8. Unused(u)' = Unused(u)
    BY <1>1 DEF Unused, Of
  <1>9. ASSUME u \in Patient PROVE AccountOK(u)'
    <2>1. AccountOK(u)
      BY <1>9 DEF IInv, PatientsOK
    <2> QED BY <1>1, <1>2, <1>3, <1>6, <1>8, <2>1 DEF AccountOK, Owned
  <1>10. ASSUME u \in Patient, NEW s \in Request, work[s].user = u PROVE ReliesOn(s)'
    <2>1. ReliesOn(s)
      BY <1>10 DEF IInv, HandlersOK, Knows
    <2> QED BY <1>1, <1>2, <1>3, <1>6, <1>8, <1>10, <2>1 DEF ReliesOn
  <1> QED BY <1>1, <1>4, <1>5, <1>6, <1>7, <1>9, <1>10, AccountStep

\* A link is issued: for a patient account it burns every other, goes to the
\* address the account then has, and a change of address forgets what was verified.
LEMMA IssueCommitInv ==
    ASSUME IInv, NEW r \in Request, IssueCommit(r) PROVE IInv'
  <1> USE VerificationNullAssumption DEF ghosts
  <1>1. PICK w \in Work : w = work[r]
    BY DEF IInv, TypeOK
  <1>2. PICK u \in User : u = w.user
    BY <1>1 DEF IInv, HandlersOK, Knows, HandlerOK, IssueCommit, Burned
  <1>3. HandlerOK(r) /\ TypeOK /\ TokensOK /\ pc[r] \in {"burning", "staged"} /\ w.todo = {}
        /\ Exists(u) /\ acct[u] \in Account
    BY <1>1, <1>2 DEF IssueCommit, Burned, HandlerOK, IInv, HandlersOK, Knows, TypeOK, Exists
  <1>4. w.email \in Email /\ w.loaded \in Account /\ w.burnt \subseteq Token
        /\ w.user = u /\ w.changes \in BOOLEAN
        /\ \A t \in w.burnt : t < next /\ (tok[t] # NoRow => tok[t].user = u)
    BY <1>1, <1>2, <1>3 DEF HandlerOK, Issuing, Mailing, Work
  <1>5. next \in Token
    <2>1. IsFiniteSet(Issuers)
      BY FS_Subset, VerificationAssumption DEF Issuers
    <2>2. Cardinality(Issuers) \in Nat /\ Cardinality(Issuers) # 0
      BY <2>1, <1>3, FS_CardinalityType, FS_EmptySet DEF Issuers, Issuing
    <2> QED BY <2>2, VerificationAssumption DEF IInv, TypeOK, RoomLeft, Token
  <1>6. NewRow(w) \in Row /\ NewRow(w).user = u /\ NewRow(w).to = w.email /\ ~NewRow(w).used
    BY <1>4 DEF NewRow, Row
  <1>7. PICK new \in Account : new = Changed(acct[u], w)
    BY <1>3, <1>4 DEF Changed, Account
  <1>8. new.email = w.email /\ new.changed
        /\ (w.loaded.verified = acct[u].verified => ~new.verified)
    BY <1>7 DEF Changed
  <1>9. /\ tok' = [t \in Token |-> IF t = next THEN NewRow(w)
                                   ELSE IF t \in w.burnt /\ tok[t] # NoRow
                                   THEN [tok[t] EXCEPT !.used = TRUE] ELSE tok[t]]
        /\ next' = next + 1 /\ fresh' = fresh /\ proven' = proven
        /\ pc' = [pc EXCEPT ![r] = "idle"] /\ work' = [work EXCEPT ![r] = Nothing]
        /\ w.changes => /\ acct' = [acct EXCEPT ![u] = new]
                        /\ former' = [former EXCEPT ![u] = former[u] \cup {acct[u].email}]
                        /\ warned' = [warned EXCEPT ![u] = warned[u] \cup {w.loaded.email}]
                        /\ changes' = [changes EXCEPT ![u] = changes[u] + 1]
        /\ ~w.changes => UNCHANGED <<acct, former, warned, changes>>
    BY <1>1, <1>2, <1>3, <1>7 DEF IssueCommit, End, Warns, TypeOK
  <1>10. tok'[next] = NewRow(w)
    BY <1>5, <1>9
  <1>11. ASSUME NEW t \in Token, t # next
         PROVE  \/ tok'[t] = tok[t] /\ (t \notin w.burnt \/ tok[t] = NoRow)
                \/ t \in w.burnt /\ tok[t] # NoRow /\ tok'[t] \in Row /\ tok'[t].used
                   /\ tok'[t].user = u /\ tok[t].user = u
    <2>1. CASE t \in w.burnt /\ tok[t] # NoRow
      <3>1. tok[t] \in Row /\ tok[t].user = u /\ tok'[t] = [tok[t] EXCEPT !.used = TRUE]
        BY <1>3, <1>4, <1>9, <1>11, <2>1 DEF TypeOK
      <3>2. tok'[t] \in Row /\ tok'[t].used /\ tok'[t].user = u
        BY <3>1 DEF Row
      <3> QED BY <2>1, <3>1, <3>2
    <2>2. CASE ~(t \in w.burnt /\ tok[t] # NoRow)
      BY <1>9, <1>11, <2>2
    <2> QED BY <2>1, <2>2
  <1>12. acct'[u] \in Account /\ \A v \in User \ {u} : acct'[v] = acct[v]
    BY <1>3, <1>9 DEF TypeOK
  <1>13. TypeOK'
    <2>1. tok' \in [Token -> Row \cup {NoRow}]
      <3>1. \A t \in Token : tok'[t] \in Row \cup {NoRow}
        BY <1>3, <1>6, <1>10, <1>11 DEF TypeOK
      <3> QED BY <1>9, <3>1
    <2>2. next' \in 1..(MaxTokens + 1)
      BY <1>5, <1>9, VerificationAssumption DEF Token
    <2>3. pc' \in [Request -> Place] /\ work' \in [Request -> Work] /\ fresh' \subseteq User
          /\ proven' \in [User -> SUBSET Email]
      BY <1>3, <1>9 DEF TypeOK, Place, Work, Nothing
    <2>4. acct' \in [User -> Account \cup {NoRow}] /\ changes' \in [User -> Nat]
      BY <1>3, <1>9 DEF TypeOK
    <2>5. former' \in [User -> SUBSET Email] /\ warned' \in [User -> SUBSET Email]
      BY <1>3, <1>4, <1>9 DEF TypeOK, Account
    <2> QED BY <2>1, <2>2, <2>3, <2>4, <2>5 DEF TypeOK
  <1>14. TokensOK'
    <2> SUFFICES ASSUME NEW t \in Token, tok'[t] # NoRow
                 PROVE  acct'[tok'[t].user] # NoRow /\ t < next'
      BY DEF TokensOK, Exists
    <2>1. next \in Nat /\ next' = next + 1
      BY <1>5, <1>9, VerificationAssumption DEF Token
    <2>2. CASE t = next
      BY <1>6, <1>10, <1>12, <2>1, <2>2
    <2>3. CASE t # next
      <3>1. tok[t] # NoRow /\ tok'[t].user = tok[t].user
        BY <1>11, <2>3
      <3>2. acct[tok[t].user] # NoRow /\ t < next /\ tok[t].user \in User
        BY <1>3, <3>1 DEF TokensOK, Exists, TypeOK, Row
      <3> QED BY <1>12, <2>1, <3>1, <3>2 DEF Token
    <2> QED BY <2>2, <2>3
  <1>15. StepOn(u)
    <2>1. \A v \in User \ {u} :
          /\ acct'[v] = acct[v] /\ proven'[v] = proven[v] /\ former'[v] = former[v]
          /\ warned'[v] = warned[v] /\ changes'[v] = changes[v]
      BY <1>3, <1>9 DEF TypeOK
    <2>2. ASSUME NEW t \in Token
          PROVE  \/ tok'[t] = tok[t]
                 \/ tok[t] # NoRow /\ tok[t].user = u
                    /\ (tok'[t] # NoRow => tok'[t].user = u)
                 \/ t = next /\ tok'[t] # NoRow /\ tok'[t].user = u
      BY <1>6, <1>10, <1>11
    <2> QED BY <1>9, <2>1, <2>2 DEF StepOn
  <1>16. pc'[r] = "idle" /\ work'[r] = Nothing
         /\ \A s \in Request \ {r} : pc'[s] = pc[s] /\ work'[s] = work[s]
    BY <1>3, <1>9 DEF TypeOK
  <1>17. RoomLeft'
    BY <1>3, <1>9, <1>13, <1>16, IssuersCount DEF IInv, TypeOK, Issuing
  <1>18. Knows(r)'
    BY <1>16, VerificationAssumption
       DEF Nothing, Knows, HandlerOK, Issuing, Mailing, Following
  <1>19. ASSUME u \in Patient PROVE AccountOK(u)'
    <2>1. AccountOK(u) /\ ReliesOn(r)
      BY <1>1, <1>2, <1>19 DEF IInv, PatientsOK, HandlersOK, Knows
    <2>2. w.loaded.email = acct[u].email /\ w.loaded.verified = acct[u].verified
          /\ (~w.changes => w.email = acct[u].email) /\ (w.changes => ~acct[u].changed)
          /\ Unused(u) \subseteq w.burnt
      BY <1>1, <1>2, <1>3, <2>1 DEF ReliesOn, Mailing
    <2>3. \A t \in Unused(u)' : t = next
      <3> SUFFICES ASSUME NEW t \in Unused(u)', t # next PROVE FALSE
        OBVIOUS
      <3>1. t \in Token /\ tok'[t] # NoRow /\ tok'[t].user = u /\ ~tok'[t].used
        BY DEF Unused, Of
      <3>2. tok'[t] = tok[t] /\ t \notin w.burnt
        BY <1>11, <3>1
      <3>3. t \in Unused(u)
        BY <3>1, <3>2 DEF Unused, Of
      <3> QED BY <2>2, <3>2, <3>3
    <2>4. acct'[u].email = w.email
      BY <1>3, <1>8, <1>9, <2>2 DEF TypeOK
    <2>5. \A t \in Unused(u)' : tok'[t].to = acct'[u].email
      BY <1>6, <1>10, <2>3, <2>4
    <2>6. CASE w.changes
      <3>1. acct'[u] = new /\ former'[u] = former[u] \cup {acct[u].email}
            /\ warned'[u] = warned[u] \cup {acct[u].email} /\ changes'[u] = changes[u] + 1
        BY <1>3, <1>9, <2>2, <2>6 DEF TypeOK
      <3>2. changes[u] = 0 /\ former[u] \subseteq warned[u] /\ u \notin fresh
        BY <1>3, <2>1, <2>2, <2>6 DEF AccountOK, IInv, FreshOK
      <3>3. changes'[u] = 1
        BY <3>1, <3>2
      <3>4. Owned(u)' /\ (Exists(u) /\ changes[u] # 0 => acct[u].changed)'
        BY <1>8, <2>2, <2>6, <3>1 DEF Owned
      <3>5. (Exists(u) => former[u] \subseteq warned[u])' /\ u \notin fresh'
        BY <1>9, <3>1, <3>2
      <3>6. \A s, t \in Unused(u)' : s = t
        BY <2>3
      <3> QED BY <2>5, <3>3, <3>4, <3>5, <3>6 DEF AccountOK
    <2>7. CASE ~w.changes
      BY <1>9, <2>1, <2>3, <2>5, <2>7 DEF AccountOK, Owned, Exists
    <2> QED BY <1>4, <2>6, <2>7
  <1> QED
    BY <1>1, <1>2, <1>13, <1>14, <1>15, <1>16, <1>17, <1>18, <1>19, RequestStep DEF Nothing

\* A link is followed to the end: the address it was mailed to has been shown to
\* be owned, and it is the account's.
LEMMA VerifyCommitInv ==
    ASSUME IInv, NEW r \in Request, VerifyCommit(r) PROVE IInv'
  <1> USE VerificationNullAssumption DEF ghosts
  <1>1. PICK w \in Work : w = work[r]
    BY DEF IInv, TypeOK
  <1>2. PICK u \in User : u = w.user
    BY <1>1 DEF IInv, HandlersOK, Knows, HandlerOK, VerifyCommit
  <1>3. HandlerOK(r) /\ TypeOK /\ TokensOK /\ FreshOK /\ pc[r] = "flushed"
    BY DEF VerifyCommit, IInv, HandlersOK, Knows
  <1>4. PICK t \in Token : t = w.token
    BY <1>1, <1>3 DEF HandlerOK, Following
  <1>5. tok[t] \in Row /\ tok[t].user = u /\ Exists(u) /\ acct[u] \in Account
    BY <1>1, <1>2, <1>3, <1>4
       DEF HandlerOK, Following, VerifyCommit, TypeOK, TokensOK, Exists
  <1> DEFINE row == [tok[t] EXCEPT !.used = TRUE]
             new == IF w.loaded.verified THEN acct[u] ELSE [acct[u] EXCEPT !.verified = TRUE]
  <1>6. row \in Row /\ row.user = u /\ row.used /\ new \in Account /\ new.email = acct[u].email
        /\ new.changed = acct[u].changed
    BY <1>5 DEF Row, Account
  <1>7. /\ tok' = [tok EXCEPT ![t] = row] /\ acct' = [acct EXCEPT ![u] = new]
        /\ proven' = [proven EXCEPT ![u] = proven[u] \cup {tok[t].to}]
        /\ UNCHANGED <<next, fresh, former, warned, changes>>
        /\ pc' = [pc EXCEPT ![r] = "idle"] /\ work' = [work EXCEPT ![r] = Nothing]
    <2>1. acct' = [acct EXCEPT ![u] = new]
      BY <1>1, <1>2, <1>3 DEF VerifyCommit, TypeOK
    <2> QED BY <1>1, <1>2, <1>4, <2>1 DEF VerifyCommit, End
  <1> HIDE DEF row, new
  <1>8. tok'[t] = row /\ acct'[u] = new /\ proven'[u] = proven[u] \cup {tok[t].to}
        /\ (\A s \in Token \ {t} : tok'[s] = tok[s])
        /\ (\A v \in User \ {u} : acct'[v] = acct[v] /\ proven'[v] = proven[v])
    BY <1>3, <1>7 DEF TypeOK
  <1>9. TypeOK'
    BY <1>3, <1>5, <1>6, <1>7 DEF TypeOK, Place, Work, Nothing, Row
  <1>10. StepOn(u)
    BY <1>5, <1>6, <1>7, <1>8 DEF StepOn
  <1>11. TokensOK'
    BY <1>3, <1>5, <1>6, <1>7, <1>8 DEF TokensOK, Exists, TypeOK, Row
  <1>12. pc'[r] = "idle" /\ work'[r] = Nothing
         /\ \A s \in Request \ {r} : pc'[s] = pc[s] /\ work'[s] = work[s]
    BY <1>3, <1>7 DEF TypeOK
  <1>13. RoomLeft'
    BY <1>7, <1>9, <1>12, IssuersCount DEF IInv, TypeOK, Issuing
  <1>14. Knows(r)'
    BY <1>12, VerificationAssumption
       DEF Nothing, Knows, HandlerOK, Issuing, Mailing, Following
  <1>15. ASSUME u \in Patient PROVE AccountOK(u)'
    <2>1. AccountOK(u) /\ ReliesOn(r)
      BY <1>1, <1>2, <1>15 DEF IInv, PatientsOK, HandlersOK, Knows
    <2>2. tok[t].to = acct[u].email
      BY <1>1, <1>2, <1>3, <1>4, <1>5, <2>1 DEF ReliesOn, Following
    <2>3. Unused(u)' \subseteq Unused(u) \ {t}
      BY <1>6, <1>8 DEF Unused, Of
    <2>4. Unused(u) \subseteq Token
      BY DEF Unused, Of
    <2> QED
      BY <1>5, <1>6, <1>7, <1>8, <2>1, <2>2, <2>3, <2>4 DEF AccountOK, Owned, Exists
  <1> QED
    BY <1>1, <1>2, <1>9, <1>10, <1>11, <1>12, <1>13, <1>14, <1>15, RequestStep DEF Nothing

-----------------------------------------------------------------------------
\* Every step keeps the invariant.
LEMMA NextInv == IInv /\ [Next]_vars => IInv'
  <1> SUFFICES ASSUME IInv, [Next]_vars PROVE IInv'
    OBVIOUS
  <1>1. ASSUME NEW r \in Request, NEW u \in User,
               \/ \E e \in Email : Register(r, u, e) \/ ChangeEmail(r, u, e)
               \/ Resend(r, u)
        PROVE  IInv'
    BY <1>1, BeginInv
  <1>2. ASSUME NEW r \in Request,
               Refreshed(r) \/ Cooldown(r) \/ Scan(r) \/ Burn(r) \/ Stage(r) \/ VerifyFlush(r)
        PROVE  IInv'
    BY <1>2, GoesOnInv
  <1>3. ASSUME NEW r \in Request, Insert(r) PROVE IInv'
    BY <1>3, InsertInv
  <1>4. ASSUME NEW r \in Request, IssueCommit(r) PROVE IInv'
    BY <1>4, IssueCommitInv
  <1>5. ASSUME NEW r \in Request, NEW t \in Token, Verify(r, t) PROVE IInv'
    BY <1>5, VerifyInv
  <1>6. ASSUME NEW r \in Request, VerifyCommit(r) PROVE IInv'
    BY <1>6, VerifyCommitInv
  <1>7. ASSUME NEW r \in Request, Refused(r) \/ Deadlock(r) \/ Abort(r) PROVE IInv'
    <2>1. End(r) /\ UNCHANGED <<acct, tok, next, fresh, ghosts>>
      BY <1>7 DEF Refused, Deadlock, Abort
    <2> QED BY <2>1, EndInv
  <1>8. ASSUME NEW u \in User, Delete(u) \/ CooldownPasses(u) \/ DayPasses(u) PROVE IInv'
    BY <1>8, DeleteInv, CooldownPassesInv, DayPassesInv
  <1>9. ASSUME NEW t \in Token, Expire(t) PROVE IInv'
    BY <1>9, ExpireInv
  <1>10. CASE UNCHANGED vars
    BY <1>10
       DEF vars, ghosts, IInv, TypeOK, TokensOK, FreshOK, RoomLeft, Issuers, Alone, HandlersOK,
           Knows, HandlerOK, ReliesOn, PatientsOK, AccountOK, Owned, Unused, Of, Exists
  <1> QED
    BY <1>1, <1>2, <1>3, <1>4, <1>5, <1>6, <1>7, <1>8, <1>9, <1>10 DEF Next

\* The invariant holds in every behaviour.
LEMMA Invariant == Spec => []IInv
  BY InitInv, NextInv, PTL DEF Spec

\* Type correctness of the tables, the handlers and the ghosts.
THEOREM TypeCorrect == Spec => []TypeOK
  <1>1. IInv => TypeOK
    BY DEF IInv
  <1> QED BY <1>1, Invariant, PTL

\* services/verification.py and routers/users.py, for any number of accounts,
\* handlers and links: an account whose requests do not overlap is never verified
\* for an address it has not shown to own, whatever the others do.
THEOREM PatientOwns == Spec => []PatientVerifiedMeansOwned
  <1>1. IInv => PatientVerifiedMeansOwned
    BY DEF IInv, PatientsOK, AccountOK, PatientVerifiedMeansOwned
  <1> QED BY <1>1, Invariant, PTL

\* services/verification.py and routers/users.py: such an account has at most one
\* link that works, changes its address at most once a day, and every address it
\* had was warned.
THEOREM PatientSafe == Spec => []PatientAccountIsSafe
  <1>1. ASSUME IInv PROVE PatientAccountIsSafe
    <2>1. ASSUME NEW u \in Patient PROVE Cardinality(Unused(u)) <= 1
      <3>1. \A s, t \in Unused(u) : s = t
        BY <1>1 DEF IInv, PatientsOK, AccountOK
      <3>2. CASE Unused(u) = {}
        BY <3>2, FS_EmptySet
      <3>3. CASE Unused(u) # {}
        <4>1. PICK t \in Unused(u) : TRUE
          BY <3>3
        <4>2. Unused(u) = {t}
          BY <3>1
        <4> QED BY <4>2, FS_Singleton
      <3> QED BY <3>2, <3>3
    <2>2. OneChangeADay /\ OldAddressIsWarned
      BY <1>1 DEF IInv, PatientsOK, AccountOK, OneChangeADay, OldAddressIsWarned
    <2> QED BY <2>1, <2>2 DEF PatientAccountIsSafe, OnlyNewestLinkWorks
  <1> QED BY <1>1, Invariant, PTL
=============================================================================
