--------------------------- MODULE AccountsProofs ---------------------------
(***************************************************************************)
(* Proofs about Accounts: one account has the address, every user has a    *)
(* wallet, a late refresh is refused, and what brings a deleted account    *)
(* back, for any rows and any number of requests, tokens and failures.     *)
(***************************************************************************)
EXTENDS Accounts, FiniteSetTheorems, TLAPS

\* What a request has read of its row, which it may save whole.
ReadAgrees ==
  \A r \in Requests : At(r, "saves") =>
    /\ request[r].read.exists
    /\ request[r].read.token # None =>
         /\ request[r].read.token \in DOMAIN owner
         /\ owner[request[r].read.token] = request[r].of

\* A row is there for all who act on it, but for the one who inserts it.
RowsAgree ==
  /\ \A r \in Requests : ~At(r, "idle") => request[r].of \in Users
  /\ \A r \in Requests : request[r].at \notin {"idle", "inserts"} =>
       user[request[r].of].exists
  /\ \A r \in Requests : At(r, "inserts") =>
       /\ ~user[request[r].of].exists
       /\ \A q \in Requests \ {r} : request[q].of # request[r].of
  /\ \A t \in DOMAIN owner : user[owner[t]].exists

\* A token that was replaced is not stored again, and a refresh that came
\* late has such a token or finds the account deleted.
TokensAgree ==
  ~restored =>
    /\ \A u \in Users : user[u].token \notin spent
    /\ \A r \in Requests : request[r].kind = "refresh" /\ request[r].late =>
         /\ request[r].at \in {"guards", "compares"}
         /\ request[r].token \in spent \/ user[request[r].of].deleted

IInv ==
  /\ TypeOK /\ ReadAgrees /\ RowsAgree /\ TokensAgree
  /\ OneUserPerName /\ WalletUnlessInterrupted

----------------------------------------------------------------------------
Work == [at : Labels, kind : Kinds, of : Users \cup {NoUser}, read : Row,
         token : Tokens \cup {None}, late : BOOLEAN]

LEMMA NoRowType == NoRow \in Row /\ ~NoRow.exists /\ ~NoRow.named /\ NoRow.token = None
BY DEF NoRow, Row

LEMMA IdleType ==
  Idle \in Work /\ Idle.at = "idle" /\ Idle.of = NoUser /\ Idle.kind = "none"
BY NoRowType DEF Idle, Work, Labels, Kinds

\* The tokens that were signed are the first of all.
LEMMA OwnerType ==
  ASSUME TypeOK
  PROVE  /\ DOMAIN owner \subseteq Tokens
         /\ \A t \in DOMAIN owner : owner[t] \in Users
         /\ Cardinality(DOMAIN owner) + 1 \in Nat \ {0}
         /\ Cardinality(DOMAIN owner) + 1 \notin DOMAIN owner
         /\ DOMAIN owner = 1 .. Cardinality(DOMAIN owner)
<1>1. PICK n \in 0 .. MaxTokens : owner \in [1 .. n -> Users]
  BY DEF TypeOK
<1>2. n \in Nat /\ DOMAIN owner = 1 .. n
  BY <1>1, MaxTokensAssumption
<1>3. Cardinality(1 .. n) = n
  <2>1. Cardinality(1 .. n) = IF 1 > n THEN 0 ELSE n - 1 + 1
    BY <1>2, FS_Interval
  <2> QED BY <1>2, <2>1
<1> QED BY <1>1, <1>2, <1>3, MaxTokensAssumption DEF Tokens

LEMMA InitInvariant == Init => IInv
<1> SUFFICES ASSUME Init PROVE IInv
  OBVIOUS
<1>1. /\ \A u \in Users : user[u] = NoRow
      /\ \A r \in Requests : request[r] = Idle
      /\ DOMAIN owner = {} /\ spent = {}
  BY DEF Init
<1>2. TypeOK
  <2>1. user \in [Users -> Row] /\ request \in [Requests -> Work]
    BY NoRowType, IdleType DEF Init
  <2>2. 0 \in 0 .. MaxTokens /\ owner \in [1 .. 0 -> Users]
    BY MaxTokensAssumption DEF Init
  <2>3. unfinished \subseteq Users /\ restored \in BOOLEAN /\ spent \subseteq DOMAIN owner
    BY DEF Init
  <2> QED BY <1>1, <2>1, <2>2, <2>3, NoRowType DEF TypeOK, Work
<1>3. ReadAgrees /\ RowsAgree
  BY <1>1, IdleType DEF ReadAgrees, RowsAgree, At
<1>4. TokensAgree
  BY <1>1, IdleType DEF TokensAgree
<1>5. OneUserPerName /\ WalletUnlessInterrupted
  BY <1>1, NoRowType DEF OneUserPerName, WalletUnlessInterrupted
<1> QED BY <1>2, <1>3, <1>4, <1>5 DEF IInv

----------------------------------------------------------------------------
(***************************************************************************)
(* Steps that change no row.                                               *)
(***************************************************************************)
\* A request takes another step, or another request begins in its place.
LEMMA RequestMoves ==
  ASSUME IInv, UNCHANGED <<user, owner, spent, restored, unfinished>>,
         NEW r \in Requests, NEW q \in Work,
         request' = [request EXCEPT ![r] = q], ~At(r, "wallet"),
         q.at = "idle" => q = Idle,
         q.at # "idle" => q.of \in Users,
         q.at \notin {"idle", "inserts"} => user[q.of].exists,
         q.at = "inserts" =>
           ~user[q.of].exists /\ \A p \in Requests \ {r} : request[p].of # q.of,
         q.at = "saves" =>
           /\ q.read.exists
           /\ q.read.token # None =>
                q.read.token \in DOMAIN owner /\ owner[q.read.token] = q.of,
         q.kind = "refresh" /\ q.late /\ ~restored =>
           /\ q.at \in {"guards", "compares"}
           /\ q.token \in spent \/ user[q.of].deleted
  PROVE  IInv'
<1>1. request \in [Requests -> Work]
  BY DEF IInv, TypeOK, Work
<1>2. request'[r] = q /\ \A p \in Requests \ {r} : request'[p] = request[p]
  BY <1>1
<1>3. TypeOK'
  <2>1. request' \in [Requests -> Work]
    BY <1>1
  <2> QED BY <2>1 DEF IInv, TypeOK, Work
<1>4. ReadAgrees'
  BY <1>2 DEF IInv, ReadAgrees, At
<1>5. RowsAgree'
  <2>1. \A p \in Requests : ~At(p, "idle")' => request'[p].of \in Users
    BY <1>2 DEF IInv, RowsAgree, At
  <2>2. \A p \in Requests : request'[p].at \notin {"idle", "inserts"} =>
          user'[request'[p].of].exists
    BY <1>2 DEF IInv, RowsAgree
  <2>3. ASSUME NEW p \in Requests, At(p, "inserts")'
        PROVE  /\ ~user'[request'[p].of].exists
               /\ \A s \in Requests \ {p} : request'[s].of # request'[p].of
    <3>1. CASE p = r
      BY <1>2, <2>3, <3>1 DEF At
    <3>2. CASE p # r
      <4>1. /\ request'[p] = request[p] /\ At(p, "inserts")
            /\ ~user[request[p].of].exists /\ request[p].of \in Users
            /\ \A s \in Requests \ {p} : request[s].of # request[p].of
        BY <1>2, <2>3, <3>2 DEF IInv, RowsAgree, At
      <4>2. q.of # request[p].of
        <5>1. CASE q.at = "idle"
          BY <4>1, <5>1, IdleType, NoUserAssumption
        <5>2. CASE q.at = "inserts"
          BY <3>2, <5>2
        <5>3. CASE q.at \notin {"idle", "inserts"}
          BY <4>1, <5>3
        <5> QED BY <5>1, <5>2, <5>3
      <4> QED BY <1>2, <4>1, <4>2
    <3> QED BY <3>1, <3>2
  <2>4. \A t \in DOMAIN owner' : user'[owner'[t]].exists
    BY DEF IInv, RowsAgree
  <2> QED BY <2>1, <2>2, <2>3, <2>4 DEF RowsAgree
<1>6. TokensAgree'
  BY <1>2 DEF IInv, TokensAgree
<1>7. OneUserPerName'
  BY DEF IInv, OneUserPerName
<1>8. WalletUnlessInterrupted'
  BY <1>2 DEF IInv, WalletUnlessInterrupted, At
<1> QED BY <1>3, <1>4, <1>5, <1>6, <1>7, <1>8 DEF IInv

LEMMA EndsInvariant ==
  ASSUME IInv, UNCHANGED <<user, owner, spent, restored, unfinished>>,
         NEW r \in Requests, ~At(r, "wallet"), Ends(r)
  PROVE  IInv'
<1>1. Idle \in Work /\ Idle.at = "idle" /\ Idle.kind = "none"
  BY IdleType
<1> QED BY <1>1, RequestMoves DEF Ends

\* A request on a row that is there, and reads it.
LEMMA BeginsInvariant ==
  ASSUME IInv, NEW r \in Requests, NEW u \in Users,
         NEW kind \in Kinds, NEW l \in Labels \ {"idle", "inserts"},
         NEW t \in Tokens \cup {None}, NEW late \in BOOLEAN,
         Begins(r, kind, u, l, t, late), user[u].exists,
         kind = "refresh" /\ late => l = "guards" /\ (t \in spent \/ user[u].deleted)
  PROVE  IInv'
<1> DEFINE q == [at |-> l, kind |-> kind, of |-> u, read |-> user[u],
                 token |-> t, late |-> late]
<1>1. q \in Work
  BY DEF IInv, TypeOK, Work
<1>2. /\ UNCHANGED <<user, owner, spent, restored, unfinished>>
      /\ request' = [request EXCEPT ![r] = q] /\ ~At(r, "wallet")
  BY DEF Begins, At
<1>3. user[u].token # None => user[u].token \in DOMAIN owner /\ owner[user[u].token] = u
  BY DEF IInv, TypeOK
<1> QED BY <1>1, <1>2, <1>3, RequestMoves

LEMMA RegisterInvariant ==
  ASSUME IInv, NEW r \in Requests, NEW u \in Users,
         Register(r, u) \/ RegisterWithGoogle(r, u)
  PROVE  IInv'
<1>1. PICK kind \in {"register", "google"} :
        Unused(u) /\ Begins(r, kind, u, "inserts", None, FALSE)
  BY DEF Register, RegisterWithGoogle
<1> DEFINE q == [at |-> "inserts", kind |-> kind, of |-> u, read |-> user[u],
                 token |-> None, late |-> FALSE]
<1>2. q \in Work
  BY DEF IInv, TypeOK, Work, Labels, Kinds
<1>3. /\ UNCHANGED <<user, owner, spent, restored, unfinished>>
      /\ request' = [request EXCEPT ![r] = q] /\ ~At(r, "wallet")
  BY <1>1 DEF Begins, At
<1>4. ~user[u].exists /\ \A p \in Requests \ {r} : request[p].of # u
  BY <1>1 DEF Unused
<1> QED BY <1>2, <1>3, <1>4, RequestMoves

LEMMA SessionBeginsInvariant ==
  ASSUME IInv, NEW r \in Requests, NEW u \in Users,
         \/ Login(r, u) \/ LoginWithGoogle(r, u) \/ Logout(r, u)
         \/ Delete(r, u) \/ ChangeSettings(r, u)
  PROVE  IInv'
<1>1. PICK kind \in Kinds \ {"refresh"}, l \in Labels \ {"idle", "inserts"} :
        Begins(r, kind, u, l, None, FALSE)
  BY DEF Login, LoginWithGoogle, Logout, Delete, ChangeSettings, Kinds, Labels
<1>2. user[u].exists
  BY DEF Login, LoginWithGoogle, Logout, Delete, ChangeSettings, Allowed
<1> QED BY <1>1, <1>2, BeginsInvariant

LEMMA RefreshInvariant ==
  ASSUME IInv, NEW r \in Requests, NEW t \in Tokens, Refresh(r, t)
  PROVE  IInv'
<1>1. t \in DOMAIN owner /\ owner[t] \in Users /\ user[owner[t]].exists
  BY OwnerType DEF IInv, RowsAgree, Refresh
<1>2. user[owner[t]] \in Row
  BY <1>1 DEF IInv, TypeOK
<1>3. (t \in spent \/ user[owner[t]].deleted) \in BOOLEAN
  OBVIOUS
<1>4. Begins(r, "refresh", owner[t], "guards", t, t \in spent \/ user[owner[t]].deleted)
  BY DEF Refresh
<1>5. "refresh" \in Kinds /\ "guards" \in Labels \ {"idle", "inserts"}
  BY DEF Kinds, Labels
<1> QED BY <1>1, <1>3, <1>4, <1>5, BeginsInvariant

\* A request goes on, as it is, to a step that acts on its row.
LEMMA GoesInvariant ==
  ASSUME IInv, UNCHANGED <<user, owner, spent, restored, unfinished>>,
         NEW r \in Requests, NEW l \in {"compares", "stores", "clears"}, Goes(r, l),
         request[r].at \in {"guards", "compares"},
         request[r].kind = "refresh" /\ request[r].late /\ ~restored => l = "compares"
  PROVE  IInv'
<1> DEFINE q == [request[r] EXCEPT !.at = l]
<1>1. request[r] \in Work
  BY DEF IInv, TypeOK, Work
<1>2. /\ q \in Work /\ q.at = l /\ q.of = request[r].of /\ q.kind = request[r].kind
      /\ q.late = request[r].late /\ q.token = request[r].token
  BY <1>1 DEF Work, Labels
<1>3. user[q.of].exists /\ q.of \in Users
  BY <1>2 DEF IInv, RowsAgree, At
<1>4. q.kind = "refresh" /\ q.late /\ ~restored =>
        q.at \in {"guards", "compares"} /\ (q.token \in spent \/ user[q.of].deleted)
  BY <1>2 DEF IInv, TokensAgree
<1>5. request' = [request EXCEPT ![r] = q] /\ ~At(r, "wallet")
  BY <1>1 DEF Goes, At
<1> HIDE DEF q
<1> QED BY <1>2, <1>3, <1>4, <1>5, RequestMoves

\* The guard: a late refresh does not pass the second look.
LEMMA GuardInvariant ==
  ASSUME IInv, NEW r \in Requests, GuardUser(r) \/ CompareToken(r)
  PROVE  IInv'
<1>1. UNCHANGED <<user, owner, spent, restored, unfinished>> /\ ~At(r, "wallet")
  BY DEF GuardUser, CompareToken, At
<1>2. CASE Ends(r)
  BY <1>1, <1>2, EndsInvariant
<1>3. CASE At(r, "guards") /\ Goes(r, "compares")
  BY <1>1, <1>3, GoesInvariant DEF At
<1>4. CASE At(r, "compares") /\ Stored(r) /\ (Goes(r, "stores") \/ Goes(r, "clears"))
  <2>1. request[r].of \in Users
    BY <1>4 DEF IInv, RowsAgree, At
  <2>2. ~(request[r].kind = "refresh" /\ request[r].late /\ ~restored)
    BY <1>4, <2>1 DEF IInv, TokensAgree, Stored, Allowed
  <2> QED BY <1>1, <1>4, <2>2, GoesInvariant DEF At
<1> QED BY <1>2, <1>3, <1>4 DEF GuardUser, CompareToken

----------------------------------------------------------------------------
(***************************************************************************)
(* Steps that write a row.                                                 *)
(***************************************************************************)
\* The requests may end; the one that inserts a row, or its wallet, goes on.
LEMMA RowInvariant ==
  ASSUME IInv, UNCHANGED unfinished,
         NEW u \in Users, NEW row \in Row, user' = [user EXCEPT ![u] = row],
         row.exists,
         \E n \in 0 .. MaxTokens : owner' \in [1 .. n -> Users],
         \A t \in DOMAIN owner : t \in DOMAIN owner' /\ owner'[t] = owner[t],
         \A t \in DOMAIN owner' : t \in DOMAIN owner \/ owner'[t] = u,
         spent' = SpentBy(u, row.token),
         row.token # None => row.token \in DOMAIN owner' /\ owner'[row.token] = u,
         row.named => \A v \in Users \ {u} : ~(user[v].exists /\ user[v].named),
         restored' \in BOOLEAN,
         ~restored' =>
           /\ ~restored /\ (user[u].deleted => row.deleted)
           /\ row.token \in {None, user[u].token} \/ row.token \notin DOMAIN owner,
         request' \in [Requests -> Work],
         \A p \in Requests :
           \/ request'[p] = request[p] \/ request'[p] = Idle
           \/ /\ request'[p].of = u /\ request'[p].at \in {"wallet", "stores"}
              /\ ~restored' => ~(request'[p].kind = "refresh" /\ request'[p].late),
         \A p \in Requests : At(p, "inserts") /\ request[p].of = u =>
           request'[p].at # "inserts",
         \A p \in Requests : At(p, "wallet") /\ request[p].of # u =>
           request'[p] = request[p],
         \/ row.wallet \/ u \in unfinished
         \/ \E p \in Requests : request'[p].of = u /\ At(p, "wallet")'
  PROVE  IInv'
<1>1. /\ user' \in [Users -> Row] /\ user'[u] = row
      /\ \A v \in Users \ {u} : user'[v] = user[v]
      /\ \A v \in Users : user[v].exists => user'[v].exists
  BY DEF IInv, TypeOK
<1>2. /\ spent \subseteq spent' /\ spent \subseteq DOMAIN owner /\ None \notin spent'
      /\ \A t \in spent' : t \in spent \/ (t = user[u].token /\ t # row.token /\ t # None)
  BY OwnerType DEF IInv, TypeOK, SpentBy, Tokens, None
<1>3. \A v \in Users : user[v].token # None =>
        user[v].token \in DOMAIN owner /\ owner[user[v].token] = v
  BY DEF IInv, TypeOK
<1>4. TypeOK'
  <2>1. \A v \in Users : ~user'[v].exists => user'[v] = NoRow
    BY <1>1 DEF IInv, TypeOK
  <2>2. \A v \in Users : user'[v].token # None =>
          user'[v].token \in DOMAIN owner' /\ owner'[user'[v].token] = v
    BY <1>1, <1>3
  <2>3. spent' \subseteq DOMAIN owner'
    BY <1>2, <1>3
  <2>4. unfinished' \subseteq Users
    BY DEF IInv, TypeOK
  <2> QED BY <1>1, <2>1, <2>2, <2>3, <2>4 DEF TypeOK, Work
<1>5. ReadAgrees'
  BY IdleType DEF IInv, ReadAgrees, At
<1>6. RowsAgree'
  <2>1. \A p \in Requests : ~At(p, "idle")' => request'[p].of \in Users
    BY IdleType DEF IInv, RowsAgree, At
  <2>2. \A p \in Requests : request'[p].at \notin {"idle", "inserts"} =>
          user'[request'[p].of].exists
    <3> SUFFICES ASSUME NEW p \in Requests, request'[p].at \notin {"idle", "inserts"}
                 PROVE  user'[request'[p].of].exists
      OBVIOUS
    <3>1. request'[p].of \in Users
      BY <2>1 DEF At
    <3>2. request'[p].of = u \/ user[request'[p].of].exists
      BY IdleType DEF IInv, RowsAgree
    <3> QED BY <1>1, <3>1, <3>2
  <2>3. ASSUME NEW p \in Requests, At(p, "inserts")'
        PROVE  /\ ~user'[request'[p].of].exists
               /\ \A s \in Requests \ {p} : request'[s].of # request'[p].of
    <3>1. request'[p] = request[p] /\ At(p, "inserts") /\ request[p].of \in Users \ {u}
      BY <2>1, <2>3, IdleType DEF At
    <3>2. /\ ~user[request[p].of].exists
          /\ \A s \in Requests \ {p} : request[s].of # request[p].of
      BY <3>1 DEF IInv, RowsAgree
    <3>3. \A s \in Requests \ {p} : request'[s].of # request[p].of
      BY <3>1, <3>2, IdleType, NoUserAssumption
    <3> QED BY <1>1, <3>1, <3>2, <3>3
  <2>4. \A t \in DOMAIN owner' : user'[owner'[t]].exists
    <3> SUFFICES ASSUME NEW t \in DOMAIN owner' PROVE user'[owner'[t]].exists
      OBVIOUS
    <3>1. CASE t \in DOMAIN owner
      BY <1>1, <3>1, OwnerType DEF IInv, RowsAgree
    <3>2. CASE owner'[t] = u
      BY <1>1, <3>2
    <3> QED BY <3>1, <3>2
  <2> QED BY <2>1, <2>2, <2>3, <2>4 DEF RowsAgree
<1>7. TokensAgree'
  <2> SUFFICES ASSUME ~restored'
               PROVE  /\ \A v \in Users : user'[v].token \notin spent'
                      /\ \A p \in Requests :
                           request'[p].kind = "refresh" /\ request'[p].late =>
                             /\ request'[p].at \in {"guards", "compares"}
                             /\ \/ request'[p].token \in spent'
                                \/ user'[request'[p].of].deleted
    BY DEF TokensAgree
  <2>1. \A v \in Users : user[v].token \notin spent
    BY DEF IInv, TokensAgree
  <2>2. row.token \notin spent'
    BY <1>2, <2>1
  <2>3. \A v \in Users \ {u} : user[v].token \notin spent'
    BY <1>2, <1>3, <2>1
  <2>4. ASSUME NEW p \in Requests, request'[p].kind = "refresh", request'[p].late
        PROVE  /\ request'[p].at \in {"guards", "compares"}
               /\ request'[p].token \in spent' \/ user'[request'[p].of].deleted
    <3>1. request'[p] = request[p]
      BY <2>4, IdleType
    <3>2. /\ request[p].at \in {"guards", "compares"}
          /\ request[p].token \in spent \/ user[request[p].of].deleted
      BY <2>4, <3>1 DEF IInv, TokensAgree
    <3>3. request[p].of \in Users
      BY <3>2 DEF IInv, RowsAgree, At
    <3> QED BY <1>1, <1>2, <3>1, <3>2, <3>3
  <2> QED BY <1>1, <2>2, <2>3, <2>4
<1>8. OneUserPerName'
  BY <1>1 DEF IInv, OneUserPerName
<1>9. WalletUnlessInterrupted'
  <2> SUFFICES ASSUME NEW v \in Users, user'[v].exists, ~user'[v].wallet
               PROVE  \/ v \in unfinished'
                      \/ \E p \in Requests : request'[p].of = v /\ At(p, "wallet")'
    BY DEF WalletUnlessInterrupted, At
  <2>1. CASE v = u
    BY <1>1, <2>1
  <2>2. CASE v # u
    BY <1>1, <2>2 DEF IInv, WalletUnlessInterrupted, At
  <2> QED BY <2>1, <2>2
<1> QED BY <1>4, <1>5, <1>6, <1>7, <1>8, <1>9 DEF IInv

\* A request on a row, which may end it.
LEMMA RequestTypes ==
  ASSUME IInv, NEW r \in Requests
  PROVE  /\ request \in [Requests -> Work]
         /\ [request EXCEPT ![r] = Idle] \in [Requests -> Work]
         /\ ~At(r, "idle") => request[r].of \in Users /\ user[request[r].of] \in Row
         /\ \E n \in 0 .. MaxTokens : owner \in [1 .. n -> Users]
         /\ restored \in BOOLEAN
         /\ \A u \in Users : user[u].token # None =>
              user[u].token \in DOMAIN owner /\ owner[user[u].token] = u
BY IdleType DEF IInv, TypeOK, RowsAgree, Work

\* A row that is there, of which a column other than the token changes.
LEMMA ColumnInvariant ==
  ASSUME IInv, NEW u \in Users, NEW row \in Row, user[u].exists,
         user' = [user EXCEPT ![u] = row], row.exists,
         UNCHANGED <<request, owner, spent, restored, unfinished>>,
         row.token = user[u].token, row.named = user[u].named,
         row.deleted = user[u].deleted, row.wallet = user[u].wallet
  PROVE  IInv'
<1>1. spent' = SpentBy(u, row.token)
  BY DEF SpentBy
<1>2. row.named => \A v \in Users \ {u} : ~(user[v].exists /\ user[v].named)
  BY DEF IInv, OneUserPerName
<1>3. \A p \in Requests : At(p, "inserts") => request[p].of # u
  BY DEF IInv, RowsAgree
<1>4. /\ request' \in [Requests -> Work] /\ restored' \in BOOLEAN
      /\ \E n \in 0 .. MaxTokens : owner' \in [1 .. n -> Users]
      /\ row.token # None => row.token \in DOMAIN owner' /\ owner'[row.token] = u
  BY DEF IInv, TypeOK, Work
<1>5. \/ row.wallet \/ u \in unfinished
      \/ \E p \in Requests : request'[p].of = u /\ At(p, "wallet")'
  BY DEF IInv, WalletUnlessInterrupted, At
<1> QED BY <1>1, <1>2, <1>3, <1>4, <1>5, RowInvariant

LEMMA AdminInvariant ==
  ASSUME IInv, NEW u \in Users, Verify(u) \/ \E b \in BOOLEAN : SetStatus(u, b)
  PROVE  IInv'
<1>1. user[u] \in Row /\ user[u].exists
  BY DEF IInv, TypeOK, Verify, SetStatus
<1>2. CASE Verify(u)
  <2> DEFINE row == [user[u] EXCEPT !.verified = TRUE]
  <2>1. /\ row \in Row /\ row.exists /\ row.token = user[u].token
        /\ row.named = user[u].named /\ row.deleted = user[u].deleted
        /\ row.wallet = user[u].wallet
    BY <1>1 DEF Row
  <2>2. user' = [user EXCEPT ![u] = row]
    BY <1>2 DEF Verify
  <2> HIDE DEF row
  <2> QED BY <1>1, <1>2, <2>1, <2>2, ColumnInvariant DEF Verify
<1>3. ASSUME NEW b \in BOOLEAN, SetStatus(u, b) PROVE IInv'
  <2> DEFINE row == [user[u] EXCEPT !.active = b]
  <2>1. /\ row \in Row /\ row.exists /\ row.token = user[u].token
        /\ row.named = user[u].named /\ row.deleted = user[u].deleted
        /\ row.wallet = user[u].wallet
    BY <1>1 DEF Row
  <2>2. user' = [user EXCEPT ![u] = row]
    BY <1>3 DEF SetStatus
  <2> HIDE DEF row
  <2> QED BY <1>1, <1>3, <2>1, <2>2, ColumnInvariant DEF SetStatus
<1> QED BY <1>2, <1>3

\* The row is inserted where no account has the address.
LEMMA InsertInvariant ==
  ASSUME IInv, NEW r \in Requests, Insert(r)
  PROVE  IInv'
<1>1. At(r, "inserts") /\ ~At(r, "wallet") /\ ~At(r, "idle")
  BY DEF Insert, At
<1>2. CASE NameTaken
  BY <1>1, <1>2, EndsInvariant DEF Insert
<1>3. CASE ~NameTaken
  <2> DEFINE u == request[r].of
             row == NewRow(request[r].kind)
             q == [request[r] EXCEPT !.at = "wallet"]
  <2>1. u \in Users /\ ~user[u].exists /\ user[u] = NoRow
        /\ \A p \in Requests \ {r} : request[p].of # u
    BY <1>1 DEF IInv, RowsAgree, TypeOK
  <2>2. row \in Row /\ row.exists /\ row.token = None
    BY NoRowType DEF NewRow, NoRow, Row
  <2>3. /\ user' = [user EXCEPT ![u] = row] /\ request' = [request EXCEPT ![r] = q]
        /\ UNCHANGED <<owner, spent, unfinished, restored>>
    BY <1>3 DEF Insert, Goes
  <2>4. request \in [Requests -> Work] /\ q \in Work /\ q.at = "wallet" /\ q.of = u
    <3>1. request \in [Requests -> Work] /\ request[r] \in Work
      BY DEF IInv, TypeOK, Work
    <3> QED BY <3>1 DEF Work, Labels
  <2>5. ~restored' => ~(q.kind = "refresh" /\ q.late)
    <3>1. request[r] \in Work
      BY <2>4
    <3>2. q.kind = request[r].kind /\ q.late = request[r].late
      BY <3>1 DEF Work
    <3> QED BY <1>1, <2>3, <3>2 DEF IInv, TokensAgree, At
  <2>6. spent' = SpentBy(u, row.token)
    BY <2>1, <2>2, <2>3, NoRowType DEF SpentBy
  <2>7. \A v \in Users \ {u} : ~(user[v].exists /\ user[v].named)
    BY <1>3 DEF NameTaken
  <2>8. /\ restored' \in BOOLEAN /\ \E n \in 0 .. MaxTokens : owner' \in [1 .. n -> Users]
        /\ ~restored' => ~restored /\ (user[u].deleted => row.deleted)
    BY <2>1, <2>3 DEF IInv, TypeOK, NoRow
  <2>9. request' \in [Requests -> Work] /\ request'[r] = q
        /\ \A p \in Requests \ {r} : request'[p] = request[p]
    BY <2>3, <2>4
  <2> HIDE DEF u, row, q
  <2>10. /\ \A p \in Requests : At(p, "inserts") /\ request[p].of = u =>
              request'[p].at # "inserts"
         /\ \A p \in Requests : At(p, "wallet") => request'[p] = request[p]
         /\ request'[r].of = u /\ At(r, "wallet")'
    BY <1>1, <2>1, <2>4, <2>9 DEF At
  <2>11. \A p \in Requests :
           \/ request'[p] = request[p] \/ request'[p] = Idle
           \/ /\ request'[p].of = u /\ request'[p].at \in {"wallet", "stores"}
              /\ ~restored' => ~(request'[p].kind = "refresh" /\ request'[p].late)
    BY <2>4, <2>5, <2>9
  <2> QED BY <2>1, <2>2, <2>3, <2>6, <2>7, <2>8, <2>9, <2>10, <2>11, RowInvariant
<1> QED BY <1>2, <1>3

LEMMA CreateWalletInvariant ==
  ASSUME IInv, NEW r \in Requests, CreateWallet(r)
  PROVE  IInv'
<1> DEFINE u == request[r].of
           row == [user[u] EXCEPT !.wallet = TRUE]
           q == IF request[r].kind = "google"
                  THEN [request[r] EXCEPT !.at = "stores"] ELSE Idle
<1>1. At(r, "wallet") /\ UNCHANGED <<owner, spent, unfinished, restored>>
  BY DEF CreateWallet
<1>2. u \in Users /\ user[u] \in Row /\ user[u].exists
  BY <1>1 DEF IInv, RowsAgree, TypeOK, At
<1>3. /\ row \in Row /\ row.exists /\ row.wallet /\ row.token = user[u].token
      /\ row.named = user[u].named /\ row.deleted = user[u].deleted
  BY <1>2 DEF Row
<1>4. request \in [Requests -> Work] /\ request[r] \in Work
  BY DEF IInv, TypeOK, Work
<1>5. q \in Work /\ (q = Idle \/ (q.at = "stores" /\ q.of = u /\ q.kind = "google"))
  BY <1>4, IdleType DEF Work, Labels
<1>6. user' = [user EXCEPT ![u] = row] /\ request' = [request EXCEPT ![r] = q]
  BY <1>2, <1>4 DEF CreateWallet, Goes, Ends
<1> HIDE DEF row, q
<1>7. /\ request' \in [Requests -> Work] /\ request'[r] = q
      /\ \A p \in Requests \ {r} : request'[p] = request[p]
  BY <1>4, <1>5, <1>6
<1>8. /\ spent' = SpentBy(u, row.token)
      /\ row.named => \A v \in Users \ {u} : ~(user[v].exists /\ user[v].named)
  BY <1>1, <1>2, <1>3 DEF SpentBy, IInv, OneUserPerName
<1>9. /\ restored' \in BOOLEAN /\ \E n \in 0 .. MaxTokens : owner' \in [1 .. n -> Users]
      /\ row.token # None => row.token \in DOMAIN owner' /\ owner'[row.token] = u
  BY <1>1, <1>2, <1>3 DEF IInv, TypeOK
<1>10. /\ \A p \in Requests : At(p, "inserts") /\ request[p].of = u =>
            request'[p].at # "inserts"
       /\ \A p \in Requests : At(p, "wallet") /\ request[p].of # u =>
            request'[p] = request[p]
  BY <1>2, <1>7 DEF IInv, RowsAgree, At
<1>11. \A p \in Requests :
         \/ request'[p] = request[p] \/ request'[p] = Idle
         \/ /\ request'[p].of = u /\ request'[p].at \in {"wallet", "stores"}
            /\ ~restored' => ~(request'[p].kind = "refresh" /\ request'[p].late)
  BY <1>5, <1>7
<1> HIDE DEF u
<1> QED BY <1>1, <1>2, <1>3, <1>6, <1>7, <1>8, <1>9, <1>10, <1>11, RowInvariant

\* A request writes a row that is there, and ends.
LEMMA WriteInvariant ==
  ASSUME IInv, UNCHANGED unfinished, NEW r \in Requests,
         NEW u \in Users, u = request[r].of,
         request[r].at \in {"stores", "clears", "saves"}, Ends(r),
         NEW row \in Row, user' = [user EXCEPT ![u] = row], row.exists,
         \E n \in 0 .. MaxTokens : owner' \in [1 .. n -> Users],
         \A t \in DOMAIN owner : t \in DOMAIN owner' /\ owner'[t] = owner[t],
         \A t \in DOMAIN owner' : t \in DOMAIN owner \/ owner'[t] = u,
         spent' = SpentBy(u, row.token),
         row.token # None =>
           row.token \in DOMAIN owner' /\ owner'[row.token] = u,
         row.named =>
           \A v \in Users \ {u} : ~(user[v].exists /\ user[v].named),
         row.wallet = user[u].wallet,
         restored' \in BOOLEAN,
         ~restored' =>
           /\ ~restored /\ (user[u].deleted => row.deleted)
           /\ \/ row.token \in {None, user[u].token}
              \/ row.token \notin DOMAIN owner
  PROVE  IInv'
<1>1. user[u].exists /\ ~At(r, "wallet")
  BY DEF IInv, RowsAgree, At
<1>2. request \in [Requests -> Work]
  BY DEF IInv, TypeOK, Work
<1>3. /\ request' \in [Requests -> Work] /\ request'[r] = Idle
      /\ \A p \in Requests \ {r} : request'[p] = request[p]
  BY <1>2, IdleType DEF Ends
<1>4. /\ \A p \in Requests : At(p, "inserts") => request[p].of # u
      /\ \A p \in Requests : At(p, "wallet") => request'[p] = request[p]
  BY <1>1, <1>3 DEF IInv, RowsAgree, At
<1>5. \/ row.wallet \/ u \in unfinished
      \/ \E p \in Requests : request'[p].of = u /\ At(p, "wallet")'
  BY <1>1, <1>4 DEF IInv, WalletUnlessInterrupted, At
<1>6. \A p \in Requests : request'[p] = request[p] \/ request'[p] = Idle
  BY <1>3
<1> QED BY <1>1, <1>3, <1>4, <1>5, <1>6, RowInvariant

LEMMA StoreTokenInvariant ==
  ASSUME IInv, NEW r \in Requests, StoreToken(r)
  PROVE  IInv'
<1> DEFINE u == request[r].of
           t == Cardinality(DOMAIN owner) + 1
           row == [user[u] EXCEPT !.token = t]
<1>1. At(r, "stores") /\ Ends(r) /\ UNCHANGED <<unfinished, restored>>
  BY DEF StoreToken
<1>2. u \in Users /\ user[u] \in Row /\ user[u].exists
  BY <1>1 DEF IInv, RowsAgree, TypeOK, At
<1>3. /\ t \in Nat \ {0} /\ t <= MaxTokens /\ t \notin DOMAIN owner
      /\ DOMAIN owner = 1 .. (t - 1) /\ t \in Tokens
      /\ \A s \in DOMAIN owner : owner[s] \in Users
  <2>1. Cardinality(DOMAIN owner) + 1 \in Nat \ {0} /\ t <= MaxTokens
    BY OwnerType DEF IInv, StoreToken
  <2>2. Cardinality(DOMAIN owner) = t - 1
    <3>1. DOMAIN owner \subseteq Tokens /\ IsFiniteSet(Tokens)
      BY OwnerType, FS_Interval, MaxTokensAssumption DEF IInv, Tokens
    <3>2. Cardinality(DOMAIN owner) \in Nat
      BY <3>1, FS_Subset, FS_CardinalityType
    <3> QED BY <3>2
  <2> QED BY <2>1, <2>2, OwnerType, MaxTokensAssumption DEF IInv, Tokens
<1>4. owner' = [s \in 1 .. t |-> IF s = t THEN u ELSE owner[s]]
  BY DEF StoreToken
<1>5. user' = [user EXCEPT ![u] = row] /\ spent' = SpentBy(u, t)
  BY DEF StoreToken
<1>6. /\ row \in Row /\ row.exists /\ row.token = t /\ row.wallet = user[u].wallet
      /\ row.named = user[u].named /\ row.deleted = user[u].deleted
  BY <1>2, <1>3 DEF Row
<1> HIDE DEF t, row
<1>7. /\ t \in 0 .. MaxTokens /\ owner' \in [1 .. t -> Users]
      /\ \A s \in DOMAIN owner : s \in DOMAIN owner' /\ owner'[s] = owner[s]
      /\ \A s \in DOMAIN owner' : s \in DOMAIN owner \/ owner'[s] = u
      /\ t \in DOMAIN owner' /\ owner'[t] = u
  BY <1>2, <1>3, <1>4, MaxTokensAssumption
<1>8. /\ row.named => \A v \in Users \ {u} : ~(user[v].exists /\ user[v].named)
      /\ restored' \in BOOLEAN
  BY <1>1, <1>2, <1>6 DEF IInv, OneUserPerName, TypeOK
<1> QED BY <1>1, <1>2, <1>3, <1>5, <1>6, <1>7, <1>8, WriteInvariant DEF At

LEMMA ClearTokenInvariant ==
  ASSUME IInv, NEW r \in Requests, ClearToken(r)
  PROVE  IInv'
<1> DEFINE u == request[r].of
           row == [user[u] EXCEPT !.token = None]
<1>1. At(r, "clears") /\ Ends(r) /\ UNCHANGED <<owner, unfinished, restored>>
  BY DEF ClearToken
<1>2. u \in Users /\ user[u] \in Row /\ user[u].exists
  BY <1>1 DEF IInv, RowsAgree, TypeOK, At
<1>3. user' = [user EXCEPT ![u] = row] /\ spent' = SpentBy(u, None)
  BY DEF ClearToken
<1>4. /\ row \in Row /\ row.exists /\ row.token = None /\ row.wallet = user[u].wallet
      /\ row.named = user[u].named /\ row.deleted = user[u].deleted
  BY <1>2 DEF Row
<1> HIDE DEF row
<1>5. /\ row.named => \A v \in Users \ {u} : ~(user[v].exists /\ user[v].named)
      /\ restored' \in BOOLEAN /\ \E n \in 0 .. MaxTokens : owner' \in [1 .. n -> Users]
  BY <1>1, <1>2, <1>4 DEF IInv, OneUserPerName, TypeOK
<1> QED BY <1>1, <1>2, <1>3, <1>4, <1>5, WriteInvariant DEF At

\* A row is saved as it was read, unless its address is another's by now.
LEMMA SaveRowInvariant ==
  ASSUME IInv, NEW r \in Requests, SaveRow(r)
  PROVE  IInv'
<1> DEFINE u == request[r].of
<1>1. /\ At(r, "saves") /\ ~At(r, "wallet") /\ Ends(r)
      /\ UNCHANGED <<owner, unfinished>>
  BY DEF SaveRow, At
<1>2. CASE Collides(r)
  BY <1>1, <1>2, EndsInvariant DEF SaveRow
<1>3. CASE ~Collides(r)
  <2>1. u \in Users /\ user[u] \in Row /\ request[r].read \in Row /\ request[r].read.exists
    BY <1>1 DEF IInv, RowsAgree, ReadAgrees, TypeOK, At
  <2>2. Saved(r) \in Row /\ Saved(r).exists /\ Saved(r).wallet = user[u].wallet
        /\ Saved(r).token \in {None, request[r].read.token}
    BY <2>1 DEF Saved, Row, None, Tokens
  <2>3. Saved(r).token # None =>
          Saved(r).token \in DOMAIN owner' /\ owner'[Saved(r).token] = u
    BY <1>1, <2>2 DEF IInv, ReadAgrees
  <2>4. user' = [user EXCEPT ![u] = Saved(r)] /\ spent' = SpentBy(u, Saved(r).token)
    BY <1>3 DEF SaveRow
  <2>5. /\ restored' \in BOOLEAN
        /\ ~restored' => /\ ~restored /\ (user[u].deleted => Saved(r).deleted)
                         /\ Saved(r).token \in {None, user[u].token}
    BY <1>3 DEF SaveRow, IInv, TypeOK
  <2>6. Saved(r).named => \A v \in Users \ {u} : ~(user[v].exists /\ user[v].named)
    BY <1>3 DEF Collides
  <2>7. \E n \in 0 .. MaxTokens : owner' \in [1 .. n -> Users]
    BY <1>1 DEF IInv, TypeOK
  <2> QED BY <1>1, <2>1, <2>2, <2>3, <2>4, <2>5, <2>6, <2>7, WriteInvariant DEF At
<1> QED BY <1>2, <1>3

\* A registration that stops before the wallet is noted.
LEMMA FailInvariant ==
  ASSUME IInv, NEW r \in Requests, Fail(r)
  PROVE  IInv'
<1>1. CASE ~At(r, "wallet")
  BY <1>1, EndsInvariant DEF Fail
<1>2. CASE At(r, "wallet")
  <2> DEFINE u == request[r].of
  <2>1. u \in Users /\ user[u].exists /\ user[u] \in Row
    BY <1>2 DEF IInv, RowsAgree, TypeOK, At
  <2>2. /\ UNCHANGED <<user, owner, spent, restored>> /\ unfinished' = unfinished \cup {u}
        /\ Ends(r)
    BY <1>2 DEF Fail
  <2>3. /\ request' \in [Requests -> Work] /\ request'[r] = Idle
        /\ \A p \in Requests \ {r} : request'[p] = request[p]
    BY <2>2, IdleType DEF IInv, TypeOK, Work, Ends
  <2>4. TypeOK'
    BY <2>1, <2>2, <2>3 DEF IInv, TypeOK, Work
  <2>5. ReadAgrees'
    BY <2>2, <2>3, IdleType DEF IInv, ReadAgrees, At
  <2>6. RowsAgree'
    <3>1. \A p \in Requests : ~At(p, "idle")' => request'[p].of \in Users
      BY <2>3, IdleType DEF IInv, RowsAgree, At
    <3>2. \A p \in Requests : request'[p].at \notin {"idle", "inserts"} =>
            user'[request'[p].of].exists
      BY <2>2, <2>3, IdleType DEF IInv, RowsAgree
    <3>3. \A p \in Requests : At(p, "inserts")' =>
            /\ ~user'[request'[p].of].exists
            /\ \A q \in Requests \ {p} : request'[q].of # request'[p].of
      BY <2>2, <2>3, IdleType, NoUserAssumption DEF IInv, RowsAgree, At
    <3>4. \A t \in DOMAIN owner' : user'[owner'[t]].exists
      BY <2>2 DEF IInv, RowsAgree
    <3> QED BY <3>1, <3>2, <3>3, <3>4 DEF RowsAgree
  <2>7. TokensAgree'
    BY <2>2, <2>3, IdleType DEF IInv, TokensAgree
  <2>8. OneUserPerName' /\ WalletUnlessInterrupted'
    BY <2>2, <2>3 DEF IInv, OneUserPerName, WalletUnlessInterrupted, At
  <2> QED BY <2>4, <2>5, <2>6, <2>7, <2>8 DEF IInv
<1> QED BY <1>1, <1>2

----------------------------------------------------------------------------
LEMMA NextInvariant == IInv /\ [Next]_vars => IInv'
<1> SUFFICES ASSUME IInv, [Next]_vars PROVE IInv'
  OBVIOUS
<1>1. ASSUME NEW r \in Requests,
             \/ Insert(r) \/ CreateWallet(r)
             \/ GuardUser(r) \/ CompareToken(r) \/ StoreToken(r) \/ ClearToken(r)
             \/ SaveRow(r) \/ Fail(r)
      PROVE  IInv'
  BY <1>1, InsertInvariant, CreateWalletInvariant, GuardInvariant, StoreTokenInvariant,
     ClearTokenInvariant, SaveRowInvariant, FailInvariant
<1>2. ASSUME NEW r \in Requests, NEW t \in Tokens, Refresh(r, t) PROVE IInv'
  BY <1>2, RefreshInvariant
<1>3. ASSUME NEW r \in Requests, NEW u \in Users,
             \/ Register(r, u) \/ RegisterWithGoogle(r, u)
             \/ Login(r, u) \/ LoginWithGoogle(r, u) \/ Logout(r, u)
             \/ Delete(r, u) \/ ChangeSettings(r, u)
      PROVE  IInv'
  BY <1>3, RegisterInvariant, SessionBeginsInvariant
<1>4. ASSUME NEW u \in Users, Verify(u) \/ \E b \in BOOLEAN : SetStatus(u, b)
      PROVE  IInv'
  BY <1>4, AdminInvariant
<1>5. ASSUME UNCHANGED vars PROVE IInv'
  BY <1>5 DEF vars, IInv, TypeOK, ReadAgrees, RowsAgree, TokensAgree,
              OneUserPerName, WalletUnlessInterrupted, At
<1> QED BY <1>1, <1>2, <1>3, <1>4, <1>5 DEF Next

LEMMA Invariant == Spec => []IInv
<1>1. Init => IInv
  BY InitInvariant
<1>2. IInv /\ [Next]_vars => IInv'
  BY NextInvariant
<1> QED BY <1>1, <1>2, PTL DEF Spec

----------------------------------------------------------------------------
(***************************************************************************)
(* What is proved.                                                         *)
(***************************************************************************)
\* Every variable has its type: a row's token is one that was signed for its
\* user, whoever saved the row.
THEOREM AccountsTypeCorrect == Spec => []TypeOK
<1>1. IInv => TypeOK
  BY DEF IInv
<1> QED BY <1>1, Invariant, PTL

\* At most one account has the address, however registrations overlap with
\* each other, with deletions and with saves (UsersService.create).
THEOREM OneAccountHasTheName == Spec => []OneUserPerName
<1>1. IInv => OneUserPerName
  BY DEF IInv
<1> QED BY <1>1, Invariant, PTL

\* A user has no wallet only while the registration goes on, or because it
\* failed between the row and the wallet (AuthService.register).
THEOREM WalletIsThere == Spec => []WalletUnlessInterrupted
<1>1. IInv => WalletUnlessInterrupted
  BY DEF IInv
<1> QED BY <1>1, Invariant, PTL

\* A refresh that begins with a token that was replaced, or after the account
\* was deleted, stores no token, whatever runs between the two looks of its
\* guard (RefreshTokenGuard), unless a saved row brought the token back.
THEOREM LateRefreshRefused == Spec => []LateRefreshIsRefused
<1>1. IInv => LateRefreshIsRefused
  BY DEF IInv, TokensAgree, LateRefreshIsRefused, At
<1> QED BY <1>1, Invariant, PTL

\* Only the save of settings that were read before the deletion brings a
\* deleted account back (UsersService.updateNotificationSettings).
THEOREM DeletedStaysDeleted == Spec => DeletedUnlessSavedOver
<1> DEFINE Kept ==
      \A u \in Users : user[u].deleted /\ ~user'[u].deleted =>
        \E r \in Requests :
          /\ At(r, "saves") /\ request[r].kind = "settings"
          /\ request[r].of = u /\ ~request[r].read.deleted
<1>1. IInv /\ [Next]_vars => [Kept]_vars
  <2> SUFFICES ASSUME IInv, Next, NEW u \in Users, user[u].deleted, ~user'[u].deleted
               PROVE  \E r \in Requests :
                        /\ At(r, "saves") /\ request[r].kind = "settings"
                        /\ request[r].of = u /\ ~request[r].read.deleted
    OBVIOUS
  <2>1. user \in [Users -> Row] /\ user' # user
    BY DEF IInv, TypeOK
  <2>2. ASSUME NEW v \in Users, Verify(v) \/ \E b \in BOOLEAN : SetStatus(v, b)
        PROVE  user'[u].deleted
    BY <2>1, <2>2 DEF Verify, SetStatus, Row
  <2>3. ASSUME NEW r \in Requests, CreateWallet(r) \/ StoreToken(r) \/ ClearToken(r)
        PROVE  user'[u].deleted
    BY <2>1, <2>3 DEF CreateWallet, StoreToken, ClearToken, Row
  <2>4. ASSUME NEW r \in Requests, Insert(r) PROVE FALSE
    <3>1. request[r].of \in Users /\ ~user[request[r].of].exists
      BY <2>4 DEF Insert, IInv, RowsAgree, At
    <3>2. ~user[request[r].of].deleted
      BY <3>1 DEF IInv, TypeOK, NoRow
    <3>3. request[r].of # u
      BY <3>2
    <3> QED BY <2>1, <2>4, <3>3 DEF Insert
  <2>5. ASSUME NEW r \in Requests, SaveRow(r)
        PROVE  /\ At(r, "saves") /\ request[r].kind = "settings"
               /\ request[r].of = u /\ ~request[r].read.deleted
    <3>1. At(r, "saves") /\ request[r].read \in Row
      BY <2>5 DEF SaveRow, IInv, TypeOK
    <3>2. user' = [user EXCEPT ![request[r].of] = Saved(r)]
      BY <2>1, <2>5 DEF SaveRow
    <3>3. request[r].of = u /\ user'[u] = Saved(r)
      BY <2>1, <3>2
    <3>4. ~Saved(r).deleted
      BY <3>3
    <3> QED BY <3>1, <3>3, <3>4 DEF Saved, Row
  <2>6. \/ \E v \in Users : Verify(v) \/ \E b \in BOOLEAN : SetStatus(v, b)
        \/ \E r \in Requests :
             Insert(r) \/ CreateWallet(r) \/ StoreToken(r) \/ ClearToken(r) \/ SaveRow(r)
    BY <2>1 DEF Next, GuardUser, CompareToken, Fail, Refresh, Register,
                RegisterWithGoogle, Login, LoginWithGoogle, Logout, Delete,
                ChangeSettings, Begins
  <2> QED BY <2>2, <2>3, <2>4, <2>5, <2>6
<1>2. Spec => [][Kept]_vars
  BY <1>1, Invariant, PTL DEF Spec
<1> QED BY <1>2 DEF DeletedUnlessSavedOver
=============================================================================
