------------------------------ MODULE Accounts ------------------------------
(***************************************************************************)
(* The accounts of one person, who has one e-mail address and one name:    *)
(* registration, log-in, the refresh token that the users table keeps, and *)
(* what an admin does (auth.service.ts, refresh-token.guard.ts,            *)
(* users.service.ts, admin.service.ts).                                    *)
(*                                                                         *)
(* A request reads the row of a user and writes it some statements later:  *)
(* by an update of single columns, or, where it saves an entity, of every  *)
(* column as it was read.  Requests overlap, and may fail at any step.     *)
(***************************************************************************)
EXTENDS Naturals, FiniteSets

CONSTANTS
  Requests,    \* requests in progress
  Users,       \* the rows that may be created
  NoUser,
  MaxTokens,   \* how many refresh tokens are signed: bounds the run
  MaxBegun,    \* how many requests: bounds the run
  MaxFaults    \* how many requests fail: bounds the run

ASSUME MaxTokensAssumption == MaxTokens \in Nat
ASSUME NoUserAssumption == NoUser \notin Users

VARIABLES
  user,        \* the rows of users, with whether the user has a wallet
  request,     \* what each request does, and the row as it read it
  owner,       \* the tokens that were signed, in order, and whose they are
  spent,       \* the tokens that were stored and then replaced or cleared
  unfinished,  \* the users whose registration failed before the wallet
  restored,    \* whether a saved row brought back what had been changed
  begun,
  faults

vars == <<user, request, owner, spent, unfinished, restored, begun, faults>>

None == 0  \* no refresh token
Tokens == 1 .. MaxTokens
Row == [exists : BOOLEAN, named : BOOLEAN, active : BOOLEAN,
        deleted : BOOLEAN, verified : BOOLEAN, wallet : BOOLEAN,
        token : Tokens \cup {None}]
NoRow == [exists |-> FALSE, named |-> FALSE, active |-> FALSE,
          deleted |-> FALSE, verified |-> FALSE, wallet |-> FALSE,
          token |-> None]

Labels == {"idle", "inserts", "wallet", "guards", "compares", "stores",
           "clears", "saves"}
Kinds == {"none", "register", "google", "login", "refresh", "logout",
          "delete", "settings"}
Idle == [at |-> "idle", kind |-> "none", of |-> NoUser, read |-> NoRow,
         token |-> None, late |-> FALSE]

TypeOK ==
  /\ user \in [Users -> Row]
  /\ request \in [Requests -> [at : Labels, kind : Kinds,
                               of : Users \cup {NoUser}, read : Row,
                               token : Tokens \cup {None}, late : BOOLEAN]]
  /\ \E n \in 0 .. MaxTokens : owner \in [1 .. n -> Users]
  /\ \A u \in Users : ~user[u].exists => user[u] = NoRow
  /\ \A u \in Users : user[u].token # None =>
       user[u].token \in DOMAIN owner /\ owner[user[u].token] = u
  /\ spent \subseteq DOMAIN owner
  /\ unfinished \subseteq Users /\ restored \in BOOLEAN

Init ==
  /\ user = [u \in Users |-> NoRow]
  /\ request = [r \in Requests |-> Idle]
  /\ owner = <<>>
  /\ spent = {} /\ unfinished = {} /\ restored = FALSE
  /\ begun = 0 /\ faults = 0

----------------------------------------------------------------------------
At(r, l) == request[r].at = l
Goes(r, l) == request' = [request EXCEPT ![r].at = l]
Ends(r) == request' = [request EXCEPT ![r] = Idle]

\* A request of some kind begins and goes to its first step.
Begins(r, kind, u, l, t, late) ==
  /\ At(r, "idle")
  /\ begun < MaxBegun /\ begun' = begun + 1
  /\ request' = [request EXCEPT ![r] =
       [at |-> l, kind |-> kind, of |-> u, read |-> user[u], token |-> t,
        late |-> late]]
  /\ UNCHANGED <<user, owner, spent, unfinished, restored, faults>>

\* The e-mail address and the name belong to a row.
NameTaken == \E u \in Users : user[u].exists /\ user[u].named

\* What the strategy of the access token asks of the row.
Allowed(u) == user[u].exists /\ user[u].active /\ ~user[u].deleted

----------------------------------------------------------------------------
(***************************************************************************)
(* Registration, and log-in with Google by someone who has no account.     *)
(***************************************************************************)
Unused(u) == ~user[u].exists /\ \A r \in Requests : request[r].of # u

Register(r, u) ==
  /\ Unused(u) /\ ~NameTaken
  /\ Begins(r, "register", u, "inserts", None, FALSE)

RegisterWithGoogle(r, u) ==
  /\ Unused(u) /\ ~NameTaken
  /\ Begins(r, "google", u, "inserts", None, FALSE)

NewRow(kind) ==
  [NoRow EXCEPT !.exists = TRUE, !.named = TRUE, !.active = TRUE,
                !.verified = (kind = "google")]

\* Mutation of Insert: the columns are not unique.
InsertAnyway(r) ==
  /\ At(r, "inserts")
  /\ user' = [user EXCEPT ![request[r].of] = NewRow(request[r].kind)]
  /\ Goes(r, "wallet")
  /\ UNCHANGED <<owner, spent, unfinished, restored, begun, faults>>

\* The row is inserted, unless the address or the name was taken since.
Insert(r) ==
  /\ At(r, "inserts")
  /\ IF NameTaken
       THEN Ends(r) /\ UNCHANGED user
       ELSE /\ user' = [user EXCEPT ![request[r].of] =
                          NewRow(request[r].kind)]
            /\ Goes(r, "wallet")
  /\ UNCHANGED <<owner, spent, unfinished, restored, begun, faults>>

\* Mutation of CreateWallet: an account of Google gets no wallet.
CreateWalletAfterPassword(r) ==
  /\ At(r, "wallet")
  /\ user' = [user EXCEPT ![request[r].of].wallet =
                request[r].kind = "register"]
  /\ IF request[r].kind = "google" THEN Goes(r, "stores") ELSE Ends(r)
  /\ UNCHANGED <<owner, spent, unfinished, restored, begun, faults>>

CreateWallet(r) ==
  /\ At(r, "wallet")
  /\ user' = [user EXCEPT ![request[r].of].wallet = TRUE]
  /\ IF request[r].kind = "google" THEN Goes(r, "stores") ELSE Ends(r)
  /\ UNCHANGED <<owner, spent, unfinished, restored, begun, faults>>

Verify(u) ==
  /\ user[u].exists /\ ~user[u].verified
  /\ user' = [user EXCEPT ![u].verified = TRUE]
  /\ UNCHANGED <<request, owner, spent, unfinished, restored, begun, faults>>

----------------------------------------------------------------------------
(***************************************************************************)
(* Sessions: a user has one refresh token.                                 *)
(***************************************************************************)
\* login: the row is found by address or name and its user may log in.  The
\* password is compared before the token is stored.
Login(r, u) ==
  /\ user[u].exists /\ user[u].named /\ user[u].active /\ user[u].verified
  /\ Begins(r, "login", u, "stores", None, FALSE)

\* validateOAuthUser asks nothing of the row it finds.
LoginWithGoogle(r, u) ==
  /\ user[u].exists /\ user[u].named
  /\ Begins(r, "google", u, "stores", None, FALSE)

\* A client presents a token it was given, which may have been replaced,
\* perhaps of an account that was deleted: such a request is late.
Refresh(r, t) ==
  /\ t \in DOMAIN owner
  /\ \/ t \in spent
     \/ \E u \in Users : user[u].token = t
  /\ LET u == owner[t]
     IN Begins(r, "refresh", u, "guards", t, t \in spent \/ user[u].deleted)

\* The guard reads the user of the token.
GuardUser(r) ==
  /\ At(r, "guards")
  /\ IF Allowed(request[r].of) THEN Goes(r, "compares") ELSE Ends(r)
  /\ UNCHANGED <<user, owner, spent, unfinished, restored, begun, faults>>

\* Mutation of Stored: the signature of the token is enough.
SignedOnly(r) == Allowed(request[r].of)

\* The guard finds the user who has the token, and asks again.
Stored(r) ==
  Allowed(request[r].of) /\ user[request[r].of].token = request[r].token

CompareToken(r) ==
  /\ At(r, "compares")
  /\ \/ Stored(r) /\ Goes(r, "stores")
     \/ Stored(r) /\ Goes(r, "clears")  \* the stored token has expired
     \/ ~Stored(r) /\ Ends(r)
  /\ UNCHANGED <<user, owner, spent, unfinished, restored, begun, faults>>

\* A column that changes leaves its old token spent.
SpentBy(u, t) == spent \cup ({user[u].token} \ {None, t})

\* Mutation of StoreToken: the update names no user.
StoreTokenEverywhere(r) ==
  LET u == request[r].of
      t == Cardinality(DOMAIN owner) + 1
  IN /\ At(r, "stores")
     /\ t <= MaxTokens
     /\ owner' = [s \in 1 .. t |-> IF s = t THEN u ELSE owner[s]]
     /\ user' = [v \in Users |-> IF user[v].exists
                                  THEN [user[v] EXCEPT !.token = t] ELSE user[v]]
     /\ spent' = SpentBy(u, t)
     /\ Ends(r)
     /\ UNCHANGED <<unfinished, restored, begun, faults>>

\* Mutation of StoreToken: the row is saved as it was read.
StoreTokenSaving(r) ==
  LET u == request[r].of
      t == Cardinality(DOMAIN owner) + 1
  IN /\ At(r, "stores")
     /\ t <= MaxTokens
     /\ owner' = [s \in 1 .. t |-> IF s = t THEN u ELSE owner[s]]
     /\ user' = [user EXCEPT ![u] = [request[r].read EXCEPT !.token = t]]
     /\ spent' = SpentBy(u, t)
     /\ Ends(r)
     /\ UNCHANGED <<unfinished, restored, begun, faults>>

\* generateRefreshToken: the new token replaces whatever the row has now.
StoreToken(r) ==
  LET u == request[r].of
      t == Cardinality(DOMAIN owner) + 1
  IN /\ At(r, "stores")
     /\ t <= MaxTokens
     /\ owner' = [s \in 1 .. t |-> IF s = t THEN u ELSE owner[s]]
     /\ user' = [user EXCEPT ![u].token = t]
     /\ spent' = SpentBy(u, t)
     /\ Ends(r)
     /\ UNCHANGED <<unfinished, restored, begun, faults>>

Logout(r, u) ==
  /\ Allowed(u)
  /\ Begins(r, "logout", u, "clears", None, FALSE)

ClearToken(r) ==
  LET u == request[r].of
  IN /\ At(r, "clears")
     /\ user' = [user EXCEPT ![u].token = None]
     /\ spent' = SpentBy(u, None)
     /\ Ends(r)
     /\ UNCHANGED <<owner, unfinished, restored, begun, faults>>

----------------------------------------------------------------------------
(***************************************************************************)
(* The admin, and the settings of notifications.                           *)
(***************************************************************************)
\* updateUserStatus updates one column.
SetStatus(u, b) ==
  /\ user[u].exists /\ user[u].active # b
  /\ user' = [user EXCEPT ![u].active = b]
  /\ UNCHANGED <<request, owner, spent, unfinished, restored, begun, faults>>

\* softDeleteUser and updateNotificationSettings read the row here.
Delete(r, u) ==
  /\ user[u].exists
  /\ Begins(r, "delete", u, "saves", None, FALSE)

ChangeSettings(r, u) ==
  /\ Allowed(u)
  /\ Begins(r, "settings", u, "saves", None, FALSE)

\* What they save.  The wallet is a row of its own.
Saved(r) ==
  LET old == [request[r].read EXCEPT !.wallet = user[request[r].of].wallet]
  IN IF request[r].kind = "settings" THEN old
       ELSE [old EXCEPT !.named = FALSE, !.active = FALSE, !.deleted = TRUE,
                        !.token = None]

\* The address of the saved row may be another's by now: the save fails.
Collides(r) ==
  Saved(r).named
    /\ \E u \in Users \ {request[r].of} : user[u].exists /\ user[u].named

SaveRow(r) ==
  LET u == request[r].of
  IN /\ At(r, "saves")
     /\ IF Collides(r)
          THEN UNCHANGED <<user, spent, restored>>
          ELSE /\ user' = [user EXCEPT ![u] = Saved(r)]
               /\ spent' = SpentBy(u, Saved(r).token)
               /\ restored' = \/ restored
                              \/ user[u].deleted /\ ~Saved(r).deleted
                              \/ Saved(r).token \notin {None, user[u].token}
     /\ Ends(r)
     /\ UNCHANGED <<owner, unfinished, begun, faults>>

----------------------------------------------------------------------------
\* A request fails, or the process stops.
Fail(r) ==
  /\ ~At(r, "idle")
  /\ faults < MaxFaults /\ faults' = faults + 1
  /\ unfinished' = IF At(r, "wallet") THEN unfinished \cup {request[r].of}
                     ELSE unfinished
  /\ Ends(r)
  /\ UNCHANGED <<user, owner, spent, restored, begun>>

Next ==
  \/ \E r \in Requests :
       \/ Insert(r) \/ CreateWallet(r)
       \/ GuardUser(r) \/ CompareToken(r) \/ StoreToken(r) \/ ClearToken(r)
       \/ SaveRow(r) \/ Fail(r)
       \/ \E t \in Tokens : Refresh(r, t)
       \/ \E u \in Users :
            \/ Register(r, u) \/ RegisterWithGoogle(r, u)
            \/ Login(r, u) \/ LoginWithGoogle(r, u) \/ Logout(r, u)
            \/ Delete(r, u) \/ ChangeSettings(r, u)
  \/ \E u \in Users : Verify(u) \/ \E b \in BOOLEAN : SetStatus(u, b)

Spec == Init /\ [][Next]_vars

----------------------------------------------------------------------------
(***************************************************************************)
(* Properties.                                                             *)
(***************************************************************************)
\* However registrations, deletions and saves overlap, at most one account
\* has the address: register looks for it and inserts in separate steps.
OneUserPerName ==
  \A u, v \in Users :
    user[u].exists /\ user[u].named /\ user[v].exists /\ user[v].named
      => u = v

\* A user has a wallet, once the registration is over, unless it failed in
\* between: the row and the wallet are not inserted together.
WalletUnlessInterrupted ==
  \A u \in Users : user[u].exists /\ ~user[u].wallet =>
    u \in unfinished \/ \E r \in Requests :
                          request[r].of = u /\ At(r, "wallet")

\* A refresh that begins with a token that was replaced or cleared, or after
\* the account was deleted, is refused, whatever happens while its guard
\* reads the row twice; unless a saved row brought the token back.
LateRefreshIsRefused ==
  \A r \in Requests :
    request[r].kind = "refresh" /\ request[r].late /\ ~restored
      => ~At(r, "stores")

\* softDeleteUser is to deactivate the account and invalidate its tokens
\* immediately.  Of all the requests that may be in progress then, and write
\* the row afterwards, only changed settings that were read before bring the
\* account back: log-ins and refreshes write the column of the token alone.
DeletedUnlessSavedOver ==
  [][\A u \in Users : user[u].deleted /\ ~user'[u].deleted =>
       \E r \in Requests :
         /\ At(r, "saves") /\ request[r].kind = "settings"
         /\ request[r].of = u /\ ~request[r].read.deleted]_vars
=============================================================================
