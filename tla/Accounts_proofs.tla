--------------------------- MODULE Accounts_proofs ---------------------------
(***************************************************************************)
(* Proofs about Accounts, for any number of users, requests, links and      *)
(* tokens: the type invariant, one successor per refresh token, sessions    *)
(* of confirmed accounts only; what the emailed links are worth; that a     *)
(* sign-out nothing overlapped is total; and the refinement of Devices.     *)
(***************************************************************************)
EXTENDS Accounts, FiniteSetTheorems, WellFoundedInduction, TLAPS

(* The inductive invariant.                                                 *)

\* The operations that set a password.
Setting == {"reset_password", "accept_invitation", "change_password"}

Operations ==
    {"verify_email", "reset_password", "accept_invitation", "resend_verification",
     "forgot_password", "resend_invitation", "revoke_invitation", "login", "refresh",
     "replay", "logout", "change_password", "deactivate", "activate"}

LinkRow == [user : User, purpose : TokenPurpose, state : {"unused", "used", "deleted"}]

TokenRow == [user : User, state : {"live", "revoked"}, parent : Nat]

FlightRecord ==
    [op : Operations, user : User, row : Nat, password : Password \cup {NoPassword},
     was_active : BOOLEAN, stage : {"sweep", "commit"}, links : SUBSET Nat,
     tokens : SUBSET Nat]

Typed ==
    /\ account \in [User -> Row \cup {Absent}]
    /\ links \in Seq(LinkRow)
    /\ tokens \in Seq(TokenRow)
    /\ flight \in [Request -> FlightRecord \cup {Idle}]

\* Links and requests are about accounts that exist.
Owned ==
    /\ \A i \in DOMAIN links : account[links[i].user] # Absent
    /\ \A r \in Request : flight[r] # Idle => account[flight[r].user] # Absent

\* What a request in flight checked when it began.
Checked ==
    \A r \in Request : flight[r] # Idle =>
        /\ flight[r].op \in Consuming =>
              /\ flight[r].row \in DOMAIN links
              /\ links[flight[r].row].purpose = Consumes[flight[r].op]
        /\ flight[r].op \in Setting => flight[r].password \in Password

Confirmed(row) == row # Absent /\ row.verified /\ row.password # NoPassword

\* Tokens, and requests that will issue one, are of confirmed accounts.
Earned ==
    /\ \A t \in DOMAIN tokens : Confirmed(account[tokens[t].user])
    /\ \A r \in Request : flight[r].op \in SigningIn => Confirmed(account[flight[r].user])

\* A token that has a successor is revoked; one being rotated is not yet, and
\* only one request rotates it.
Rotation ==
    /\ \A t \in DOMAIN tokens :
          /\ tokens[t].parent \in 0..(t - 1)
          /\ tokens[t].parent # 0 => tokens[tokens[t].parent].state = "revoked"
    /\ \A r \in Request : flight[r].op = "refresh" =>
          flight[r].row \in DOMAIN tokens /\ tokens[flight[r].row].state = "live"
    /\ \A r, q \in Request :
          flight[r].op = "refresh" /\ flight[q].op = "refresh" /\ flight[r].row = flight[q].row
          => r = q

\* Requests that will issue a link, or a token.
IssuingNow == {r \in Request : flight[r].op \in Issuing}
SigningInNow == {r \in Request : flight[r].op \in SigningIn}

Room ==
    /\ Len(links) + Cardinality(IssuingNow) <= MaxLinks
    /\ Len(tokens) + Cardinality(SigningInNow) <= MaxTokens

IInv == Typed /\ Owned /\ Checked /\ Earned /\ Rotation /\ OneSuccessor /\ Room

-----------------------------------------------------------------------------
(* The operations by name, and a set that loses or gains one request.       *)

LEMMA OperationSets ==
    /\ Consuming = {"verify_email", "reset_password", "accept_invitation"}
    /\ Issuing = {"resend_verification", "forgot_password", "resend_invitation"}
  BY DEF Consuming, Issuing, Consumes, Issues

LEMMA Counts ==
    ASSUME NEW S \in SUBSET Request
    PROVE  /\ IsFiniteSet(S) /\ Cardinality(S) \in Nat
           /\ \A T \in SUBSET S : Cardinality(T) <= Cardinality(S) /\ Cardinality(T) \in Nat
           /\ \A r \in Request \ S : Cardinality(S \cup {r}) = Cardinality(S) + 1
           /\ \A r \in S : Cardinality(S \ {r}) = Cardinality(S) - 1
<1>1. IsFiniteSet(S) /\ Cardinality(S) \in Nat
  BY AccountsAssumption, FS_Subset, FS_CardinalityType
<1>2. \A T \in SUBSET S : Cardinality(T) <= Cardinality(S) /\ Cardinality(T) \in Nat
  BY <1>1, FS_Subset, FS_CardinalityType
<1>3. \A r \in Request \ S : Cardinality(S \cup {r}) = Cardinality(S) + 1
  BY <1>1, FS_AddElement
<1>4. \A r \in S : Cardinality(S \ {r}) = Cardinality(S) - 1
  BY <1>1, FS_RemoveElement
<1> QED BY <1>1, <1>2, <1>3, <1>4

\* An operation only assigns fields of a row, and none of them back: an
\* account stays confirmed.
LEMMA RowAfterType ==
    ASSUME NEW f \in FlightRecord, NEW row \in Row, f.op \in Setting => f.password \in Password
    PROVE  /\ RowAfter(f, row) \in Row
           /\ row.verified => RowAfter(f, row).verified
           /\ row.password # NoPassword => RowAfter(f, row).password # NoPassword
<1> DEFINE after == RowAfter(f, row)
<1>1. /\ DOMAIN row = {"kind", "password", "verified", "active", "customer"}
      /\ row.kind = "user" /\ row.password \in Password \cup {NoPassword}
      /\ row.verified \in BOOLEAN /\ row.active \in BOOLEAN /\ row.customer \in BOOLEAN
  BY DEF Row
<1>2. Written(f) \subseteq DOMAIN Assigned(f)
  BY DEF Written
<1>3. /\ DOMAIN Assigned(f) \subseteq {"password", "verified", "active"}
      /\ "password" \in DOMAIN Assigned(f) => f.op \in Setting /\ Assigned(f).password = f.password
      /\ "verified" \in DOMAIN Assigned(f) => Assigned(f).verified = TRUE
      /\ "active" \in DOMAIN Assigned(f) => Assigned(f).active \in BOOLEAN
  <2>1. CASE f.op = "verify_email"
    BY <2>1 DEF Assigned, Setting
  <2>2. CASE f.op = "accept_invitation"
    BY <2>2 DEF Assigned, Setting
  <2>3. CASE f.op \in {"reset_password", "change_password"}
    BY <2>3 DEF Assigned, Setting
  <2>4. CASE f.op \in {"activate", "deactivate"}
    BY <2>4 DEF Assigned, Setting
  <2>5. CASE f.op \notin Setting \cup {"verify_email", "activate", "deactivate"}
    <3>1. Assigned(f) = [x \in {} |-> TRUE]
      BY <2>5 DEF Assigned, Setting
    <3> QED BY <3>1
  <2> QED BY <2>1, <2>2, <2>3, <2>4, <2>5 DEF Setting
<1>4. /\ DOMAIN after = DOMAIN row
      /\ \A x \in DOMAIN row : after[x] = IF x \in Written(f) THEN Assigned(f)[x] ELSE row[x]
  BY DEF RowAfter
<1>5. after.kind = "user" /\ after.customer \in BOOLEAN
  BY <1>1, <1>2, <1>3, <1>4
<1>6. /\ after.password \in Password \cup {NoPassword}
      /\ row.password # NoPassword => after.password # NoPassword
  BY <1>1, <1>2, <1>3, <1>4, AccountsAssumption
<1>7. after.verified \in BOOLEAN /\ (row.verified => after.verified)
  BY <1>1, <1>2, <1>3, <1>4
<1>8. after.active \in BOOLEAN
  BY <1>1, <1>2, <1>3, <1>4
<1>9. after = [kind |-> after.kind, password |-> after.password, verified |-> after.verified,
               active |-> after.active, customer |-> after.customer]
  BY <1>1, <1>4 DEF RowAfter
<1> HIDE DEF after
<1>10. after \in Row
  BY <1>5, <1>6, <1>7, <1>8, <1>9 DEF Row
<1> QED BY <1>6, <1>7, <1>10 DEF after

-----------------------------------------------------------------------------
(* What a commit makes of the two tables of tokens.                         *)

LEMMA RowsTyped ==
    ASSUME Typed
    PROVE  /\ \A i \in DOMAIN links : links[i] \in LinkRow /\ links[i].user \in User
           /\ \A t \in DOMAIN tokens : tokens[t] \in TokenRow /\ tokens[t].user \in User
           /\ \A r \in Request : flight[r] # Idle =>
                 flight[r] \in FlightRecord /\ flight[r].user \in User
<1>1. \A i \in DOMAIN links : links[i] \in LinkRow
  BY DEF Typed
<1>2. \A t \in DOMAIN tokens : tokens[t] \in TokenRow
  BY DEF Typed
<1>3. \A r \in Request : flight[r] # Idle => flight[r] \in FlightRecord
  BY DEF Typed
<1>4. \A x \in LinkRow : x.user \in User
  BY DEF LinkRow
<1>5. \A x \in TokenRow : x.user \in User
  BY DEF TokenRow
<1>6. \A x \in FlightRecord : x.user \in User
  BY DEF FlightRecord
<1> QED BY <1>1, <1>2, <1>3, <1>4, <1>5, <1>6

\* A commit revokes refresh tokens, changes nothing else about them, and
\* inserts at most one.
LEMMA TokensAfterType ==
    ASSUME Typed, NEW f \in FlightRecord
    PROVE  /\ TokensAfter(f) \in Seq(TokenRow)
           /\ Len(TokensAfter(f)) = IF IssuesPair(f) THEN Len(tokens) + 1 ELSE Len(tokens)
           /\ \A t \in DOMAIN tokens :
                 /\ TokensAfter(f)[t].user = tokens[t].user
                 /\ TokensAfter(f)[t].parent = tokens[t].parent
                 /\ TokensAfter(f)[t].state =
                       IF t \in f.tokens \/ (f.op = "refresh" /\ t = f.row)
                       THEN "revoked" ELSE tokens[t].state
           /\ IssuesPair(f) =>
                 TokensAfter(f)[Len(tokens) + 1] =
                    [user |-> f.user, state |-> "live",
                     parent |-> IF f.op = "refresh" THEN f.row ELSE 0]
<1> DEFINE swept == [t \in DOMAIN tokens |->
                        IF t \in f.tokens \/ (f.op = "refresh" /\ t = f.row)
                        THEN [tokens[t] EXCEPT !.state = "revoked"] ELSE tokens[t]]
           new == [user |-> f.user, state |-> "live",
                   parent |-> IF f.op = "refresh" THEN f.row ELSE 0]
<1>1. tokens \in Seq(TokenRow) /\ DOMAIN tokens = 1..Len(tokens) /\ Len(tokens) \in Nat
  BY DEF Typed
<1>2. \A t \in DOMAIN tokens :
         /\ tokens[t] \in TokenRow
         /\ swept[t] \in TokenRow
         /\ swept[t].user = tokens[t].user
         /\ swept[t].parent = tokens[t].parent
         /\ swept[t].state = IF t \in f.tokens \/ (f.op = "refresh" /\ t = f.row)
                             THEN "revoked" ELSE tokens[t].state
  BY RowsTyped DEF TokenRow
<1>3. DOMAIN swept = 1..Len(tokens)
  BY <1>1
<1>4. swept \in [1..Len(tokens) -> TokenRow]
  BY <1>1, <1>2
<1> HIDE DEF swept
<1>5. swept \in Seq(TokenRow) /\ Len(swept) = Len(tokens)
  BY <1>1, <1>3, <1>4
<1>6. new \in TokenRow
  BY DEF TokenRow, FlightRecord
<1>7. TokensAfter(f) = IF IssuesPair(f) THEN Append(swept, new) ELSE swept
  BY DEF TokensAfter, swept
<1> HIDE DEF new
<1>8. CASE IssuesPair(f)
  BY <1>8, <1>1, <1>2, <1>5, <1>6, <1>7 DEF new
<1>9. CASE ~ IssuesPair(f)
  BY <1>9, <1>1, <1>2, <1>5, <1>7
<1> QED BY <1>8, <1>9

\* A commit uses up or deletes links, and inserts at most one.
LEMMA LinksAfterType ==
    ASSUME Typed, NEW f \in FlightRecord
    PROVE  /\ LinksAfter(f) \in Seq(LinkRow)
           /\ Len(LinksAfter(f)) = IF f.op \in Issuing THEN Len(links) + 1 ELSE Len(links)
           /\ \A i \in DOMAIN links :
                 /\ LinksAfter(f)[i].user = links[i].user
                 /\ LinksAfter(f)[i].purpose = links[i].purpose
                 /\ LinksAfter(f)[i].state =
                       IF f.op \in Consuming /\ i = f.row THEN "used"
                       ELSE IF i \in f.links /\ Unused(i) THEN "deleted" ELSE links[i].state
           /\ f.op \in Issuing =>
                 LinksAfter(f)[Len(links) + 1] = Link(f.user, Issues[f.op])
<1> DEFINE swept == [i \in DOMAIN links |->
                        IF f.op \in Consuming /\ i = f.row
                        THEN [links[i] EXCEPT !.state = "used"]
                        ELSE IF i \in f.links /\ Unused(i)
                             THEN [links[i] EXCEPT !.state = "deleted"] ELSE links[i]]
           new == Link(f.user, Issues[f.op])
<1>1. links \in Seq(LinkRow) /\ DOMAIN links = 1..Len(links) /\ Len(links) \in Nat
  BY DEF Typed
<1>2. \A i \in DOMAIN links :
         /\ links[i] \in LinkRow
         /\ swept[i] \in LinkRow
         /\ swept[i].user = links[i].user
         /\ swept[i].purpose = links[i].purpose
         /\ swept[i].state = IF f.op \in Consuming /\ i = f.row THEN "used"
                             ELSE IF i \in f.links /\ Unused(i) THEN "deleted"
                             ELSE links[i].state
  BY RowsTyped DEF LinkRow
<1>3. DOMAIN swept = 1..Len(links)
  BY <1>1
<1>4. swept \in [1..Len(links) -> LinkRow]
  BY <1>1, <1>2
<1> HIDE DEF swept
<1>5. swept \in Seq(LinkRow) /\ Len(swept) = Len(links)
  BY <1>1, <1>3, <1>4
<1>6. f.op \in Issuing => new \in LinkRow /\ new.user = f.user
  <2>1. f.op \in Issuing => Issues[f.op] \in TokenPurpose
    BY OperationSets DEF Issues, TokenPurpose
  <2> QED BY <2>1 DEF LinkRow, FlightRecord, Link
<1>7. LinksAfter(f) = IF f.op \in Issuing THEN Append(swept, new) ELSE swept
  BY DEF LinksAfter, swept
<1>10. new = Link(f.user, Issues[f.op])
  OBVIOUS
<1> HIDE DEF new
<1>8. CASE f.op \in Issuing
  BY <1>8, <1>1, <1>2, <1>5, <1>6, <1>7, <1>10
<1>9. CASE f.op \notin Issuing
  BY <1>9, <1>1, <1>2, <1>5, <1>7
<1> QED BY <1>8, <1>9

-----------------------------------------------------------------------------
(* Every step preserves the invariant.                                      *)

LEMMA IdleOp == Idle \notin FlightRecord /\ Idle.op = "idle" /\ "idle" \notin Operations
  BY DEF Idle, FlightRecord, Operations

\* A request that leaves, and writes nothing, breaks nothing.
LEMMA AbortStep ==
    ASSUME IInv, NEW r \in Request, Abort(r)
    PROVE  IInv'
<1>1. /\ UNCHANGED <<account, links, tokens>>
      /\ flight' = [flight EXCEPT ![r] = Idle]
  BY DEF Abort, token_rows
<1>2. /\ flight \in [Request -> FlightRecord \cup {Idle}]
      /\ flight'[r] = Idle
      /\ \A q \in Request \ {r} : flight'[q] = flight[q]
  BY <1>1 DEF IInv, Typed
<1>3. flight'[r].op \notin Issuing \cup SigningIn \cup {"refresh"}
  BY <1>2, IdleOp, OperationSets DEF SigningIn
<1>4. Typed'
  BY <1>1, <1>2 DEF IInv, Typed
<1>5. Owned' /\ Checked'
  BY <1>1, <1>2 DEF IInv, Owned, Checked
<1>6. Earned'
  BY <1>1, <1>2, <1>3 DEF IInv, Earned, Confirmed
<1>7. Rotation'
  BY <1>1, <1>2, <1>3 DEF IInv, Rotation
<1>8. OneSuccessor'
  BY <1>1 DEF IInv, OneSuccessor
<1>9. Room'
  <2>1. IssuingNow' \subseteq IssuingNow /\ SigningInNow' \subseteq SigningInNow
    BY <1>2, <1>3 DEF IssuingNow, SigningInNow
  <2>2. /\ Cardinality(IssuingNow') <= Cardinality(IssuingNow)
        /\ Cardinality(IssuingNow') \in Nat /\ Cardinality(IssuingNow) \in Nat
    <3>1. IssuingNow \in SUBSET Request
      BY DEF IssuingNow
    <3> QED BY <2>1, <3>1, Counts
  <2>3. /\ Cardinality(SigningInNow') <= Cardinality(SigningInNow)
        /\ Cardinality(SigningInNow') \in Nat /\ Cardinality(SigningInNow) \in Nat
    <3>1. SigningInNow \in SUBSET Request
      BY DEF SigningInNow
    <3> QED BY <2>1, <3>1, Counts
  <2>4. Len(links) \in Nat /\ Len(tokens) \in Nat
    BY DEF IInv, Typed
  <2> QED BY <1>1, <2>2, <2>3, <2>4, AccountsAssumption DEF IInv, Room
<1> QED BY <1>4, <1>5, <1>6, <1>7, <1>8, <1>9 DEF IInv

\* A request that starts its sweeping statements still is what it was.
LEMMA SweepKeeps ==
    ASSUME IInv, NEW r \in Request, Sweep(r)
    PROVE  /\ UNCHANGED <<account, links, tokens>>
           /\ flight' \in [Request -> FlightRecord \cup {Idle}]
           /\ \A q \in Request :
                 /\ flight'[q].op = flight[q].op
                 /\ flight[q] = Idle <=> flight'[q] = Idle
                 /\ flight[q] # Idle => /\ flight'[q].user = flight[q].user
                                        /\ flight'[q].row = flight[q].row
                                        /\ flight'[q].password = flight[q].password
<1> DEFINE f == flight[r]
           g == flight'[r]
<1>1. /\ UNCHANGED <<account, links, tokens>>
      /\ flight \in [Request -> FlightRecord \cup {Idle}]
      /\ f # Idle /\ f \in FlightRecord
      /\ links \in Seq(LinkRow) /\ tokens \in Seq(TokenRow)
  BY IdleOp DEF IInv, Typed, Sweep, Flight, token_rows
<1>2. \A q \in Request \ {r} : flight'[q] = flight[q]
  BY <1>1 DEF Sweep
<1>3. PICK L \in SUBSET (DOMAIN links), T \in SUBSET (DOMAIN tokens) :
         flight' = [flight EXCEPT ![r].stage = "commit", ![r].links = L, ![r].tokens = T]
  <2>1. /\ {i \in DOMAIN links : Names(f, i) /\ Unused(i)} \in SUBSET (DOMAIN links)
        /\ {t \in DOMAIN tokens : tokens[t].user = f.user /\ tokens[t].state # "revoked"}
              \in SUBSET (DOMAIN tokens)
        /\ {} \in SUBSET (DOMAIN links) /\ {} \in SUBSET (DOMAIN tokens)
    OBVIOUS
  <2> QED BY <2>1 DEF Sweep
<1>4. L \in SUBSET Nat /\ T \in SUBSET Nat
  BY <1>1
<1>5. /\ g \in FlightRecord
      /\ g.op = f.op /\ g.user = f.user /\ g.row = f.row /\ g.password = f.password
  BY <1>1, <1>3, <1>4 DEF FlightRecord
<1> HIDE DEF f, g
<1>6. \A q \in Request :
         /\ flight'[q].op = flight[q].op
         /\ flight[q] = Idle <=> flight'[q] = Idle
         /\ flight[q] # Idle => /\ flight'[q].user = flight[q].user
                                /\ flight'[q].row = flight[q].row
                                /\ flight'[q].password = flight[q].password
  <2> TAKE q \in Request
  <2>1. CASE q = r
    BY <2>1, <1>1, <1>5, IdleOp DEF f, g
  <2>2. CASE q # r
    BY <2>2, <1>2
  <2> QED BY <2>1, <2>2
<1>7. flight' \in [Request -> FlightRecord \cup {Idle}]
  BY <1>1, <1>2, <1>3, <1>5 DEF g
<1> QED BY <1>1, <1>6, <1>7

LEMMA SweepStep ==
    ASSUME IInv, NEW r \in Request, Sweep(r)
    PROVE  IInv'
<1>1. /\ UNCHANGED <<account, links, tokens>>
      /\ flight' \in [Request -> FlightRecord \cup {Idle}]
  BY SweepKeeps
<1>6. \A q \in Request :
         /\ flight'[q].op = flight[q].op
         /\ flight[q] = Idle <=> flight'[q] = Idle
         /\ flight[q] # Idle => /\ flight'[q].user = flight[q].user
                                /\ flight'[q].row = flight[q].row
                                /\ flight'[q].password = flight[q].password
  BY SweepKeeps
<1>7. \A q \in Request : flight[q].op \in Operations => flight[q] # Idle
  BY IdleOp
<1>8. Typed'
  BY <1>1 DEF IInv, Typed
<1>9. Owned' /\ Checked'
  BY <1>1, <1>6 DEF IInv, Owned, Checked
<1>10. Earned'
  BY <1>1, <1>6, <1>7 DEF IInv, Earned, Confirmed, SigningIn, Operations
<1>11. Rotation'
  <2>1. \A q \in Request : flight[q].op = "refresh" => flight'[q].row = flight[q].row
    BY <1>6, <1>7 DEF Operations
  <2> QED BY <1>1, <1>6, <2>1 DEF IInv, Rotation
<1>12. OneSuccessor'
  BY <1>1 DEF IInv, OneSuccessor
<1>13. Room'
  <2>1. IssuingNow' = IssuingNow /\ SigningInNow' = SigningInNow
    BY <1>6 DEF IssuingNow, SigningInNow
  <2> QED BY <2>1, <1>1 DEF IInv, Room
<1> QED BY <1>8, <1>9, <1>10, <1>11, <1>12, <1>13 DEF IInv

\* A new account, its first link and nothing else.
LEMMA InsertStep ==
    ASSUME IInv, NEW u \in User, NEW row \in Row, NEW purpose \in TokenPurpose,
           InsertUser(u, row, purpose)
    PROVE  IInv'
<1>1. /\ account[u] = Absent /\ account' = [account EXCEPT ![u] = row]
      /\ links' = Append(links, Link(u, purpose))
      /\ UNCHANGED <<tokens, flight>>
      /\ Len(links) + Cardinality(IssuingNow) < MaxLinks
  BY DEF InsertUser, RoomForLink, IssuingNow
<1>2. /\ account \in [User -> Row \cup {Absent}]
      /\ links \in Seq(LinkRow) /\ tokens \in Seq(TokenRow)
      /\ flight \in [Request -> FlightRecord \cup {Idle}]
  BY DEF IInv, Typed
<1>3. row # Absent
  BY DEF Row, Absent
<1>4. /\ Link(u, purpose) \in LinkRow /\ Link(u, purpose).user = u
  BY DEF Link, LinkRow
<1>5. /\ links' \in Seq(LinkRow) /\ Len(links') = Len(links) + 1 /\ Len(links) \in Nat
      /\ \A i \in DOMAIN links : links'[i] = links[i] /\ i \in DOMAIN links'
      /\ links'[Len(links) + 1].user = u
      /\ \A i \in DOMAIN links' : i \in DOMAIN links \/ i = Len(links) + 1
  BY <1>1, <1>2, <1>4
<1>6. \A v \in User : account[v] # Absent => account'[v] = account[v]
  BY <1>1, <1>2
<1>7. account'[u] # Absent
  BY <1>1, <1>2, <1>3
<1>8. Typed'
  BY <1>1, <1>2, <1>5 DEF Typed
<1>9. Owned'
  <2>1. \A i \in DOMAIN links : links[i].user \in User
    BY RowsTyped DEF IInv
  <2>2. \A r \in Request : flight[r] # Idle => flight[r].user \in User
    BY RowsTyped DEF IInv
  <2> QED BY <1>1, <1>5, <1>6, <1>7, <2>1, <2>2 DEF IInv, Owned
<1>10. Checked'
  BY <1>1, <1>5 DEF IInv, Checked
<1>11. Earned'
  <2>1. \A t \in DOMAIN tokens : tokens[t].user \in User
    BY RowsTyped DEF IInv
  <2>2. \A r \in Request : flight[r].op \in SigningIn => flight[r].user \in User
    BY RowsTyped, IdleOp DEF IInv, SigningIn, Operations
  <2> QED BY <1>1, <1>6, <2>1, <2>2 DEF IInv, Earned, Confirmed
<1>12. Rotation' /\ OneSuccessor'
  BY <1>1 DEF IInv, Rotation, OneSuccessor
<1>13. Room'
  <2>1. IssuingNow' = IssuingNow /\ SigningInNow' = SigningInNow
    BY <1>1 DEF IssuingNow, SigningInNow
  <2>2. Cardinality(IssuingNow) \in Nat
    <3>1. IssuingNow \in SUBSET Request
      BY DEF IssuingNow
    <3> QED BY <3>1, Counts
  <2> QED BY <1>1, <1>5, <2>1, <2>2, AccountsAssumption DEF IInv, Room
<1> QED BY <1>8, <1>9, <1>10, <1>11, <1>12, <1>13 DEF IInv

\* A request that begins has checked what it needs.
LEMMA BeginStep ==
    ASSUME IInv,
           NEW r \in Request, NEW op \in Operations, NEW u \in User, NEW row \in Nat,
           NEW p \in Password \cup {NoPassword},
           Begin(r, op, u, row, p), account[u] # Absent,
           op \in Consuming => row \in DOMAIN links /\ links[row].purpose = Consumes[op],
           op \in Setting => p \in Password,
           op \in SigningIn => Confirmed(account[u]) /\ RoomForToken,
           op \in Issuing => RoomForLink,
           op = "refresh" => row \in DOMAIN tokens /\ Rotates(row)
    PROVE  IInv'
<1> DEFINE f == [op |-> op, user |-> u, row |-> row, password |-> p,
                 was_active |-> account[u].active,
                 stage |-> IF op \in Sweeping \cup Revoking THEN "sweep" ELSE "commit",
                 links |-> {}, tokens |-> {}]
<1>1. /\ UNCHANGED <<account, links, tokens>>
      /\ flight' = [flight EXCEPT ![r] = f]
      /\ flight[r].op = "idle"
  BY DEF Begin, Flight, token_rows
<1>2. /\ account \in [User -> Row \cup {Absent}]
      /\ flight \in [Request -> FlightRecord \cup {Idle}]
      /\ links \in Seq(LinkRow) /\ tokens \in Seq(TokenRow)
  BY DEF IInv, Typed
<1>3. account[u].active \in BOOLEAN
  <2>1. account[u] \in Row
    BY <1>2
  <2> QED BY <2>1 DEF Row
<1>4. f \in FlightRecord
  BY <1>3 DEF FlightRecord
<1>5. f.op = op /\ f.user = u /\ f.row = row /\ f.password = p
  OBVIOUS
<1> HIDE DEF f
<1>6. /\ flight'[r] = f
      /\ \A q \in Request \ {r} : flight'[q] = flight[q]
  BY <1>1, <1>2
<1>7. Typed'
  BY <1>1, <1>2, <1>4 DEF Typed
<1>8. Owned'
  BY <1>1, <1>5, <1>6 DEF IInv, Owned
<1>9. Checked'
  BY <1>1, <1>5, <1>6 DEF IInv, Checked
<1>10. Earned'
  BY <1>1, <1>5, <1>6 DEF IInv, Earned, Confirmed
<1>11. Rotation'
  <2>1. /\ \A t \in DOMAIN tokens' :
              /\ tokens'[t].parent \in 0..(t - 1)
              /\ tokens'[t].parent # 0 => tokens'[tokens'[t].parent].state = "revoked"
    BY <1>1 DEF IInv, Rotation
  <2>2. op = "refresh" =>
           /\ row \in DOMAIN tokens /\ tokens[row].state = "live"
           /\ \A q \in Request : flight[q].op = "refresh" => flight[q].row # row
    BY DEF Rotates, TokenHeld, Flight
  <2>3. ASSUME NEW q \in Request, flight'[q].op = "refresh"
        PROVE  flight'[q].row \in DOMAIN tokens' /\ tokens'[flight'[q].row].state = "live"
    <3>1. CASE q = r
      BY <3>1, <2>2, <2>3, <1>1, <1>5, <1>6
    <3>2. CASE q # r
      BY <3>2, <2>3, <1>1, <1>6 DEF IInv, Rotation
    <3> QED BY <3>1, <3>2
  <2>4. ASSUME NEW q1 \in Request, NEW q2 \in Request,
               flight'[q1].op = "refresh", flight'[q2].op = "refresh",
               flight'[q1].row = flight'[q2].row
        PROVE  q1 = q2
    <3>1. CASE q1 # r /\ q2 # r
      BY <3>1, <2>4, <1>6 DEF IInv, Rotation
    <3>2. CASE q1 = r /\ q2 # r
      BY <3>2, <2>2, <2>4, <1>5, <1>6
    <3>3. CASE q1 # r /\ q2 = r
      BY <3>3, <2>2, <2>4, <1>5, <1>6
    <3> QED BY <3>1, <3>2, <3>3
  <2> QED BY <2>1, <2>3, <2>4 DEF Rotation
<1>12. OneSuccessor'
  BY <1>1 DEF IInv, OneSuccessor
<1>13. Room'
  <2>1. flight[r].op \notin Issuing \cup SigningIn
    BY <1>1, OperationSets DEF SigningIn
  <2>2. IssuingNow' = IF op \in Issuing THEN IssuingNow \cup {r} ELSE IssuingNow
    BY <2>1, <1>5, <1>6 DEF IssuingNow
  <2>3. SigningInNow' = IF op \in SigningIn THEN SigningInNow \cup {r} ELSE SigningInNow
    BY <2>1, <1>5, <1>6 DEF SigningInNow
  <2>4. /\ Cardinality(IssuingNow) \in Nat
        /\ Cardinality(IssuingNow \cup {r}) = Cardinality(IssuingNow) + 1
    <3>1. IssuingNow \in SUBSET Request /\ r \in Request \ IssuingNow
      BY <2>1 DEF IssuingNow
    <3> QED BY <3>1, Counts
  <2>5. /\ Cardinality(SigningInNow) \in Nat
        /\ Cardinality(SigningInNow \cup {r}) = Cardinality(SigningInNow) + 1
    <3>1. SigningInNow \in SUBSET Request /\ r \in Request \ SigningInNow
      BY <2>1 DEF SigningInNow
    <3> QED BY <3>1, Counts
  <2>6. /\ op \in Issuing => Len(links) + Cardinality(IssuingNow) < MaxLinks
        /\ op \in SigningIn => Len(tokens) + Cardinality(SigningInNow) < MaxTokens
    BY DEF RoomForLink, RoomForToken, IssuingNow, SigningInNow
  <2>7. Len(links) \in Nat /\ Len(tokens) \in Nat
    BY <1>2
  <2>8. Len(links) + Cardinality(IssuingNow') <= MaxLinks
    BY <2>2, <2>4, <2>6, <2>7, AccountsAssumption DEF IInv, Room
  <2>9. Len(tokens) + Cardinality(SigningInNow') <= MaxTokens
    BY <2>3, <2>5, <2>6, <2>7, AccountsAssumption DEF IInv, Room
  <2> QED BY <2>8, <2>9, <1>1 DEF Room
<1> QED BY <1>7, <1>8, <1>9, <1>10, <1>11, <1>12, <1>13 DEF IInv

\* A commit writes the fields of its account, its links and its tokens at once.
LEMMA CommitStep ==
    ASSUME IInv, NEW r \in Request, Commit(r)
    PROVE  IInv'
<1> DEFINE f == flight[r]
           n == Len(tokens)
<1>1. /\ account' = [account EXCEPT ![f.user] = RowAfter(f, account[f.user])]
      /\ links' = LinksAfter(f) /\ tokens' = TokensAfter(f)
      /\ flight' = [flight EXCEPT ![r] = Idle]
      /\ Clear(f) /\ f # Idle
  BY IdleOp DEF Commit, Flight
<1>2. /\ account \in [User -> Row \cup {Absent}]
      /\ flight \in [Request -> FlightRecord \cup {Idle}]
      /\ links \in Seq(LinkRow) /\ tokens \in Seq(TokenRow) /\ n \in Nat
      /\ DOMAIN tokens = 1..n /\ DOMAIN links = 1..Len(links) /\ Len(links) \in Nat
      /\ f \in FlightRecord /\ f.user \in User
  BY <1>1, RowsTyped DEF IInv, Typed
<1>3. /\ flight'[r] = Idle
      /\ \A q \in Request \ {r} : flight'[q] = flight[q]
  BY <1>1, <1>2
<1>4. flight'[r].op \notin Issuing \cup SigningIn \cup {"refresh"}
  BY <1>3, IdleOp, OperationSets DEF SigningIn
<1>5. account[f.user] \in Row
  BY <1>1, <1>2 DEF IInv, Owned
<1>6. /\ RowAfter(f, account[f.user]) \in Row
      /\ Confirmed(account[f.user]) =>
            /\ RowAfter(f, account[f.user]).verified
            /\ RowAfter(f, account[f.user]).password # NoPassword
  BY <1>1, <1>2, <1>5, RowAfterType DEF IInv, Checked, Confirmed
<1>7. \A x \in Row : x # Absent
  BY DEF Row, Absent
<1>8. \A u \in User : /\ account[u] # Absent => account'[u] # Absent
                      /\ Confirmed(account[u]) => Confirmed(account'[u])
  BY <1>1, <1>2, <1>6, <1>7 DEF Confirmed
<1>9. /\ tokens' \in Seq(TokenRow)
      /\ Len(tokens') = IF IssuesPair(f) THEN n + 1 ELSE n
      /\ DOMAIN tokens' = 1..Len(tokens')
      /\ \A t \in DOMAIN tokens :
            /\ tokens'[t].user = tokens[t].user
            /\ tokens'[t].parent = tokens[t].parent
            /\ tokens'[t].state = IF t \in f.tokens \/ (f.op = "refresh" /\ t = f.row)
                                  THEN "revoked" ELSE tokens[t].state
      /\ IssuesPair(f) =>
            tokens'[n + 1] = [user |-> f.user, state |-> "live",
                              parent |-> IF f.op = "refresh" THEN f.row ELSE 0]
  <2>1. TokensAfter(f) \in Seq(TokenRow) => DOMAIN TokensAfter(f) = 1..Len(TokensAfter(f))
    OBVIOUS
  <2> QED BY <2>1, <1>1, <1>2, TokensAfterType DEF IInv
<1>10. /\ links' \in Seq(LinkRow)
       /\ Len(links') = IF f.op \in Issuing THEN Len(links) + 1 ELSE Len(links)
       /\ DOMAIN links' = 1..Len(links')
       /\ \A i \in DOMAIN links :
             links'[i].user = links[i].user /\ links'[i].purpose = links[i].purpose
       /\ f.op \in Issuing => links'[Len(links) + 1].user = f.user
  <2>1. LinksAfter(f) \in Seq(LinkRow) => DOMAIN LinksAfter(f) = 1..Len(LinksAfter(f))
    OBVIOUS
  <2>2. Link(f.user, Issues[f.op]).user = f.user
    BY DEF Link
  <2> QED BY <2>1, <2>2, <1>1, <1>2, LinksAfterType DEF IInv
<1>11. /\ IssuesPair(f) => f.op \in SigningIn
       /\ f.op = "refresh" =>
             f.row \in 1..n /\ tokens[f.row].state = "live" /\ f.row # 0
  BY <1>2 DEF IssuesPair, SigningIn, IInv, Rotation
<1>12. \A t \in DOMAIN tokens' : t \in DOMAIN tokens \/ (t = n + 1 /\ IssuesPair(f))
  BY <1>2, <1>9
<1>13. DOMAIN tokens \subseteq DOMAIN tokens' /\ DOMAIN links \subseteq DOMAIN links'
  BY <1>2, <1>9, <1>10
<1> HIDE DEF f, n
<1>14. Typed'
  BY <1>1, <1>2, <1>6, <1>9, <1>10 DEF Typed
<1>15. Owned'
  <2>1. ASSUME NEW i \in DOMAIN links' PROVE account'[links'[i].user] # Absent
    <3>1. CASE i \in DOMAIN links
      BY <3>1, <1>8, <1>10, RowsTyped DEF IInv, Owned
    <3>2. CASE i \notin DOMAIN links
      <4>1. i = Len(links) + 1 /\ f.op \in Issuing
        BY <3>2, <2>1, <1>2, <1>10
      <4> QED BY <4>1, <1>2, <1>8, <1>10, <1>5, <1>7
    <3> QED BY <3>1, <3>2
  <2>2. ASSUME NEW q \in Request, flight'[q] # Idle PROVE account'[flight'[q].user] # Absent
    BY <2>2, <1>3, <1>8, RowsTyped DEF IInv, Owned
  <2> QED BY <2>1, <2>2 DEF Owned
<1>16. Checked'
  BY <1>3, <1>10, <1>13 DEF IInv, Checked
<1>17. Earned'
  <2>1. ASSUME NEW t \in DOMAIN tokens' PROVE Confirmed(account'[tokens'[t].user])
    <3>1. CASE t \in DOMAIN tokens
      BY <3>1, <1>8, <1>9, RowsTyped DEF IInv, Earned
    <3>2. CASE t = n + 1 /\ IssuesPair(f)
      <4>1. tokens'[t].user = f.user
        BY <3>2, <1>9
      <4>2. Confirmed(account[f.user])
        BY <3>2, <1>11 DEF IInv, Earned, f
      <4> QED BY <4>1, <4>2, <1>2, <1>8
    <3> QED BY <3>1, <3>2, <1>12
  <2>2. ASSUME NEW q \in Request, flight'[q].op \in SigningIn
        PROVE  Confirmed(account'[flight'[q].user])
    <3>1. q # r /\ flight'[q] = flight[q]
      BY <2>2, <1>3, <1>4
    <3>2. flight[q] # Idle
      BY <2>2, <3>1, IdleOp DEF SigningIn
    <3> QED BY <2>2, <3>1, <3>2, <1>8, RowsTyped DEF IInv, Earned
  <2> QED BY <2>1, <2>2 DEF Earned, Confirmed
<1>18. Rotation'
  <2>1. ASSUME NEW t \in DOMAIN tokens'
        PROVE  /\ tokens'[t].parent \in 0..(t - 1)
               /\ tokens'[t].parent # 0 => tokens'[tokens'[t].parent].state = "revoked"
    <3>1. CASE t \in DOMAIN tokens
      <4>1. /\ tokens[t].parent \in 0..(t - 1)
            /\ tokens[t].parent # 0 => tokens[tokens[t].parent].state = "revoked"
            /\ tokens'[t].parent = tokens[t].parent
        BY <3>1, <1>9 DEF IInv, Rotation
      <4>2. tokens[t].parent # 0 => tokens[t].parent \in DOMAIN tokens
        BY <3>1, <4>1, <1>2
      <4> QED BY <4>1, <4>2, <1>9
    <3>2. CASE t = n + 1 /\ IssuesPair(f)
      <4>1. tokens'[t].parent = IF f.op = "refresh" THEN f.row ELSE 0
        BY <3>2, <1>9
      <4>2. f.op = "refresh" => tokens'[f.row].state = "revoked"
        BY <1>2, <1>9, <1>11
      <4> QED BY <3>2, <4>1, <4>2, <1>2, <1>11
    <3> QED BY <3>1, <3>2, <1>12
  <2>2. ASSUME NEW q \in Request, flight'[q].op = "refresh"
        PROVE  flight'[q].row \in DOMAIN tokens' /\ tokens'[flight'[q].row].state = "live"
    <3>1. q # r /\ flight'[q] = flight[q]
      BY <2>2, <1>3, <1>4
    <3>2. flight[q].row \in DOMAIN tokens /\ tokens[flight[q].row].state = "live"
      BY <2>2, <3>1 DEF IInv, Rotation
    <3>3. flight[q].row \notin f.tokens
      BY <2>2, <3>1, <1>1 DEF Clear, TokenHeld, Flight
    <3>4. ~ (f.op = "refresh" /\ flight[q].row = f.row)
      BY <2>2, <3>1 DEF IInv, Rotation, f
    <3> QED BY <3>1, <3>2, <3>3, <3>4, <1>9, <1>13
  <2>3. ASSUME NEW q1 \in Request, NEW q2 \in Request,
               flight'[q1].op = "refresh", flight'[q2].op = "refresh",
               flight'[q1].row = flight'[q2].row
        PROVE  q1 = q2
    <3>1. q1 # r /\ q2 # r
      BY <2>3, <1>4
    <3> QED BY <2>3, <3>1, <1>3 DEF IInv, Rotation
  <2> QED BY <2>1, <2>2, <2>3 DEF Rotation
<1>19. OneSuccessor'
  <2>1. \A s \in DOMAIN tokens :
           IssuesPair(f) /\ tokens'[s].parent = tokens'[n + 1].parent => tokens'[s].parent = 0
    <3> SUFFICES ASSUME NEW s \in DOMAIN tokens, IssuesPair(f),
                        tokens'[s].parent = tokens'[n + 1].parent, tokens'[s].parent # 0
                 PROVE  FALSE
      OBVIOUS
    <3>1. f.op = "refresh" /\ tokens[s].parent = f.row
      BY <1>9
    <3>2. tokens[f.row].state = "revoked"
      BY <3>1, <1>11 DEF IInv, Rotation
    <3> QED BY <3>1, <3>2, <1>11
  <2> QED BY <2>1, <1>9, <1>12 DEF IInv, OneSuccessor
<1>20. Room'
  <2>1. IssuingNow' = IF f.op \in Issuing THEN IssuingNow \ {r} ELSE IssuingNow
    BY <1>3, <1>4 DEF IssuingNow, f
  <2>2. SigningInNow' = IF f.op \in SigningIn THEN SigningInNow \ {r} ELSE SigningInNow
    BY <1>3, <1>4 DEF SigningInNow, f
  <2>3. /\ Cardinality(IssuingNow) \in Nat
        /\ f.op \in Issuing => Cardinality(IssuingNow \ {r}) = Cardinality(IssuingNow) - 1
    <3>1. IssuingNow \in SUBSET Request /\ (f.op \in Issuing => r \in IssuingNow)
      BY DEF IssuingNow, f
    <3> QED BY <3>1, Counts
  <2>4. /\ Cardinality(SigningInNow) \in Nat
        /\ f.op \in SigningIn =>
              Cardinality(SigningInNow \ {r}) = Cardinality(SigningInNow) - 1
    <3>1. SigningInNow \in SUBSET Request /\ (f.op \in SigningIn => r \in SigningInNow)
      BY DEF SigningInNow, f
    <3> QED BY <3>1, Counts
  <2>5. Len(links') + Cardinality(IssuingNow') <= MaxLinks
    BY <2>1, <2>3, <1>2, <1>10, AccountsAssumption DEF IInv, Room
  <2>6. Len(tokens') + Cardinality(SigningInNow') <= MaxTokens
    BY <2>2, <2>4, <1>2, <1>9, <1>11, AccountsAssumption DEF IInv, Room, n
  <2> QED BY <2>5, <2>6 DEF Room
<1> QED BY <1>14, <1>15, <1>16, <1>17, <1>18, <1>19, <1>20 DEF IInv

LEMMA InitEstablishes == Init => IInv
<1> SUFFICES ASSUME Init PROVE IInv
  OBVIOUS
<1>1. /\ account = [u \in User |-> Absent] /\ links = <<>> /\ tokens = <<>>
      /\ flight = [r \in Request |-> Idle]
  BY DEF Init
<1>2. DOMAIN links = {} /\ DOMAIN tokens = {} /\ Len(links) = 0 /\ Len(tokens) = 0
  BY <1>1
<1>3. \A r \in Request : flight[r] = Idle /\ flight[r].op \notin Issuing \cup SigningIn \cup {"refresh"}
  BY <1>1, IdleOp, OperationSets DEF SigningIn
<1>4. Typed
  BY <1>1 DEF Typed
<1>5. Owned /\ Checked /\ Earned /\ Rotation /\ OneSuccessor
  BY <1>2, <1>3 DEF Owned, Checked, Earned, Rotation, OneSuccessor
<1>6. Room
  <2>1. IssuingNow = {} /\ SigningInNow = {}
    BY <1>3 DEF IssuingNow, SigningInNow
  <2> QED BY <2>1, <1>2, FS_EmptySet, AccountsAssumption DEF Room
<1> QED BY <1>4, <1>5, <1>6 DEF IInv

\* The requests that follow a link.
LEMMA ConsumeStep ==
    ASSUME IInv, NEW r \in Request, NEW op \in {"verify_email", "reset_password", "accept_invitation"},
           NEW i \in DOMAIN links, NEW p \in Password \cup {NoPassword},
           op \in Setting => p \in Password, Consume(r, op, i, p)
    PROVE  IInv'
<1>1. /\ Begin(r, op, links[i].user, i, p)
      /\ links[i].purpose = Consumes[op]
  BY DEF Consume, Usable
<1>2. links[i].user \in User /\ account[links[i].user] # Absent /\ i \in Nat
  BY RowsTyped DEF IInv, Owned, Typed
<1>3. op \in Operations /\ op \notin Issuing \cup SigningIn \cup {"refresh"}
  BY OperationSets DEF Operations, SigningIn
<1> QED BY <1>1, <1>2, <1>3, BeginStep

\* The requests that ask for a link.
LEMMA AskStep ==
    ASSUME IInv, NEW r \in Request, NEW u \in User,
           NEW op \in {"resend_verification", "forgot_password", "resend_invitation"},
           Ask(r, op, u)
    PROVE  IInv'
<1>1. /\ Begin(r, op, u, 0, NoPassword)
      /\ account[u] # Absent /\ RoomForLink
  BY DEF Ask
<1>2. op \in Operations /\ op \notin Consuming \cup Setting \cup SigningIn \cup {"refresh"}
  BY OperationSets DEF Operations, SigningIn, Setting
<1> QED BY <1>1, <1>2, BeginStep

\* The requests that neither follow a link nor issue anything.
LEMMA PlainStep ==
    ASSUME IInv, NEW r \in Request, NEW u \in User, account[u] # Absent,
           NEW op \in {"revoke_invitation", "replay", "logout", "change_password", "deactivate",
                       "activate"},
           NEW p \in Password \cup {NoPassword}, op \in Setting => p \in Password,
           Begin(r, op, u, 0, p)
    PROVE  IInv'
<1>1. op \in Operations /\ op \notin Consuming \cup Issuing \cup SigningIn \cup {"refresh"}
  BY OperationSets DEF Operations, SigningIn
<1> QED BY <1>1, BeginStep

LEMMA SessionsStep ==
    ASSUME IInv, NEW r \in Request, Sessions(r)
    PROVE  IInv'
<1>1. /\ "login" \in Operations /\ "refresh" \in Operations
      /\ "login" \notin Consuming \cup Setting \cup Issuing
      /\ "refresh" \notin Consuming \cup Setting \cup Issuing
      /\ "replay" \notin Setting /\ "logout" \notin Setting
  BY OperationSets DEF Operations, Setting
<1>2. ASSUME NEW u \in User, NEW p \in Password, Login(r, u, p) PROVE IInv'
  <2>1. /\ Begin(r, "login", u, 0, NoPassword) /\ RoomForToken
        /\ account[u] # Absent /\ account[u].verified /\ account[u].password = p
    BY <1>2 DEF Login, Authenticated
  <2>2. Confirmed(account[u])
    BY <2>1, AccountsAssumption DEF Confirmed
  <2> QED BY <1>1, <2>1, <2>2, BeginStep
<1>3. ASSUME NEW t \in DOMAIN tokens, Refresh(r, t) PROVE IInv'
  <2>1. /\ Begin(r, "refresh", tokens[t].user, t, NoPassword) /\ RoomForToken /\ Rotates(t)
    BY <1>3 DEF Refresh
  <2>2. /\ tokens[t].user \in User /\ t \in Nat
        /\ Confirmed(account[tokens[t].user]) /\ account[tokens[t].user] # Absent
    BY RowsTyped DEF IInv, Typed, Earned, Confirmed
  <2> QED BY <1>1, <2>1, <2>2, BeginStep
<1>4. ASSUME NEW t \in DOMAIN tokens, Replay(r, t) PROVE IInv'
  <2>1. Begin(r, "replay", tokens[t].user, 0, NoPassword)
    BY <1>4 DEF Replay
  <2>2. tokens[t].user \in User /\ account[tokens[t].user] # Absent
    BY RowsTyped DEF IInv, Earned, Confirmed
  <2> QED BY <1>1, <2>1, <2>2, PlainStep
<1>5. ASSUME NEW u \in User, Logout(r, u) PROVE IInv'
  BY <1>1, <1>5, PlainStep DEF Logout, SignedIn
<1>6. ASSUME NEW u \in User, NEW current \in Password, NEW new \in Password,
             ChangePassword(r, u, current, new)
      PROVE  IInv'
  BY <1>6, PlainStep DEF ChangePassword, SignedIn
<1>7. \A u \in User, p \in Password : CustomerLogin(r, u, p) => Login(r, u, p)
  BY DEF CustomerLogin
<1> QED BY <1>2, <1>3, <1>4, <1>5, <1>6, <1>7 DEF Sessions

LEMMA LinksStep ==
    ASSUME IInv, NEW r \in Request, Links(r)
    PROVE  IInv'
<1>1. ASSUME NEW i \in DOMAIN links, VerifyEmail(r, i) PROVE IInv'
  <2>1. "verify_email" \notin Setting
    BY DEF Setting
  <2> QED BY <1>1, <2>1, ConsumeStep DEF VerifyEmail
<1>2. ASSUME NEW i \in DOMAIN links, NEW p \in Password,
             ResetPassword(r, i, p) \/ AcceptInvitation(r, i, p)
      PROVE  IInv'
  BY <1>2, ConsumeStep DEF ResetPassword, AcceptInvitation
<1>3. ASSUME NEW u \in User,
             ResendVerification(r, u) \/ ForgotPassword(r, u) \/ ResendInvitation(r, u)
      PROVE  IInv'
  BY <1>3, AskStep DEF ResendVerification, ForgotPassword, ResendInvitation
<1>4. ASSUME NEW u \in User, RevokeInvitation(r, u) PROVE IInv'
  <2>1. "revoke_invitation" \notin Setting
    BY DEF Setting
  <2> QED BY <1>4, <2>1, PlainStep DEF RevokeInvitation, PendingInvitee
<1> QED BY <1>1, <1>2, <1>3, <1>4 DEF Links

LEMMA NextPreserves == IInv /\ [Next]_vars => IInv'
<1> SUFFICES ASSUME IInv, [Next]_vars PROVE IInv'
  OBVIOUS
<1>1. ASSUME NEW r \in Request, Links(r) PROVE IInv'
  BY <1>1, LinksStep
<1>2. ASSUME NEW r \in Request, Sessions(r) PROVE IInv'
  BY <1>2, SessionsStep
<1>3. ASSUME NEW r \in Request, NEW u \in User, Deactivate(r, u) \/ Activate(r, u) PROVE IInv'
  <2>1. "deactivate" \notin Setting /\ "activate" \notin Setting
    BY DEF Setting
  <2> QED BY <1>3, <2>1, PlainStep DEF Deactivate, Activate
<1>4. ASSUME NEW r \in Request, Sweep(r) \/ Commit(r) \/ Abort(r) PROVE IInv'
  BY <1>4, SweepStep, CommitStep, AbortStep
<1>5. ASSUME NEW u \in User, Register(u) \/ Invite(u) PROVE IInv'
  <2>1. RegisteredRow(FirstPassword) \in Row /\ InvitedRow \in Row
    BY AccountsAssumption DEF RegisteredRow, InvitedRow, Row
  <2>2. {"EMAIL_VERIFICATION", "INVITATION"} \subseteq TokenPurpose
    BY DEF TokenPurpose
  <2> QED BY <1>5, <2>1, <2>2, InsertStep DEF Register, Invite
<1>6. CASE UNCHANGED vars
  <2>1. UNCHANGED <<account, links, tokens, flight>>
    BY <1>6 DEF vars, token_rows
  <2> QED BY <2>1 DEF IInv, Typed, Owned, Checked, Earned, Rotation, OneSuccessor, Room,
                     IssuingNow, SigningInNow
<1> QED BY <1>1, <1>2, <1>3, <1>4, <1>5, <1>6 DEF Next

-----------------------------------------------------------------------------
(* What follows.                                                            *)

LEMMA Invariance == Spec => []IInv
  BY InitEstablishes, NextPreserves, PTL DEF Spec

\* The type invariant, the bounds on links and tokens included: a link points at
\* an account that exists, and a request holds a link of its own purpose.
THEOREM TypesHold == Spec => []TypeOK
<1>1. IInv => TypeOK
  <2> SUFFICES ASSUME IInv PROVE TypeOK
    OBVIOUS
  <2>1. account \in [User -> Row \cup {Absent}]
    BY DEF IInv, Typed
  <2>2. Len(links) <= MaxLinks /\ Len(tokens) <= MaxTokens
    <3>1. IssuingNow \in SUBSET Request /\ SigningInNow \in SUBSET Request
      BY DEF IssuingNow, SigningInNow
    <3>2. Cardinality(IssuingNow) \in Nat /\ Cardinality(SigningInNow) \in Nat
      BY <3>1, Counts
    <3>3. Len(links) \in Nat /\ Len(tokens) \in Nat
      BY DEF IInv, Typed
    <3> QED BY <3>2, <3>3, AccountsAssumption DEF IInv, Room
  <2>3. \A i \in DOMAIN links :
           /\ links[i].purpose \in TokenPurpose
           /\ links[i].state \in {"unused", "used", "deleted"}
           /\ account[links[i].user] # Absent
    BY RowsTyped DEF IInv, Owned, LinkRow
  <2>4. \A t \in DOMAIN tokens :
           tokens[t].state \in {"live", "revoked"} /\ tokens[t].parent \in 0..(t - 1)
    BY RowsTyped DEF IInv, Rotation, TokenRow
  <2>5. \A r \in Request : flight[r] # Idle =>
           /\ flight[r].stage \in {"sweep", "commit"}
           /\ flight[r].op \in Consuming =>
                 links[flight[r].row].purpose = Consumes[flight[r].op]
    BY RowsTyped DEF IInv, Checked, FlightRecord
  <2> QED BY <2>1, <2>2, <2>3, <2>4, <2>5 DEF TypeOK
<1> QED BY <1>1, Invariance, PTL

\* Of all the refreshes of one token, however many overlap, one wins it.
THEOREM RefreshWonOnce == Spec => []OneSuccessor
<1>1. IInv => OneSuccessor
  BY DEF IInv
<1> QED BY <1>1, Invariance, PTL

\* No order of links, sign-ins, refreshes and switches gives a session to an
\* account that has not confirmed its address or has no password.
THEOREM SessionsEarned == Spec => []SessionsAreEarned
<1>1. IInv => SessionsAreEarned
  BY DEF IInv, Earned, Confirmed, SessionsAreEarned
<1> QED BY <1>1, Invariance, PTL

-----------------------------------------------------------------------------
(* What the emailed links are worth: no account changes without the link,   *)
(* the owner or the administrator that the change calls for.               *)

\* Requests that need the account to have a password already.
Replacing == {"forgot_password", "change_password"}

\* A request that follows a link is alone with it, and the link still unused.
Holding ==
    /\ \A r \in Request : flight[r].op \in Consuming =>
          links[flight[r].row].state = "unused" /\ links[flight[r].row].user = flight[r].user
    /\ \A r, q \in Request :
          flight[r].op \in Consuming /\ flight[q].op \in Consuming /\ flight[r].row = flight[q].row
          => r = q

HasPassword(u) == account[u].password # NoPassword

\* Nobody resets, or changes, the password of an account that never had one.
Resettable ==
    /\ \A i \in DOMAIN links : links[i].purpose = "PASSWORD_RESET" => HasPassword(links[i].user)
    /\ \A r \in Request : flight[r].op \in Replacing => HasPassword(flight[r].user)

LInv == IInv /\ Holding /\ Resettable

-----------------------------------------------------------------------------
(* The steps that only touch flight.                                        *)

LEMMA BusyNotIdle ==
    ASSUME IInv, NEW r \in Request, flight[r].op \in Consuming \cup Replacing
    PROVE  /\ flight[r] # Idle /\ flight[r].user \in User
           /\ flight[r].op \in Consuming => flight[r].row \in DOMAIN links
<1>1. flight[r] # Idle
  BY IdleOp, OperationSets DEF Operations, Replacing
<1> QED BY <1>1, RowsTyped DEF IInv, Checked

LEMMA LAbort ==
    ASSUME LInv, NEW r \in Request, Abort(r)
    PROVE  Holding' /\ Resettable'
<1>1. /\ UNCHANGED <<account, links>>
      /\ flight' = [flight EXCEPT ![r] = Idle]
  BY DEF Abort, token_rows
<1>2. /\ flight'[r] = Idle
      /\ \A q \in Request \ {r} : flight'[q] = flight[q]
  BY <1>1 DEF LInv, IInv, Typed
<1>3. flight'[r].op \notin Consuming \cup Replacing
  BY <1>2, IdleOp, OperationSets DEF Replacing
<1> QED BY <1>1, <1>2, <1>3 DEF LInv, Holding, Resettable, HasPassword

LEMMA LSweep ==
    ASSUME LInv, NEW r \in Request, Sweep(r)
    PROVE  Holding' /\ Resettable'
<1>1. UNCHANGED <<account, links>>
  BY SweepKeeps DEF LInv
<1>2. \A q \in Request : flight'[q].op = flight[q].op
  BY SweepKeeps DEF LInv
<1>3. \A q \in Request : flight[q].op \in Consuming \cup Replacing =>
         flight'[q].user = flight[q].user /\ flight'[q].row = flight[q].row
  BY SweepKeeps, BusyNotIdle DEF LInv
<1> QED BY <1>1, <1>2, <1>3 DEF LInv, Holding, Resettable, HasPassword

\* A request that begins holds the link it follows, or has seen a password.
LEMMA LBegin ==
    ASSUME LInv, NEW r \in Request, NEW op, NEW u, NEW row, NEW p,
           Begin(r, op, u, row, p),
           op \in Consuming => Unused(row) /\ links[row].user = u /\ ~ LinkHeld(row),
           op \in Replacing => HasPassword(u)
    PROVE  Holding' /\ Resettable'
<1>1. /\ UNCHANGED <<account, links>>
      /\ \A q \in Request \ {r} : flight'[q] = flight[q]
      /\ flight'[r].op = op /\ flight'[r].user = u /\ flight'[r].row = row
  BY DEF Begin, token_rows, LInv, IInv, Typed
<1>2. op \in Consuming =>
         \A q \in Request : flight[q].op \in Consuming => flight[q].row # row
  BY BusyNotIdle, IdleOp, OperationSets DEF LInv, LinkHeld, Flight
<1>3. Holding'
  <2>1. ASSUME NEW q \in Request, flight'[q].op \in Consuming
        PROVE  links'[flight'[q].row].state = "unused" /\ links'[flight'[q].row].user = flight'[q].user
    <3>1. CASE q = r
      BY <3>1, <2>1, <1>1 DEF Unused
    <3>2. CASE q # r
      BY <3>2, <2>1, <1>1 DEF LInv, Holding
    <3> QED BY <3>1, <3>2
  <2>2. ASSUME NEW q1 \in Request, NEW q2 \in Request, flight'[q1].op \in Consuming,
               flight'[q2].op \in Consuming, flight'[q1].row = flight'[q2].row
        PROVE  q1 = q2
    <3>1. CASE q1 # r /\ q2 # r
      BY <3>1, <2>2, <1>1 DEF LInv, Holding
    <3>2. CASE q1 = r /\ q2 # r
      BY <3>2, <2>2, <1>1, <1>2
    <3>3. CASE q1 # r /\ q2 = r
      BY <3>3, <2>2, <1>1, <1>2
    <3> QED BY <3>1, <3>2, <3>3
  <2>3. Consuming' = Consuming
    BY DEF Consuming, Consumes
  <2> QED BY <2>1, <2>2, <2>3 DEF Holding
<1>4. Resettable'
  BY <1>1 DEF LInv, Resettable, HasPassword
<1> QED BY <1>3, <1>4

-----------------------------------------------------------------------------
(* The steps that write.                                                    *)

LEMMA LInsert ==
    ASSUME LInv, NEW u \in User, NEW row, NEW purpose \in {"EMAIL_VERIFICATION", "INVITATION"},
           InsertUser(u, row, purpose)
    PROVE  Holding' /\ Resettable'
<1>1. /\ account[u] = Absent /\ account' = [account EXCEPT ![u] = row]
      /\ links' = Append(links, Link(u, purpose))
      /\ flight' = flight
  BY DEF InsertUser
<1>2. /\ account \in [User -> Row \cup {Absent}]
      /\ links \in Seq(LinkRow) /\ Len(links) \in Nat
  BY DEF LInv, IInv, Typed
<1>3. Link(u, purpose) \in LinkRow /\ Link(u, purpose).purpose = purpose
  BY DEF Link, LinkRow, TokenPurpose
<1>4. /\ \A i \in DOMAIN links : links'[i] = links[i]
      /\ links'[Len(links) + 1].purpose # "PASSWORD_RESET"
      /\ \A i \in DOMAIN links' : i \in DOMAIN links \/ i = Len(links) + 1
  BY <1>1, <1>2, <1>3
<1>5. \A v \in User : account[v] # Absent => account'[v] = account[v]
  BY <1>1, <1>2
<1>6. \A i \in DOMAIN links : account'[links[i].user] = account[links[i].user]
  BY <1>5, RowsTyped DEF LInv, IInv, Owned
<1>7. \A r \in Request : flight[r].op \in Replacing =>
         account'[flight[r].user] = account[flight[r].user]
  BY <1>5, BusyNotIdle DEF LInv, IInv, Owned
<1>8. Holding'
  BY <1>1, <1>4, BusyNotIdle DEF LInv, Holding
<1>9. Resettable'
  BY <1>1, <1>4, <1>6, <1>7 DEF LInv, Resettable, HasPassword
<1> QED BY <1>8, <1>9

\* What a commit makes of the links and of the accounts.
LEMMA CommitWrites ==
    ASSUME IInv, NEW r \in Request, Commit(r)
    PROVE  LET f == flight[r] IN
           /\ f # Idle /\ f \in FlightRecord /\ f.user \in User /\ Clear(f)
           /\ flight'[r] = Idle
           /\ \A q \in Request \ {r} : flight'[q] = flight[q]
           /\ account[f.user] \in Row
           /\ account'[f.user] = RowAfter(f, account[f.user])
           /\ \A v \in User \ {f.user} : account'[v] = account[v]
           /\ \A v \in User : account[v] # Absent /\ HasPassword(v) =>
                 account'[v].password # NoPassword
           /\ \A i \in DOMAIN links :
                 /\ links'[i].user = links[i].user
                 /\ links'[i].purpose = links[i].purpose
                 /\ links'[i].state =
                       IF f.op \in Consuming /\ i = f.row THEN "used"
                       ELSE IF i \in f.links /\ Unused(i) THEN "deleted" ELSE links[i].state
           /\ \A i \in DOMAIN links' : i \in DOMAIN links \/
                 (f.op \in Issuing /\ links'[i] = Link(f.user, Issues[f.op]))
<1> DEFINE f == flight[r]
<1>1. /\ account' = [account EXCEPT ![f.user] = RowAfter(f, account[f.user])]
      /\ links' = LinksAfter(f)
      /\ flight' = [flight EXCEPT ![r] = Idle]
      /\ Clear(f) /\ f # Idle
  BY IdleOp DEF Commit, Flight
<1>2. /\ account \in [User -> Row \cup {Absent}]
      /\ flight \in [Request -> FlightRecord \cup {Idle}]
      /\ links \in Seq(LinkRow) /\ DOMAIN links = 1..Len(links) /\ Len(links) \in Nat
      /\ f \in FlightRecord /\ f.user \in User
  BY <1>1, RowsTyped DEF IInv, Typed
<1>3. account[f.user] \in Row
  BY <1>1, <1>2 DEF IInv, Owned
<1>4. account[f.user].password # NoPassword => RowAfter(f, account[f.user]).password # NoPassword
  BY <1>1, <1>2, <1>3, RowAfterType DEF IInv, Checked
<1>5. LinksAfter(f) \in Seq(LinkRow) => DOMAIN LinksAfter(f) = 1..Len(LinksAfter(f))
  OBVIOUS
<1>6. \A i \in DOMAIN links' : i \in DOMAIN links \/ (f.op \in Issuing /\ i = Len(links) + 1)
  BY <1>1, <1>2, <1>5, LinksAfterType DEF IInv
<1> HIDE DEF f
<1>7. \A v \in User : account[v] # Absent /\ HasPassword(v) =>
                 account'[v].password # NoPassword
  BY <1>1, <1>2, <1>4 DEF HasPassword
<1>8. \A i \in DOMAIN links :
         /\ links'[i].user = links[i].user
         /\ links'[i].purpose = links[i].purpose
         /\ links'[i].state =
               IF f.op \in Consuming /\ i = f.row THEN "used"
               ELSE IF i \in f.links /\ Unused(i) THEN "deleted" ELSE links[i].state
  BY <1>1, <1>2, LinksAfterType DEF IInv
<1>9. \A i \in DOMAIN links' : i \in DOMAIN links \/
         (f.op \in Issuing /\ links'[i] = Link(f.user, Issues[f.op]))
  BY <1>1, <1>2, <1>6, LinksAfterType DEF IInv
<1> QED BY <1>1, <1>2, <1>3, <1>7, <1>8, <1>9 DEF f

LEMMA LCommit ==
    ASSUME LInv, NEW r \in Request, Commit(r)
    PROVE  Holding' /\ Resettable'
<1> DEFINE f == flight[r]
<1> USE DEF LInv
<1>1. /\ f.user \in User /\ Clear(f) /\ account[f.user] # Absent
      /\ \A q \in Request \ {r} : flight'[q] = flight[q]
      /\ flight'[r] = Idle
      /\ \A x \in Row : x # Absent
  BY CommitWrites DEF Row, Absent
<1>2. /\ \A v \in User : account[v] # Absent /\ HasPassword(v) =>
                 account'[v].password # NoPassword
      /\ \A i \in DOMAIN links :
            /\ links'[i].user = links[i].user
            /\ links'[i].purpose = links[i].purpose
            /\ links'[i].state =
                  IF f.op \in Consuming /\ i = f.row THEN "used"
                  ELSE IF i \in f.links /\ Unused(i) THEN "deleted" ELSE links[i].state
      /\ \A i \in DOMAIN links' : i \in DOMAIN links \/
            (f.op \in Issuing /\ links'[i] = Link(f.user, Issues[f.op]))
  BY CommitWrites
<1>3. flight'[r].op \notin Consuming \cup Replacing
  BY <1>1, IdleOp, OperationSets DEF Replacing
<1> HIDE DEF f
<1>4. Holding'
  <2>1. ASSUME NEW q \in Request, flight'[q].op \in Consuming
        PROVE  links'[flight'[q].row].state = "unused" /\ links'[flight'[q].row].user = flight'[q].user
    <3>1. q # r /\ flight'[q] = flight[q] /\ flight[q].op \in Consuming
      BY <2>1, <1>1, <1>3
    <3>2. /\ flight[q] # Idle /\ flight[q].row \in DOMAIN links
          /\ links[flight[q].row].state = "unused"
          /\ links[flight[q].row].user = flight[q].user
      BY <3>1, BusyNotIdle DEF Holding
    <3>3. flight[q].row \notin f.links
      BY <3>1, <1>1, OperationSets DEF Clear, LinkHeld, Flight
    <3>4. ~ (f.op \in Consuming /\ flight[q].row = f.row)
      BY <3>1 DEF Holding, f
    <3> QED BY <3>1, <3>2, <3>3, <3>4, <1>2
  <2>2. ASSUME NEW q1 \in Request, NEW q2 \in Request, flight'[q1].op \in Consuming,
               flight'[q2].op \in Consuming, flight'[q1].row = flight'[q2].row
        PROVE  q1 = q2
    <3>1. q1 # r /\ q2 # r
      BY <2>2, <1>3
    <3> QED BY <3>1, <2>2, <1>1 DEF Holding
  <2>3. Consuming' = Consuming
    BY DEF Consuming, Consumes
  <2> QED BY <2>1, <2>2, <2>3 DEF Holding
<1>5. Resettable'
  <2>1. ASSUME NEW i \in DOMAIN links', links'[i].purpose = "PASSWORD_RESET"
        PROVE  account'[links'[i].user].password # NoPassword
    <3>1. CASE i \in DOMAIN links
      <4>1. /\ links'[i].user = links[i].user /\ links[i].user \in User
            /\ account[links[i].user] # Absent /\ HasPassword(links[i].user)
        BY <3>1, <2>1, <1>2, RowsTyped DEF IInv, Owned, Resettable
      <4> QED BY <4>1, <1>2 DEF HasPassword
    <3>2. CASE i \notin DOMAIN links
      <4>1. f.op \in Issuing /\ links'[i] = Link(f.user, Issues[f.op])
        BY <3>2, <1>2
      <4>2. links'[i].user = f.user /\ Issues[f.op] = "PASSWORD_RESET"
        BY <4>1, <2>1 DEF Link
      <4>3. f.op = "forgot_password"
        BY <4>1, <4>2, OperationSets DEF Issues
      <4>4. HasPassword(f.user)
        BY <4>3 DEF Resettable, Replacing, f
      <4> QED BY <4>2, <4>4, <1>1, <1>2 DEF HasPassword
    <3> QED BY <3>1, <3>2
  <2>2. ASSUME NEW q \in Request, flight'[q].op \in Replacing
        PROVE  account'[flight'[q].user].password # NoPassword
    <3>1. q # r /\ flight'[q] = flight[q] /\ flight[q].op \in Replacing
      BY <2>2, <1>1, <1>3
    <3>2. /\ flight[q].user \in User /\ account[flight[q].user] # Absent
          /\ HasPassword(flight[q].user)
      BY <3>1, BusyNotIdle DEF IInv, Owned, Resettable
    <3> QED BY <3>1, <3>2, <1>2 DEF HasPassword
  <2> QED BY <2>1, <2>2 DEF Resettable, HasPassword
<1> QED BY <1>4, <1>5

-----------------------------------------------------------------------------
(* The invariant, and what it says of a step.                               *)

LEMMA LConsume ==
    ASSUME LInv, NEW r \in Request,
           NEW op \in {"verify_email", "reset_password", "accept_invitation"},
           NEW i \in DOMAIN links, NEW p, Consume(r, op, i, p)
    PROVE  Holding' /\ Resettable'
<1>1. op \notin Replacing
  BY DEF Replacing
<1>2. Begin(r, op, links[i].user, i, p) /\ Unused(i) /\ ~ LinkHeld(i)
  BY DEF Consume, Usable
<1> QED BY <1>1, <1>2, LBegin

LEMMA LLinks ==
    ASSUME LInv, NEW r \in Request, Links(r)
    PROVE  Holding' /\ Resettable'
<1>1. ASSUME NEW i \in DOMAIN links, NEW p \in Password,
             VerifyEmail(r, i) \/ ResetPassword(r, i, p) \/ AcceptInvitation(r, i, p)
      PROVE  Holding' /\ Resettable'
  BY <1>1, LConsume DEF VerifyEmail, ResetPassword, AcceptInvitation
<1>2. ASSUME NEW u \in User,
             \/ ResendVerification(r, u) \/ ForgotPassword(r, u)
             \/ ResendInvitation(r, u) \/ RevokeInvitation(r, u)
      PROVE  Holding' /\ Resettable'
  <2>1. PICK op \in {"resend_verification", "forgot_password", "resend_invitation",
                     "revoke_invitation"} :
           Begin(r, op, u, 0, NoPassword) /\ (op = "forgot_password" => HasPassword(u))
    BY <1>2 DEF ResendVerification, ForgotPassword, ResendInvitation, RevokeInvitation, Ask,
                HasPassword
  <2>2. op \notin Consuming /\ (op \in Replacing => op = "forgot_password")
    BY OperationSets DEF Replacing
  <2> QED BY <2>1, <2>2, LBegin
<1>3. \E p : p \in Password
  BY AccountsAssumption
<1> QED BY <1>1, <1>2, <1>3 DEF Links

LEMMA LSessions ==
    ASSUME LInv, NEW r \in Request, Sessions(r)
    PROVE  Holding' /\ Resettable'
<1>1. ASSUME NEW u, NEW row, NEW p, NEW op \in {"login", "refresh", "replay", "logout"},
             Begin(r, op, u, row, p)
      PROVE  Holding' /\ Resettable'
  <2>1. op \notin Consuming \cup Replacing
    BY OperationSets DEF Replacing
  <2> QED BY <1>1, <2>1, LBegin
<1>2. ASSUME NEW u \in User, NEW p \in Password, Login(r, u, p)
      PROVE  Holding' /\ Resettable'
  BY <1>1, <1>2 DEF Login
<1>3. ASSUME NEW t \in DOMAIN tokens, Refresh(r, t) \/ Replay(r, t)
      PROVE  Holding' /\ Resettable'
  BY <1>1, <1>3 DEF Refresh, Replay
<1>4. ASSUME NEW u \in User, Logout(r, u)
      PROVE  Holding' /\ Resettable'
  BY <1>1, <1>4 DEF Logout
<1>5. ASSUME NEW u \in User, NEW current \in Password, NEW new \in Password,
             ChangePassword(r, u, current, new)
      PROVE  Holding' /\ Resettable'
  <2>1. Begin(r, "change_password", u, 0, new) /\ HasPassword(u)
    BY <1>5, AccountsAssumption DEF ChangePassword, HasPassword
  <2>2. "change_password" \notin Consuming
    BY OperationSets
  <2> QED BY <2>1, <2>2, LBegin
<1>6. \A u \in User, p \in Password : CustomerLogin(r, u, p) => Login(r, u, p)
  BY DEF CustomerLogin
<1> QED BY <1>2, <1>3, <1>4, <1>5, <1>6 DEF Sessions

LEMMA LNext == LInv /\ [Next]_vars => LInv'
<1> SUFFICES ASSUME LInv, [Next]_vars PROVE LInv'
  OBVIOUS
<1>1. IInv'
  BY NextPreserves DEF LInv
<1>2. ASSUME NEW r \in Request, Links(r) \/ Sessions(r) PROVE Holding' /\ Resettable'
  BY <1>2, LLinks, LSessions
<1>3. ASSUME NEW r \in Request, NEW u \in User, Deactivate(r, u) \/ Activate(r, u)
      PROVE  Holding' /\ Resettable'
  <2>1. {"deactivate", "activate"} \cap (Consuming \cup Replacing) = {}
    BY OperationSets DEF Replacing
  <2>2. \E op \in {"deactivate", "activate"} : Begin(r, op, u, 0, NoPassword)
    BY <1>3 DEF Deactivate, Activate
  <2> QED BY <2>1, <2>2, LBegin
<1>4. ASSUME NEW r \in Request, Sweep(r) \/ Commit(r) \/ Abort(r)
      PROVE  Holding' /\ Resettable'
  BY <1>4, LSweep, LCommit, LAbort
<1>5. ASSUME NEW u \in User, Register(u) \/ Invite(u) PROVE Holding' /\ Resettable'
  BY <1>5, LInsert DEF Register, Invite
<1>6. ASSUME UNCHANGED vars PROVE Holding' /\ Resettable'
  <2>1. UNCHANGED <<account, links, flight>>
    BY <1>6 DEF vars, token_rows
  <2> QED BY <2>1 DEF LInv, Holding, Resettable, HasPassword
<1>7. Holding' /\ Resettable'
  BY <1>2, <1>3, <1>4, <1>5, <1>6 DEF Next
<1> QED BY <1>1, <1>7 DEF LInv

LEMMA LInvariance == Spec => []LInv
<1>1. Init => LInv
  <2> SUFFICES ASSUME Init PROVE LInv
    OBVIOUS
  <2>1. IInv
    BY InitEstablishes
  <2>2. DOMAIN links = {} /\ \A r \in Request : flight[r].op \notin Consuming \cup Replacing
    BY IdleOp, OperationSets DEF Init, Replacing
  <2> QED BY <2>1, <2>2 DEF LInv, Holding, Resettable
<1> QED BY <1>1, LNext, PTL DEF Spec

\* Which operation can have changed a field.
LEMMA RowAfterFields ==
    ASSUME NEW f \in FlightRecord, NEW row \in Row
    PROVE  LET new == RowAfter(f, row) IN
           /\ new.verified # row.verified => f.op \in {"verify_email", "accept_invitation"}
           /\ new.password # row.password => f.op \in Setting
           /\ new.active # row.active =>
                 f.op \in {"verify_email", "accept_invitation", "activate", "deactivate"}
<1>1. DOMAIN row = {"kind", "password", "verified", "active", "customer"}
  BY DEF Row
<1>2. \A x \in DOMAIN row : RowAfter(f, row)[x] # row[x] => x \in DOMAIN Assigned(f)
  BY DEF RowAfter, Written
<1>3. /\ "verified" \in DOMAIN Assigned(f) => f.op \in {"verify_email", "accept_invitation"}
      /\ "password" \in DOMAIN Assigned(f) => f.op \in Setting
      /\ "active" \in DOMAIN Assigned(f) =>
            f.op \in {"verify_email", "accept_invitation", "activate", "deactivate"}
  <2>1. CASE f.op \in {"verify_email", "accept_invitation", "activate", "deactivate"}
    BY <2>1 DEF Assigned, Setting
  <2>2. CASE f.op \in {"reset_password", "change_password"}
    BY <2>2 DEF Assigned, Setting
  <2>3. CASE f.op \notin Setting \cup {"verify_email", "activate", "deactivate"}
    <3>1. Assigned(f) = [x \in {} |-> TRUE]
      BY <2>3 DEF Assigned, Setting
    <3> QED BY <3>1
  <2> QED BY <2>1, <2>2, <2>3 DEF Setting
<1> QED BY <1>1, <1>2, <1>3

LEMMA CommitPaid ==
    ASSUME LInv, NEW r \in Request, Commit(r), NEW u \in User
    PROVE  PaidFor(u)
<1> DEFINE f == flight[r]
           new == RowAfter(f, account[f.user])
<1>1. /\ f \in FlightRecord /\ f # Idle /\ account[f.user] \in Row
      /\ account'[f.user] = new /\ flight'[r] = Idle
      /\ \A v \in User \ {f.user} : account'[v] = account[v]
  BY CommitWrites DEF LInv
<1>2. \A op : f.op = op => Finished(op, f.user)
  BY <1>1 DEF Finished
<1>3. f.op \in Consuming => Spent(f.user, Consumes[f.op])
  <2> SUFFICES ASSUME f.op \in Consuming PROVE Spent(f.user, Consumes[f.op])
    OBVIOUS
  <2>1. /\ f.row \in DOMAIN links /\ links[f.row].purpose = Consumes[f.op]
        /\ links[f.row].state = "unused" /\ links[f.row].user = f.user
    BY <1>1 DEF LInv, IInv, Checked, Holding
  <2>2. links'[f.row].state = "used"
    BY <2>1, CommitWrites DEF LInv
  <2> QED BY <2>1, <2>2 DEF Spent
<1>4. account[f.user].password = NoPassword => f.op \notin {"reset_password", "change_password"}
  <2>1. f.op = "change_password" => HasPassword(f.user)
    BY DEF LInv, Resettable, Replacing
  <2>2. f.op = "reset_password" => HasPassword(f.user)
    <3> SUFFICES ASSUME f.op = "reset_password" PROVE HasPassword(f.user)
      OBVIOUS
    <3>1. f.op \in Consuming /\ Consumes[f.op] = "PASSWORD_RESET"
      BY OperationSets DEF Consumes
    <3>2. f.row \in DOMAIN links /\ links[f.row].purpose = "PASSWORD_RESET"
          /\ links[f.row].user = f.user
      BY <1>1, <3>1 DEF LInv, IInv, Checked, Holding
    <3> QED BY <3>2 DEF LInv, Resettable
  <2> QED BY <2>1, <2>2 DEF HasPassword
<1>5. /\ f.op = "verify_email" => Spent(f.user, "EMAIL_VERIFICATION")
      /\ f.op = "accept_invitation" => Spent(f.user, "INVITATION")
      /\ f.op = "reset_password" => Spent(f.user, "PASSWORD_RESET")
  <2>1. /\ Consumes["verify_email"] = "EMAIL_VERIFICATION"
        /\ Consumes["accept_invitation"] = "INVITATION"
        /\ Consumes["reset_password"] = "PASSWORD_RESET"
    BY DEF Consumes
  <2> QED BY <2>1, <1>3, OperationSets
<1>6. /\ new.verified # account[f.user].verified =>
            f.op \in {"verify_email", "accept_invitation"}
      /\ new.password # account[f.user].password => f.op \in Setting
      /\ new.active # account[f.user].active =>
            f.op \in {"verify_email", "accept_invitation", "activate", "deactivate"}
  BY <1>1, RowAfterFields
<1> HIDE DEF f, new
<1>7. CASE u = f.user
  BY <1>7, <1>1, <1>2, <1>4, <1>5, <1>6 DEF PaidFor, Setting
<1>8. CASE u # f.user
  BY <1>8, <1>1 DEF PaidFor
<1> QED BY <1>7, <1>8

LEMMA OthersWriteNoAccount ==
    ASSUME NEW r \in Request, Links(r) \/ Sessions(r)
    PROVE  UNCHANGED account
<1>1. Links(r) => UNCHANGED account
  BY DEF Links, VerifyEmail, ResetPassword, AcceptInvitation, ResendVerification, ForgotPassword,
         ResendInvitation, RevokeInvitation, Consume, Ask, Begin
<1>2. Sessions(r) => UNCHANGED account
  BY DEF Sessions, Login, CustomerLogin, Refresh, Replay, Logout, ChangePassword, Begin
<1> QED BY <1>1, <1>2

\* No account is confirmed, given another password, let in or shut out but by
\* using up an unused link of that account and that purpose, by its owner who
\* knew the password, or by an administrator.
THEOREM LinksPay == Spec => LinkPaysForChange
<1>1. ASSUME LInv, [Next]_vars, NEW u \in User PROVE PaidFor(u)
  <2>1. CASE UNCHANGED account
    BY <2>1 DEF PaidFor
  <2>2. ASSUME NEW r \in Request, Commit(r) PROVE PaidFor(u)
    BY <1>1, <2>2, CommitPaid
  <2>3. ASSUME NEW v \in User, Register(v) \/ Invite(v) PROVE PaidFor(u)
    <3>1. PICK row : account[v] = Absent /\ account' = [account EXCEPT ![v] = row]
      BY <2>3 DEF Register, Invite, InsertUser
    <3>2. account[u] = Absent \/ account'[u] = account[u]
      BY <1>1, <3>1 DEF LInv, IInv, Typed
    <3> QED BY <3>2 DEF PaidFor
  <2>4. ASSUME NEW r \in Request, NEW v \in User, Deactivate(r, v) \/ Activate(r, v)
        PROVE  UNCHANGED account
    BY <2>4 DEF Deactivate, Activate, Begin
  <2>5. ASSUME NEW r \in Request, Sweep(r) \/ Abort(r) PROVE UNCHANGED account
    BY <2>5 DEF Sweep, Abort
  <2>6. UNCHANGED vars => UNCHANGED account
    BY DEF vars
  <2> QED BY <1>1, <2>1, <2>2, <2>3, <2>4, <2>5, <2>6, OthersWriteNoAccount DEF Next
<1>2. LInv /\ [Next]_vars => [\A u \in User : PaidFor(u)]_vars
  BY <1>1
<1> QED BY <1>2, LInvariance, PTL DEF Spec, LinkPaysForChange

-----------------------------------------------------------------------------
(* Sign-outs that nothing of the account overlapped.                        *)

\* A sign-out of every device that nothing of its account overlapped, still in
\* flight.
Quiet(r) == flight[r].op \in Revoking /\ r \notin met

\* It is alone with its account; once its statements ran, they named whatever
\* is left to take back.
Undisturbed ==
    \A r \in Request : Quiet(r) =>
        /\ \A q \in Request \ {r} : flight[q] # Idle => flight[q].user # flight[r].user
        /\ flight[r].stage = "commit" =>
              \A t \in DOMAIN tokens :
                 tokens[t].user = flight[r].user /\ tokens[t].state # "revoked"
                 => t \in flight[r].tokens
        /\ flight[r].stage = "commit" /\ flight[r].op = "deactivate" =>
              \A i \in DOMAIN links :
                 links[i].user = flight[r].user /\ Unused(i) => i \in flight[r].links

QInv == IInv /\ Undisturbed

LEMMA RevokingOps ==
    /\ Revoking \subseteq Operations
    /\ Revoking \cap (Issuing \cup SigningIn) = {}
    /\ \A r \in Request : Flight(r) <=> flight[r].op # "idle"
  BY OperationSets DEF Revoking, Operations, SigningIn, Flight

LEMMA QAbort ==
    ASSUME QInv, NEW r \in Request, Abort(r)
    PROVE  Undisturbed'
<1>1. /\ UNCHANGED <<account, links, tokens>>
      /\ flight' = [flight EXCEPT ![r] = Idle] /\ met' = met \ {r}
  BY DEF Abort, token_rows
<1>2. /\ flight'[r] = Idle
      /\ \A q \in Request \ {r} : flight'[q] = flight[q]
  BY <1>1 DEF QInv, IInv, Typed
<1>3. flight'[r].op \notin Revoking
  BY <1>2, IdleOp, RevokingOps
<1>4. \A q \in Request : Quiet(q)' => q # r /\ Quiet(q)
  BY <1>1, <1>2, <1>3 DEF Quiet, Revoking
<1> QED BY <1>1, <1>2, <1>4 DEF QInv, Undisturbed, Unused

\* The statements of a sign-out, or of a deactivation, name all there is.
LEMMA QSweep ==
    ASSUME QInv, NEW r \in Request, Sweep(r)
    PROVE  Undisturbed'
<1>1. UNCHANGED <<account, links, tokens, met>>
  BY SweepKeeps DEF QInv, Sweep
<1>2. \A q \in Request :
         /\ flight'[q].op = flight[q].op
         /\ flight[q] = Idle <=> flight'[q] = Idle
         /\ flight[q] # Idle => flight'[q].user = flight[q].user
  BY SweepKeeps DEF QInv
<1>3. \A q \in Request \ {r} : flight'[q] = flight[q]
  BY DEF Sweep, QInv, IInv, Typed
<1>4. /\ flight[r].op \in Sweeping =>
            flight'[r].links = {i \in DOMAIN links : Names(flight[r], i) /\ Unused(i)}
      /\ flight[r].op \in Revoking =>
            flight'[r].tokens = {t \in DOMAIN tokens :
                tokens[t].user = flight[r].user /\ tokens[t].state # "revoked"}
  <2>1. flight[r] # Idle /\ flight[r] \in FlightRecord
    BY IdleOp DEF Sweep, Flight, QInv, IInv, Typed
  <2> QED BY <2>1 DEF Sweep, QInv, IInv, Typed, FlightRecord
<1>5. \A q \in Request : Quiet(q)' <=> Quiet(q)
  BY <1>1, <1>2 DEF Quiet, Revoking
<1>6. \A q \in Request : Quiet(q) => flight[q] # Idle
  BY IdleOp, RevokingOps DEF Quiet
<1> SUFFICES ASSUME NEW q \in Request, Quiet(q)
             PROVE  /\ \A p \in Request \ {q} : flight'[p] # Idle => flight'[p].user # flight'[q].user
                    /\ flight'[q].stage = "commit" =>
                          \A t \in DOMAIN tokens :
                             tokens[t].user = flight'[q].user /\ tokens[t].state # "revoked"
                             => t \in flight'[q].tokens
                    /\ flight'[q].stage = "commit" /\ flight'[q].op = "deactivate" =>
                          \A i \in DOMAIN links :
                             links[i].user = flight'[q].user /\ Unused(i) => i \in flight'[q].links
  BY <1>1, <1>5 DEF Undisturbed, Unused
<1>7. \A p \in Request \ {q} : flight'[p] # Idle => flight'[p].user # flight'[q].user
  BY <1>2, <1>6 DEF QInv, Undisturbed
<1>8. CASE q # r
  BY <1>3, <1>7, <1>8 DEF QInv, Undisturbed
<1>9. CASE q = r
  <2>1. flight'[r].user = flight[r].user /\ flight'[r].op = flight[r].op /\ flight[r].op \in Revoking
    BY <1>2, <1>6, <1>9 DEF Quiet
  <2>2. flight[r].op = "deactivate" =>
           flight[r].op \in Sweeping /\ \A i : Names(flight[r], i) <=> links[i].user = flight[r].user
    BY OperationSets DEF Sweeping, Names
  <2> QED BY <1>4, <1>7, <1>9, <2>1, <2>2
<1> QED BY <1>8, <1>9

\* A request that begins beside a sign-out of the same account marks it.
LEMMA QBegin ==
    ASSUME QInv, NEW r \in Request, NEW op, NEW u, NEW row, NEW p, Begin(r, op, u, row, p)
    PROVE  Undisturbed'
<1>1. /\ UNCHANGED <<account, links, tokens>>
      /\ \A q \in Request \ {r} : flight'[q] = flight[q]
      /\ flight'[r].op = op /\ flight'[r].user = u
      /\ flight'[r].stage = IF op \in Sweeping \cup Revoking THEN "sweep" ELSE "commit"
  BY DEF Begin, token_rows, QInv, IInv, Typed
<1> DEFINE others == {q \in Request \ {r} : Flight(q) /\ Of(q) = u}
<1>2. met' = met \cup {q \in others : flight[q].op \in Revoking}
                 \cup (IF others # {} /\ op \in Revoking THEN {r} ELSE {})
  BY DEF Begin
<1>3. \A q \in Request : flight[q] # Idle => Flight(q)
  BY IdleOp DEF QInv, IInv, Typed, Flight, FlightRecord
<1>4. \A q \in Request : Quiet(q) => Flight(q)
  BY RevokingOps, IdleOp DEF Quiet
<1>5. Revoking' = Revoking
  BY DEF Revoking
<1>6. ASSUME NEW q \in Request \ {r}, Quiet(q)'
      PROVE  Quiet(q) /\ flight[q].user # u
  BY <1>1, <1>2, <1>4, <1>5, <1>6 DEF Quiet, Of
<1>7. ASSUME Quiet(r)'
      PROVE  /\ flight'[r].stage # "commit"
             /\ \A q \in Request \ {r} : flight[q] # Idle => flight[q].user # u
  BY <1>1, <1>2, <1>3, <1>5, <1>7 DEF Quiet, Of
<1> HIDE DEF others
<1> QED BY <1>1, <1>6, <1>7 DEF QInv, Undisturbed, Unused

LEMMA QInsert ==
    ASSUME QInv, NEW u \in User, NEW row, NEW purpose \in {"EMAIL_VERIFICATION", "INVITATION"},
           InsertUser(u, row, purpose)
    PROVE  Undisturbed'
<1>1. /\ account[u] = Absent /\ UNCHANGED <<tokens, flight, met>>
      /\ links' = Append(links, Link(u, purpose))
  BY DEF InsertUser
<1>2. /\ links \in Seq(LinkRow) /\ Len(links) \in Nat /\ Link(u, purpose).user = u
  BY DEF QInv, IInv, Typed, Link
<1>3. \A i \in DOMAIN links' :
         (i \in DOMAIN links /\ links'[i] = links[i]) \/ links'[i].user = u
  BY <1>1, <1>2
<1>4. \A q \in Request : Quiet(q)' <=> Quiet(q)
  BY <1>1 DEF Quiet, Revoking
<1>5. \A q \in Request : Quiet(q) => flight[q].user # u
  BY <1>1, IdleOp, RevokingOps DEF Quiet, QInv, IInv, Owned
<1> QED BY <1>1, <1>3, <1>4, <1>5 DEF QInv, Undisturbed, Unused

\* What a commit of another account writes, and what one of this one leaves.
LEMMA TablesAfterCommit ==
    ASSUME IInv, NEW r \in Request, Commit(r)
    PROVE  /\ flight[r] # Idle /\ flight'[r] = Idle
           /\ \A q \in Request \ {r} : flight'[q] = flight[q]
           /\ met' = met \ {r}
           /\ \A t \in DOMAIN tokens' :
                 \/ /\ t \in DOMAIN tokens /\ tokens'[t].user = tokens[t].user
                    /\ tokens'[t].state \in {tokens[t].state, "revoked"}
                    /\ t \in flight[r].tokens => tokens'[t].state = "revoked"
                 \/ tokens'[t].user = flight[r].user /\ IssuesPair(flight[r])
           /\ \A i \in DOMAIN links' :
                 \/ /\ i \in DOMAIN links /\ links'[i].user = links[i].user
                    /\ Unused(i)' => Unused(i)
                    /\ i \in flight[r].links => ~ Unused(i)'
                    /\ links'[i].state \in {"unused", "used", "deleted"}
                 \/ links'[i].user = flight[r].user /\ flight[r].op \in Issuing
<1>1. /\ flight[r] # Idle /\ flight[r] \in FlightRecord
      /\ flight \in [Request -> FlightRecord \cup {Idle}]
      /\ links \in Seq(LinkRow) /\ tokens \in Seq(TokenRow)
      /\ Len(links) \in Nat /\ Len(tokens) \in Nat /\ Typed
  BY IdleOp DEF IInv, Typed, Commit, Flight
<1>2. flight'[r] = Idle /\ met' = met \ {r} /\ \A q \in Request \ {r} : flight'[q] = flight[q]
  BY <1>1 DEF Commit
<1>3. tokens' = TokensAfter(flight[r]) /\ links' = LinksAfter(flight[r])
  BY DEF Commit
<1>4. ASSUME NEW t \in DOMAIN tokens'
      PROVE  \/ /\ t \in DOMAIN tokens /\ tokens'[t].user = tokens[t].user
                /\ tokens'[t].state \in {tokens[t].state, "revoked"}
                /\ t \in flight[r].tokens => tokens'[t].state = "revoked"
             \/ tokens'[t].user = flight[r].user /\ IssuesPair(flight[r])
  <2>0. /\ tokens' \in Seq(TokenRow)
        /\ Len(tokens') = IF IssuesPair(flight[r]) THEN Len(tokens) + 1 ELSE Len(tokens)
    BY <1>1, <1>3, TokensAfterType
  <2>1. t \in DOMAIN tokens \/ (IssuesPair(flight[r]) /\ t = Len(tokens) + 1)
    BY <1>1, <1>4, <2>0
  <2>2. CASE t \in DOMAIN tokens
    <3>1. /\ tokens'[t].user = tokens[t].user
          /\ tokens'[t].state =
                IF t \in flight[r].tokens \/ (flight[r].op = "refresh" /\ t = flight[r].row)
                THEN "revoked" ELSE tokens[t].state
      BY <1>1, <1>3, <2>2, TokensAfterType
    <3> QED BY <2>2, <3>1
  <2>3. CASE IssuesPair(flight[r]) /\ t = Len(tokens) + 1
    <3>1. tokens'[t] = [user |-> flight[r].user, state |-> "live",
                        parent |-> IF flight[r].op = "refresh" THEN flight[r].row ELSE 0]
      BY <1>1, <1>3, <2>3, TokensAfterType
    <3> QED BY <2>3, <3>1
  <2> QED BY <2>1, <2>2, <2>3
<1>5. ASSUME NEW i \in DOMAIN links'
      PROVE  \/ /\ i \in DOMAIN links /\ links'[i].user = links[i].user
                /\ Unused(i)' => Unused(i)
                /\ i \in flight[r].links => ~ Unused(i)'
                /\ links'[i].state \in {"unused", "used", "deleted"}
             \/ links'[i].user = flight[r].user /\ flight[r].op \in Issuing
  <2>0. /\ links' \in Seq(LinkRow)
        /\ Len(links') = IF flight[r].op \in Issuing THEN Len(links) + 1 ELSE Len(links)
    BY <1>1, <1>3, LinksAfterType
  <2>1. i \in DOMAIN links \/ (flight[r].op \in Issuing /\ i = Len(links) + 1)
    BY <1>1, <1>5, <2>0
  <2>2. i \in DOMAIN links => links[i].state \in {"unused", "used", "deleted"}
    BY <1>1, RowsTyped DEF LinkRow
  <2>3. CASE i \in DOMAIN links
    <3>1. /\ links'[i].user = links[i].user
          /\ links'[i].state =
                IF flight[r].op \in Consuming /\ i = flight[r].row THEN "used"
                ELSE IF i \in flight[r].links /\ Unused(i) THEN "deleted" ELSE links[i].state
      BY <1>1, <1>3, <2>3, LinksAfterType
    <3> QED BY <2>2, <2>3, <3>1 DEF Unused
  <2>4. CASE flight[r].op \in Issuing /\ i = Len(links) + 1
    <3>1. links'[i] = Link(flight[r].user, Issues[flight[r].op])
      BY <1>1, <1>3, <2>4, LinksAfterType
    <3> QED BY <2>4, <3>1 DEF Link
  <2> QED BY <2>1, <2>3, <2>4
<1> QED BY <1>1, <1>2, <1>4, <1>5

LEMMA QCommit ==
    ASSUME QInv, NEW r \in Request, Commit(r)
    PROVE  Undisturbed'
<1>1. \A q \in Request : Quiet(q)' => q # r /\ Quiet(q) /\ flight[q].user # flight[r].user
  BY TablesAfterCommit, IdleOp, RevokingOps DEF QInv, Undisturbed, Quiet, Revoking
<1> QED BY <1>1, TablesAfterCommit DEF QInv, Undisturbed

LEMMA AlwaysBegins ==
    ASSUME NEW r \in Request, Links(r) \/ Sessions(r)
    PROVE  \E op, u, row, p : Begin(r, op, u, row, p)
<1>1. Links(r) => \E op, u, row, p : Begin(r, op, u, row, p)
  BY DEF Links, VerifyEmail, ResetPassword, AcceptInvitation, ResendVerification,
         ForgotPassword, ResendInvitation, RevokeInvitation, Consume, Ask
<1>2. Sessions(r) => \E op, u, row, p : Begin(r, op, u, row, p)
  BY DEF Sessions, Login, CustomerLogin, Refresh, Replay, Logout, ChangePassword
<1> QED BY <1>1, <1>2

LEMMA QNext == QInv /\ [Next]_vars => QInv'
<1> SUFFICES ASSUME QInv, [Next]_vars PROVE QInv'
  OBVIOUS
<1>1. IInv'
  BY NextPreserves DEF QInv
<1>2. ASSUME NEW r \in Request, Links(r) \/ Sessions(r) PROVE Undisturbed'
  BY <1>2, AlwaysBegins, QBegin
<1>3. ASSUME NEW r \in Request, NEW u \in User, Deactivate(r, u) \/ Activate(r, u)
      PROVE  Undisturbed'
  BY <1>3, QBegin DEF Deactivate, Activate
<1>4. ASSUME NEW r \in Request, Sweep(r) \/ Commit(r) \/ Abort(r) PROVE Undisturbed'
  BY <1>4, QSweep, QCommit, QAbort
<1>5. ASSUME NEW u \in User, Register(u) \/ Invite(u) PROVE Undisturbed'
  BY <1>5, QInsert DEF Register, Invite
<1>6. ASSUME UNCHANGED vars PROVE Undisturbed'
  <2>1. UNCHANGED <<links, tokens, flight, met>>
    BY <1>6 DEF vars, token_rows
  <2> QED BY <2>1 DEF QInv, Undisturbed, Quiet, Unused, Revoking
<1>7. Undisturbed'
  BY <1>2, <1>3, <1>4, <1>5, <1>6 DEF Next
<1> QED BY <1>1, <1>7 DEF QInv

LEMMA QInit == Init => QInv
<1> SUFFICES ASSUME Init PROVE QInv
  OBVIOUS
<1>1. IInv
  BY InitEstablishes
<1>2. \A r \in Request : ~ Quiet(r)
  BY IdleOp, RevokingOps DEF Init, Quiet
<1> QED BY <1>1, <1>2 DEF QInv, Undisturbed

LEMMA QInvariance == Spec => []QInv
  BY QInit, QNext, PTL DEF Spec

\* A logout, a replay, a change or reset of the password, or a deactivation
\* that no other request of the account overlapped leaves it no live refresh
\* token, and a deactivation no link either.
THEOREM QuietIsTotal == Spec => QuietSignOutIsTotal
<1> DEFINE Total(r) ==
       LET f == flight[r] IN
       /\ f.op \in {"logout", "change_password", "reset_password", "deactivate", "replay"}
       /\ r \notin met /\ Commit(r)
       => /\ \A t \in DOMAIN tokens' : tokens'[t].user = f.user => tokens'[t].state = "revoked"
          /\ f.op = "deactivate" =>
                \A i \in DOMAIN links' :
                    links'[i].user = f.user => links'[i].state \in {"used", "deleted"}
<1>1. ASSUME QInv, NEW r \in Request PROVE Total(r)
  <2> SUFFICES ASSUME flight[r].op \in Revoking, r \notin met, Commit(r)
               PROVE  /\ \A t \in DOMAIN tokens' :
                            tokens'[t].user = flight[r].user => tokens'[t].state = "revoked"
                      /\ flight[r].op = "deactivate" =>
                            \A i \in DOMAIN links' : links'[i].user = flight[r].user
                               => links'[i].state \in {"used", "deleted"}
    BY DEF Revoking
  <2>1. Quiet(r) /\ flight[r].stage = "commit"
    BY DEF Quiet, Commit
  <2>2. ~ IssuesPair(flight[r]) /\ flight[r].op \notin Issuing
    BY RevokingOps DEF IssuesPair, SigningIn
  <2> QED BY <1>1, <2>1, <2>2, TablesAfterCommit DEF QInv, Undisturbed, Unused
<1>2. QInv => [\A r \in Request : Total(r)]_vars
  BY <1>1
<1> QED BY <1>2, QInvariance, PTL DEF QuietSignOutIsTotal

-----------------------------------------------------------------------------
(* Devices: the families of tokens.                                         *)

\* A set of numbers has a least one.
LEMMA Least ==
    ASSUME NEW T \in SUBSET Nat, T # {}
    PROVE  \E m \in T : \A n \in T : m =< n
<1>1. IsWellFoundedOn(OpToRel(<, Nat), Nat)
  BY NatLessThanWellFounded DEF OpToRel
<1>2. PICK m \in T : \A n \in T : ~ <<n, m>> \in OpToRel(<, Nat)
  BY <1>1, WFMin
<1>3. \A n \in T : m =< n
  <2> TAKE n \in T
  <2>1. ~ (n < m)
    BY <1>2 DEF OpToRel
  <2> QED BY <2>1
<1> QED BY <1>3

\* A token is refreshed from an earlier one.
Forest(tk) == \A t \in DOMAIN tk : tk[t].parent \in 0..(t - 1)

\* a[t] is the token that t descends from, for the first n.
Rooted(a, n, tk) ==
    a = [t \in 1..n |-> IF t \notin DOMAIN tk \/ tk[t].parent = 0 THEN t ELSE a[tk[t].parent]]

\* The recursion of Ancestor has a solution.
LEMMA RootedExists ==
    ASSUME NEW tk, Forest(tk), NEW n \in Nat
    PROVE  \E a : Rooted(a, n, tk)
<1> DEFINE T == {k \in Nat : ~ \E a : Rooted(a, k, tk)}
           Top(t) == t \notin DOMAIN tk \/ tk[t].parent = 0
<1>1. CASE T = {}
  BY <1>1
<1>2. CASE T # {}
  <2>1. PICK k \in T : \A m \in T : k =< m
    <3> T \in SUBSET Nat OBVIOUS
    <3> HIDE DEF T
    <3> QED BY <1>2, Least
  <2>2. k # 0
    <3>1. Rooted([t \in 1..0 |-> t], 0, tk)
      BY DEF Rooted
    <3> QED BY <3>1, <2>1
  <2>3. k \in Nat \ {0} /\ k - 1 \in Nat /\ k - 1 \notin T
    BY <2>1, <2>2
  <2>4. PICK b : Rooted(b, k - 1, tk)
    BY <2>3
  <2> DEFINE a == [t \in 1..k |-> IF t # k THEN b[t] ELSE IF Top(k) THEN k ELSE b[tk[k].parent]]
  <2>5. \A t \in 1..k : a[t] = IF t # k THEN b[t] ELSE IF Top(k) THEN k ELSE b[tk[k].parent]
    OBVIOUS
  <2>6. \A t \in 1..(k - 1) : b[t] = IF Top(t) THEN t ELSE b[tk[t].parent]
    BY <2>4 DEF Rooted
  <2>a. a = [t \in 1..k |-> a[t]]
    OBVIOUS
  <2> HIDE DEF a
  <2>7. ASSUME NEW t \in 1..k
        PROVE  a[t] = IF Top(t) THEN t ELSE a[tk[t].parent]
    <3>1. ~ Top(t) => tk[t].parent \in 1..(t - 1)
      BY DEF Forest
    <3>2. ~ Top(t) => a[tk[t].parent] = b[tk[t].parent]
      BY <3>1, <2>3, <2>5
    <3>3. CASE t = k
      BY <3>2, <3>3, <2>5
    <3>4. CASE t # k
      <4>1. t \in 1..(k - 1)
        BY <3>4, <2>3
      <4> QED BY <4>1, <3>2, <3>4, <2>5, <2>6
    <3> QED BY <3>3, <3>4
  <2>8. Rooted(a, k, tk)
    BY <2>a, <2>7 DEF Rooted
  <2> QED BY <2>8, <2>1
<1> QED BY <1>1, <1>2

\* A token descends from itself or from an earlier one.
LEMMA AncestorIn ==
    ASSUME NEW tk, NEW S, tk \in Seq(S), Forest(tk), NEW n \in Nat, Len(tk) =< n, NEW a, Rooted(a, n, tk)
    PROVE  \A t \in DOMAIN tk :
              /\ a[t] \in DOMAIN tk
              /\ a[t] = IF tk[t].parent = 0 THEN t ELSE a[tk[t].parent]
<1>1. /\ DOMAIN tk = 1..Len(tk) /\ Len(tk) \in Nat
      /\ \A t \in DOMAIN tk : tk[t].parent # 0 => tk[t].parent \in DOMAIN tk /\ tk[t].parent < t
  BY DEF Forest
<1>2. \A t \in 1..n : a[t] = IF t \notin DOMAIN tk \/ tk[t].parent = 0 THEN t ELSE a[tk[t].parent]
  BY DEF Rooted
<1>3. \A t \in DOMAIN tk : a[t] = IF tk[t].parent = 0 THEN t ELSE a[tk[t].parent]
  BY <1>1, <1>2
<1> DEFINE T == {t \in DOMAIN tk : a[t] \notin DOMAIN tk}
<1>4. ASSUME T # {} PROVE FALSE
  <2>1. T \in SUBSET Nat
    BY <1>1
  <2>2. PICK t \in T : \A s \in T : t =< s
    <3> HIDE DEF T
    <3> QED BY <1>4, <2>1, Least
  <2>3. tk[t].parent # 0 /\ tk[t].parent \in DOMAIN tk \ T
    BY <2>1, <2>2, <1>1, <1>3
  <2> QED BY <2>2, <2>3, <1>3
<1> QED BY <1>3, <1>4

\* More tokens leave the earlier ones their ancestors.
LEMMA AncestorKept ==
    ASSUME NEW S, NEW tk, tk \in Seq(S), Forest(tk), NEW n \in Nat, Len(tk) =< n,
           NEW a, Rooted(a, n, tk),
           NEW tk2, tk2 \in Seq(S), Forest(tk2), Len(tk2) =< n, NEW b, Rooted(b, n, tk2),
           \A t \in DOMAIN tk : t \in DOMAIN tk2 /\ tk2[t].parent = tk[t].parent
    PROVE  \A t \in DOMAIN tk : b[t] = a[t]
<1>1. \A t \in DOMAIN tk : a[t] = IF tk[t].parent = 0 THEN t ELSE a[tk[t].parent]
  BY AncestorIn
<1>2. \A t \in DOMAIN tk : b[t] = IF tk[t].parent = 0 THEN t ELSE b[tk[t].parent]
  <2>1. \A t \in DOMAIN tk2 : b[t] = IF tk2[t].parent = 0 THEN t ELSE b[tk2[t].parent]
    BY AncestorIn
  <2> QED BY <2>1
<1>3. /\ DOMAIN tk = 1..Len(tk) /\ Len(tk) \in Nat
      /\ \A t \in DOMAIN tk : tk[t].parent # 0 => tk[t].parent \in DOMAIN tk /\ tk[t].parent < t
  BY DEF Forest
<1> DEFINE T == {t \in DOMAIN tk : b[t] # a[t]}
<1>4. ASSUME T # {} PROVE FALSE
  <2>1. T \in SUBSET Nat
    BY <1>3
  <2>2. PICK t \in T : \A s \in T : t =< s
    <3> HIDE DEF T
    <3> QED BY <1>4, <2>1, Least
  <2>3. tk[t].parent # 0 /\ tk[t].parent \in DOMAIN tk \ T
    BY <2>1, <2>2, <1>1, <1>2, <1>3
  <2> QED BY <2>2, <2>3, <1>1, <1>2
<1> QED BY <1>4

\* Only a sign-out names tokens, and it issues none.
OnlySignOutsRevoke ==
    \A r \in Request : flight[r].op \in SigningIn => flight[r].tokens = {}

DInv == QInv /\ OnlySignOutsRevoke

LEMMA DNext == DInv /\ [Next]_vars => DInv'
<1> SUFFICES ASSUME DInv, [Next]_vars PROVE DInv'
  OBVIOUS
<1>1. QInv'
  BY QNext DEF DInv
<1>a. SigningIn' = SigningIn /\ SigningIn \subseteq Operations /\ SigningIn \cap Revoking = {}
  BY RevokingOps DEF SigningIn, Operations
<1>b. flight \in [Request -> FlightRecord \cup {Idle}]
  BY DEF DInv, QInv, IInv, Typed
<1>2. ASSUME NEW r \in Request, NEW op, NEW u, NEW row, NEW p, Begin(r, op, u, row, p)
      PROVE  OnlySignOutsRevoke'
  <2>1. flight'[r].tokens = {} /\ \A q \in Request \ {r} : flight'[q] = flight[q]
    BY <1>2, <1>b DEF Begin
  <2> QED BY <2>1, <1>a DEF DInv, OnlySignOutsRevoke
<1>3. ASSUME NEW r \in Request, Links(r) \/ Sessions(r) PROVE OnlySignOutsRevoke'
  BY <1>3, <1>2, AlwaysBegins
<1>4. ASSUME NEW r \in Request, NEW u \in User, Deactivate(r, u) \/ Activate(r, u)
      PROVE  OnlySignOutsRevoke'
  BY <1>4, <1>2 DEF Deactivate, Activate
<1>5. ASSUME NEW r \in Request, Sweep(r) PROVE OnlySignOutsRevoke'
  <2>1. /\ flight[r] \in FlightRecord /\ \A q \in Request \ {r} : flight'[q] = flight[q]
        /\ flight'[r].op = flight[r].op
    BY <1>5, <1>b, IdleOp DEF Sweep, Flight, FlightRecord
  <2>2. flight[r].op \notin Revoking => flight'[r].tokens = {}
    BY <1>5, <1>b, <2>1 DEF Sweep, FlightRecord
  <2> QED BY <1>a, <2>1, <2>2 DEF DInv, OnlySignOutsRevoke
<1>6. ASSUME NEW r \in Request, Commit(r) \/ Abort(r) PROVE OnlySignOutsRevoke'
  <2>1. flight' = [flight EXCEPT ![r] = Idle]
    BY <1>6 DEF Commit, Abort
  <2>2. flight'[r] = Idle /\ \A q \in Request \ {r} : flight'[q] = flight[q]
    BY <1>b, <2>1
  <2> QED BY <1>a, <2>2, IdleOp DEF DInv, OnlySignOutsRevoke
<1>7. ASSUME NEW u \in User, Register(u) \/ Invite(u) PROVE OnlySignOutsRevoke'
  BY <1>7, <1>a DEF Register, Invite, InsertUser, DInv, OnlySignOutsRevoke
<1>8. ASSUME UNCHANGED vars PROVE OnlySignOutsRevoke'
  BY <1>8, <1>a DEF vars, DInv, OnlySignOutsRevoke
<1>9. OnlySignOutsRevoke'
  BY <1>3, <1>4, <1>5, <1>6, <1>7, <1>8 DEF Next
<1> QED BY <1>1, <1>9 DEF DInv

LEMMA DInvariance == Spec => []DInv
<1>1. Init => DInv
  <2> SUFFICES ASSUME Init PROVE DInv
    OBVIOUS
  <2>1. QInv
    BY QInit
  <2>2. \A r \in Request : flight[r].op \notin SigningIn
    BY IdleOp DEF Init, SigningIn
  <2> QED BY <2>1, <2>2 DEF DInv, OnlySignOutsRevoke
<1> QED BY <1>1, DNext, PTL DEF Spec

\* The tokens, with their ancestors, in a reachable state.
FamilyTree ==
    /\ tokens \in Seq(TokenRow) /\ Forest(tokens)
    /\ Len(tokens) =< MaxTokens
    /\ Rooted(Ancestor, MaxTokens, tokens)

LEMMA TokensForest == IInv => FamilyTree
<1> SUFFICES ASSUME IInv PROVE FamilyTree
  OBVIOUS
<1>1. tokens \in Seq(TokenRow) /\ Forest(tokens)
  BY DEF IInv, Typed, Rotation, Forest
<1>2. Len(tokens) =< MaxTokens
  <2>1. SigningInNow \in SUBSET Request
    BY DEF SigningInNow
  <2>2. Cardinality(SigningInNow) \in Nat
    BY <2>1, Counts
  <2>3. Len(tokens) \in Nat
    BY DEF IInv, Typed
  <2> QED BY <2>2, <2>3, AccountsAssumption DEF IInv, Room
<1>3. Ancestor = CHOOSE a : Rooted(a, MaxTokens, tokens)
  BY DEF Ancestor, Rooted, Device
<1>4. \E a : Rooted(a, MaxTokens, tokens)
  BY <1>1, RootedExists, AccountsAssumption
<1> QED BY <1>1, <1>2, <1>3, <1>4 DEF FamilyTree

\* What a commit adds to the families of tokens.
LEMMA FamiliesAfterCommit ==
    ASSUME IInv, FamilyTree, FamilyTree', NEW r \in Request, Commit(r)
    PROVE  /\ \A t \in DOMAIN tokens :
                 /\ t \in DOMAIN tokens' /\ Ancestor'[t] = Ancestor[t]
                 /\ tokens'[t].state = "live" => tokens[t].state = "live"
                 /\ flight[r].op = "login" /\ flight[r].tokens = {} =>
                       tokens'[t].state = tokens[t].state
           /\ \A t \in DOMAIN tokens' \ DOMAIN tokens :
                 /\ flight[r].op \in SigningIn
                 /\ flight[r].op = "login" => Ancestor'[t] = t
                 /\ flight[r].op = "refresh" =>
                       /\ flight[r].row \in DOMAIN tokens
                       /\ tokens[flight[r].row].state = "live"
                       /\ Ancestor'[t] = Ancestor[flight[r].row]
           /\ flight[r].op = "login" =>
                 /\ DOMAIN tokens' = DOMAIN tokens \cup {Len(tokens) + 1}
                 /\ Len(tokens) + 1 \notin DOMAIN tokens
                 /\ tokens'[Len(tokens) + 1].state = "live"
<1> DEFINE f == flight[r]
           n == Len(tokens) + 1
<1>1. /\ f # Idle /\ f \in FlightRecord /\ Typed
      /\ tokens \in Seq(TokenRow) /\ Len(tokens) \in Nat /\ DOMAIN tokens = 1..Len(tokens)
      /\ tokens' = TokensAfter(f)
  BY IdleOp DEF IInv, Typed, Commit, Flight
<1> HIDE DEF f
<1>2. /\ tokens' \in Seq(TokenRow)
      /\ Len(tokens') = IF IssuesPair(f) THEN Len(tokens) + 1 ELSE Len(tokens)
      /\ DOMAIN tokens' = 1..Len(tokens')
  <2>1. /\ tokens' \in Seq(TokenRow)
        /\ Len(tokens') = IF IssuesPair(f) THEN Len(tokens) + 1 ELSE Len(tokens)
    BY <1>1, TokensAfterType
  <2> QED BY <2>1
<1>3. \A t \in DOMAIN tokens :
         /\ t \in DOMAIN tokens' /\ tokens'[t].parent = tokens[t].parent
         /\ tokens'[t].state = IF t \in f.tokens \/ (f.op = "refresh" /\ t = f.row)
                               THEN "revoked" ELSE tokens[t].state
  <2>1. \A t \in DOMAIN tokens : t \in DOMAIN tokens'
    BY <1>1, <1>2
  <2> QED BY <1>1, <2>1, TokensAfterType
<1>4. \A t \in DOMAIN tokens' \ DOMAIN tokens :
         /\ t = n /\ IssuesPair(f)
         /\ tokens'[t].state = "live"
         /\ tokens'[t].parent = IF f.op = "refresh" THEN f.row ELSE 0
  <2>1. IssuesPair(f) => tokens'[n] = [user |-> f.user, state |-> "live",
                                      parent |-> IF f.op = "refresh" THEN f.row ELSE 0]
    BY <1>1, TokensAfterType
  <2>2. \A t \in DOMAIN tokens' \ DOMAIN tokens : t = n /\ IssuesPair(f)
    BY <1>1, <1>2
  <2> QED BY <2>1, <2>2
<1>5. \A t \in DOMAIN tokens : Ancestor'[t] = Ancestor[t]
  BY <1>3, AncestorKept, AccountsAssumption DEF FamilyTree
<1>6. \A t \in DOMAIN tokens' :
         Ancestor'[t] = IF tokens'[t].parent = 0 THEN t ELSE Ancestor'[tokens'[t].parent]
  BY AncestorIn, AccountsAssumption DEF FamilyTree
<1>7. f.op = "refresh" => f.row \in DOMAIN tokens /\ tokens[f.row].state = "live"
  BY DEF f, IInv, Rotation
<1>8. IssuesPair(f) => f.op \in SigningIn
  BY DEF IssuesPair, SigningIn
<1>9. ASSUME NEW t \in DOMAIN tokens' \ DOMAIN tokens
      PROVE  /\ f.op \in SigningIn
             /\ f.op = "login" => Ancestor'[t] = t
             /\ f.op = "refresh" => /\ f.row \in DOMAIN tokens
                                    /\ tokens[f.row].state = "live"
                                    /\ Ancestor'[t] = Ancestor[f.row]
  <2>1. f.op = "login" => Ancestor'[t] = t
    BY <1>4, <1>6
  <2>2. f.op = "refresh" => f.row # 0 /\ Ancestor'[t] = Ancestor'[f.row]
    BY <1>1, <1>4, <1>6, <1>7
  <2> QED BY <1>4, <1>5, <1>7, <1>8, <2>1, <2>2
<1>10. f.op = "login" =>
         /\ DOMAIN tokens' = DOMAIN tokens \cup {n} /\ n \notin DOMAIN tokens
         /\ tokens'[n].state = "live"
  <2>1. f.op = "login" => IssuesPair(f)
    BY DEF IssuesPair
  <2>2. IssuesPair(f) => DOMAIN tokens' = DOMAIN tokens \cup {n} /\ n \notin DOMAIN tokens
    BY <1>1, <1>2
  <2> QED BY <1>4, <2>1, <2>2
<1> QED BY <1>3, <1>5, <1>9, <1>10 DEF f

LEMMA SessionsSeen ==
    ASSUME FamilyTree
    PROVE  /\ HasSession \subseteq Seen /\ Seen \subseteq DOMAIN tokens
           /\ DOMAIN tokens \subseteq Device
<1>1. \A t \in DOMAIN tokens : Ancestor[t] \in DOMAIN tokens
  BY AncestorIn, AccountsAssumption DEF FamilyTree
<1>2. DOMAIN tokens \subseteq Device
  BY AccountsAssumption DEF FamilyTree, Device
<1> QED BY <1>1, <1>2 DEF HasSession, Seen

\* A commit signs one device in, ends some, or neither.
LEMMA CommitIsDeviceStep ==
    ASSUME IInv, FamilyTree, FamilyTree', OnlySignOutsRevoke, NEW r \in Request, Commit(r)
    PROVE  Abstract!Next \/ UNCHANGED <<HasSession, Seen \ HasSession>>
<1>1. /\ HasSession \subseteq Seen /\ Seen \subseteq DOMAIN tokens
  BY SessionsSeen
<1>2. CASE flight[r].op = "login"
  <2> DEFINE n == Len(tokens) + 1
  <2>1. /\ DOMAIN tokens' = DOMAIN tokens \cup {n} /\ n \notin DOMAIN tokens
        /\ tokens'[n].state = "live" /\ Ancestor'[n] = n
        /\ \A t \in DOMAIN tokens :
              Ancestor'[t] = Ancestor[t] /\ tokens'[t].state = tokens[t].state
    BY <1>2, FamiliesAfterCommit DEF OnlySignOutsRevoke, SigningIn
  <2> HIDE DEF n
  <2>2. n \in Device
    <3>1. Len(tokens') =< MaxTokens /\ DOMAIN tokens' = 1..Len(tokens') /\ Len(tokens') \in Nat
      BY DEF FamilyTree
    <3> QED BY <2>1, <3>1, AccountsAssumption DEF Device
  <2>3. Seen' = Seen \cup {n} /\ HasSession' = HasSession \cup {n}
    BY <2>1 DEF Seen, HasSession
  <2>4. (Seen \ HasSession)' = Seen \ HasSession
    BY <1>1, <2>1, <2>3
  <2>5. Abstract!SignIn(n)
    BY <1>1, <2>1, <2>3, <2>4 DEF Abstract!SignIn
  <2> QED BY <2>2, <2>5 DEF Abstract!Next
<1>3. CASE flight[r].op # "login"
  <2>1. Seen' = Seen /\ HasSession' \subseteq HasSession
    <3>1. ASSUME NEW t \in DOMAIN tokens'
          PROVE  /\ \E s \in DOMAIN tokens : Ancestor'[t] = Ancestor[s]
                 /\ tokens'[t].state = "live" =>
                       \E s \in DOMAIN tokens : Ancestor'[t] = Ancestor[s] /\ tokens[s].state = "live"
      <4>1. CASE t \in DOMAIN tokens
        BY <4>1, FamiliesAfterCommit
      <4>2. CASE t \notin DOMAIN tokens
        <5>1. flight[r].op = "refresh"
          BY <1>3, <4>2, FamiliesAfterCommit DEF SigningIn
        <5> QED BY <4>2, <5>1, FamiliesAfterCommit
      <4> QED BY <4>1, <4>2
    <3>2. \A t \in DOMAIN tokens : t \in DOMAIN tokens' /\ Ancestor'[t] = Ancestor[t]
      BY FamiliesAfterCommit
    <3> QED BY <3>1, <3>2 DEF Seen, HasSession
  <2> DEFINE D == HasSession \ HasSession'
  <2>2. (Seen \ HasSession)' = (Seen \ HasSession) \cup D /\ HasSession' = HasSession \ D
    BY <1>1, <2>1
  <2>3. CASE D = {}
    BY <2>2, <2>3
  <2>4. CASE D # {}
    <3>1. D \in SUBSET Device
      BY <1>1, SessionsSeen
    <3>2. Abstract!End(D)
      BY <2>2, <2>4 DEF Abstract!End
    <3> QED BY <3>1, <3>2 DEF Abstract!Next
  <2> QED BY <2>3, <2>4
<1> QED BY <1>2, <1>3

\* Accounts implements Devices: whatever rotations, replays, sign-outs, resets and
\* switches interleave, a device signs in once and, once it ended, never
\* comes back.
THEOREM AccountsKeepDevices == Spec => DevicesEndForGood
<1>1. Init => Abstract!Init
  <2> SUFFICES ASSUME Init PROVE Abstract!Init
    OBVIOUS
  <2>1. DOMAIN tokens = {}
    BY DEF Init
  <2> QED BY <2>1 DEF Abstract!Init, Seen, HasSession
<1>2. DInv /\ FamilyTree /\ FamilyTree' /\ [Next]_vars =>
         [Abstract!Next]_<<HasSession, Seen \ HasSession>>
  <2> SUFFICES ASSUME DInv, FamilyTree, FamilyTree', [Next]_vars
               PROVE  Abstract!Next \/ UNCHANGED <<HasSession, Seen \ HasSession>>
    OBVIOUS
  <2>1. CASE UNCHANGED tokens
    BY <2>1 DEF Seen, HasSession, Ancestor
  <2>2. ASSUME NEW r \in Request, Commit(r)
        PROVE  Abstract!Next \/ UNCHANGED <<HasSession, Seen \ HasSession>>
    BY <2>2, CommitIsDeviceStep DEF DInv, QInv
  <2>3. ASSUME NEW r \in Request, Links(r) \/ Sessions(r) PROVE UNCHANGED tokens
    BY <2>3, AlwaysBegins DEF Begin, token_rows
  <2>4. ASSUME NEW r \in Request, NEW v \in User, Deactivate(r, v) \/ Activate(r, v)
        PROVE  UNCHANGED tokens
    BY <2>4 DEF Deactivate, Activate, Begin, token_rows
  <2>5. ASSUME NEW r \in Request, Sweep(r) \/ Abort(r) PROVE UNCHANGED tokens
    BY <2>5 DEF Sweep, Abort, token_rows
  <2>6. ASSUME NEW v \in User, Register(v) \/ Invite(v) PROVE UNCHANGED tokens
    BY <2>6 DEF Register, Invite, InsertUser
  <2>7. UNCHANGED vars => UNCHANGED tokens
    BY DEF vars, token_rows
  <2> QED BY <2>1, <2>2, <2>3, <2>4, <2>5, <2>6, <2>7 DEF Next
<1>3. DInv => IInv
  BY DEF DInv, QInv
<1> QED BY <1>1, <1>2, <1>3, TokensForest, DInvariance, PTL
        DEF Spec, DevicesEndForGood, Abstract!Spec
=============================================================================
