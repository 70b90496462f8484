----------------------------- MODULE MCAccounts -----------------------------
(***************************************************************************)
(* Requests and accounts for checking Accounts with TLC.                   *)
(***************************************************************************)
EXTENDS Accounts, TLC

CONSTANTS s1, s2, s3, b1, b2, b3, old, new

\* User 1 and user 2 are administrators, users 3 and 4 can be created.
Address(b)   == [box |-> b, lower |-> TRUE]
Shouted(b)   == [box |-> b, lower |-> FALSE]
Admin(b)     == [email |-> Address(b), admin |-> TRUE, active |-> TRUE,
                 password |-> old, attempts |-> 0, locked |-> NoTime]
TwoAdmins    == (1 :> Admin(b1)) @@ (2 :> Admin(b2)) @@ (3 :> NoRow) @@ (4 :> NoRow)
KeyOf(u, e)  == [user |-> u, active |-> TRUE, expires |-> e, usage |-> 0]
SomeKeys     == (1 :> KeyOf(1, 0)) @@ (2 :> KeyOf(2, NoTime)) @@ (3 :> KeyOf(1, NoTime))
                @@ (4 :> NoRow)
Access(u, e)    == [user |-> u, type |-> "access", expires |-> e]
Refresh(u, e)   == [user |-> u, type |-> "refresh", expires |-> e]
StartingTokens  == {Access(1, 1), Access(2, 1), Refresh(2, 1)}

Blank == [kind |-> "use", by |-> "token", user |-> 1, key |-> 1, email |-> Address(b1),
          password |-> old, current |-> old, target |-> 1, remember |-> FALSE,
          admin |-> FALSE]
Login(b, p)      == [Blank EXCEPT !.kind = "login", !.by = "none", !.email = Shouted(b),
                                  !.password = p]
LoginLong(b, p)  == [Login(b, p) EXCEPT !.remember = TRUE]
Startup(b)       == [Blank EXCEPT !.kind = "startup", !.by = "none", !.email = Address(b),
                                  !.admin = TRUE]
Do(u, kind)      == [Blank EXCEPT !.kind = kind, !.user = u]
Change(u, p, q)  == [Do(u, "password") EXCEPT !.current = p, !.password = q]
Create(u, b)     == [Do(u, "create") EXCEPT !.email = Shouted(b), !.password = new]
CreateAdmin(u, b) == [Create(u, b) EXCEPT !.admin = TRUE]
Off(u, v)        == [Do(u, "deactivate") EXCEPT !.target = v]
RevokeBy(u, k)   == [Do(u, "revoke") EXCEPT !.target = k]
With(k, request) == [request EXCEPT !.by = "key", !.key = k]

\* Every way of giving the sessions requests from three sets.
Give(A, B, C) == {(s1 :> a) @@ (s2 :> b) @@ (s3 :> c) : a \in A, b \in B, c \in C}
Give2(A, B)   == {(s1 :> a) @@ (s2 :> b) : a \in A, b \in B}

\* One user signs in, or refreshes, while the password changes and an
\* administrator switches the account off.
LoginWork ==
    Give({Login(b2, old), LoginLong(b2, new), Do(2, "refresh")},
         {Change(2, old, new), Change(2, new, old), Do(2, "use"), Do(2, "logout"), Login(b2, new)},
         {Off(1, 2), Off(1, 3), Off(2, 1)})

\* Two administrators and the start of the API create the same address in
\* other spellings, and switch each other off.
AdminWork ==
    Give({Create(1, b3), Off(1, 2), Create(1, b2)},
         {CreateAdmin(2, b3), Off(2, 1), Off(2, 2)},
         {Startup(b3), Startup(b1), Off(1, 1), Login(b3, new), Do(3, "use")})

\* A key that expires, one of a user who is switched off, and their use.
BarredWork ==
    Give({With(1, Do(1, "use")), With(2, Do(2, "logout"))},
         {With(2, Do(2, "newkey")), Login(b2, old), Do(2, "refresh")},
         {Off(1, 2), RevokeBy(2, 2)})

\* Keys of one owner used, minted and revoked at once.
KeyWork ==
    Give({With(1, RevokeBy(1, 3)), With(1, Do(1, "use"))},
         {With(3, RevokeBy(1, 1)), With(1, RevokeBy(1, 1)), With(1, Change(1, new, new)),
          With(1, RevokeBy(1, 4))},
         {Do(1, "newkey"), RevokeBy(1, 3), With(4, Do(1, "use"))})

\* All of these.
MixedWork == LoginWork \cup AdminWork \cup BarredWork \cup KeyWork

\* Wrong passwords, one after the other or at once.
WrongWork  == Give2({Login(b2, new)}, {Login(b2, new)})

=============================================================================
