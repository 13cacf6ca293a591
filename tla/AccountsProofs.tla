-------------------------- MODULE AccountsProofs --------------------------
(***************************************************************************)
(* Tokens, devices, key changes and one-time keys, for any number of       *)
(* users, devices, requests and crashes.                                   *)
(*                                                                         *)
(* No lock guards the rows, so the invariant is about what a request that  *)
(* is in the middle of a call relies on.                                   *)
(*   FreshInv     a new token is in no other request and in no row yet     *)
(*   OwnInv       a token is of one device, and a request removes tokens   *)
(*                of its own device only                                   *)
(*   WorksInv     the token of a device leads back to it, or a set_token   *)
(*                on that device is about to write one of the two rows     *)
(*   AgreeInv     the three rows of a device agree, or fit the row at      *)
(*                which its one request is                                 *)
(*   OneTimeInv   a one-time key that is there was not handed out          *)
(*   AnnounceInv  a changed key is announced under a later number, or the  *)
(*                rows that announce it are ahead in a call where nothing  *)
(*                can fail any more                                        *)
(*                                                                         *)
(* The rows are of many kinds. StepEffect says once what any step of a     *)
(* request does to tokens, devices, keys and numbers, so that the          *)
(* invariants are shown for a few effects, not for every kind; Steady is   *)
(* the same for a request that begins, ends or is cut off.                 *)
(***************************************************************************)
EXTENDS Accounts, FiniteSetTheorems, SequenceTheorems, WellFoundedInduction, TLAPS

\* A nonempty set of naturals has a least element, which is where a scan starts.
LEMMA LeastExists ==
  ASSUME NEW S \in SUBSET Nat, S # {}
  PROVE  \E k \in S : \A j \in S : k =< j
<1> DEFINE R == OpToRel(<, Nat)
<1>1. IsWellFoundedOn(R, Nat)
  BY NatLessThanWellFounded
<1> HIDE DEF R
<1>2. PICK x \in S : \A y \in S : ~ (<<y, x>> \in R)
  BY <1>1, WFMin
<1>3. \A y \in S : ~ (y < x)
  BY <1>2 DEF R, OpToRel
<1> QED
  BY <1>3

-----------------------------------------------------------------------------
(* Lists of steps. *)

\* A list of steps is a sequence, over its own elements.
IsSeq(s) == s \in Seq({s[i] : i \in DOMAIN s})

\* A sequence over any set is one over its own elements.
LEMMA SeqIsSeq ==
  ASSUME NEW S, NEW s \in Seq(S)
  PROVE  IsSeq(s) /\ Len(s) \in Nat /\ DOMAIN s = 1..Len(s)
<1>1. Len(s) \in Nat /\ DOMAIN s = 1..Len(s)
  OBVIOUS
<1>2. s = [i \in 1..Len(s) |-> s[i]]
  OBVIOUS
<1>3. \A i \in 1..Len(s) : s[i] \in {s[j] : j \in DOMAIN s}
  BY <1>1
<1>4. [i \in 1..Len(s) |-> s[i]] \in Seq({s[j] : j \in DOMAIN s})
  BY <1>1, <1>3, IsASeq
<1> QED
  BY <1>1, <1>2, <1>4 DEF IsSeq

\* Its length and domain.
LEMMA SeqLen ==
  ASSUME NEW s, IsSeq(s)
  PROVE  Len(s) \in Nat /\ DOMAIN s = 1..Len(s) /\ (s = <<>> <=> Len(s) = 0)
  BY DEF IsSeq

\* What is left without the first step.
LEMMA SeqTail ==
  ASSUME NEW s, IsSeq(s), s # <<>>
  PROVE  /\ IsSeq(Tail(s)) /\ Len(s) >= 1 /\ Len(Tail(s)) = Len(s) - 1 /\ Head(s) = s[1]
         /\ \A i \in 1..Len(s) - 1 : Tail(s)[i] = s[i + 1]
<1> DEFINE S == {s[i] : i \in DOMAIN s}
<1>1. s \in Seq(S)
  BY DEF IsSeq
<1> HIDE DEF S
<1>2. Tail(s) \in Seq(S) /\ Len(Tail(s)) = Len(s) - 1 /\ Len(s) >= 1 /\ Head(s) = s[1]
  BY <1>1
<1>3. \A i \in 1..Len(Tail(s)) : Tail(s)[i] = s[i + 1]
  BY <1>1, HeadTailProperties
<1> QED
  BY <1>2, <1>3, SeqIsSeq

\* Two lists of steps, one after the other.
LEMMA SeqConcat ==
  ASSUME NEW s, NEW t, IsSeq(s), IsSeq(t)
  PROVE  /\ IsSeq(s \o t) /\ Len(s \o t) = Len(s) + Len(t)
         /\ \A i \in 1..Len(s) + Len(t) :
              (s \o t)[i] = IF i <= Len(s) THEN s[i] ELSE t[i - Len(s)]
<1> DEFINE S == {s[i] : i \in DOMAIN s} \cup {t[i] : i \in DOMAIN t}
<1>1. s \in Seq(S) /\ t \in Seq(S)
  BY SeqMonotonic DEF IsSeq
<1> HIDE DEF S
<1>2. /\ s \o t \in Seq(S) /\ Len(s \o t) = Len(s) + Len(t)
      /\ \A i \in 1..Len(s) + Len(t) :
           (s \o t)[i] = IF i <= Len(s) THEN s[i] ELSE t[i - Len(s)]
  BY <1>1, ConcatProperties
<1> QED
  BY <1>2, SeqIsSeq

\* The list of a request that has ended.
LEMMA EmptyIsSeq == IsSeq(<<>>) /\ Len(<<>>) = 0
<1>1. <<>> \in Seq({})
  OBVIOUS
<1> QED
  BY <1>1, SeqIsSeq

\* A list of one step.
LEMMA SingleIsSeq ==
  ASSUME NEW a
  PROVE  IsSeq(<<a>>) /\ Len(<<a>>) = 1 /\ <<a>>[1] = a /\ Head(<<a>>) = a
<1>1. <<a>> \in Seq({a}) /\ Len(<<a>>) = 1 /\ <<a>>[1] = a /\ Head(<<a>>) = a
  OBVIOUS
<1>2. IsSeq(<<a>>)
  BY <1>1, SeqIsSeq, Zenon
<1> QED
  BY <1>1, <1>2, Zenon

(***************************************************************************)
(* The rows of the calls.                                                  *)
(***************************************************************************)

\* Calls that give a device a token.
Tok(c) == c[1] \in {"set_token", "create_device"}

CallKinds == {"set_token", "create_device", "remove_device", "update_device",
  "add_one_time_key", "take_one_time_key", "add_device_keys",
  "add_cross_signing_keys", "refuse_cross_signing_keys", "sign_key", "store_remote_key",
  "set", "request", "nokeys", "each", "for", "leave", "first", "grant", "query", "device"}

\* Row i of call c is row j of set_token, which create_device ends with.
TokenRow(c, i, j) ==
  \/ c[1] = "set_token" /\ i = j
  \/ c[1] = "create_device" /\ i = j + 3

\* Short lists are sequences.
LEMMA PairIsSeq ==
  ASSUME NEW a, NEW b
  PROVE  IsSeq(<<a, b>>) /\ Len(<<a, b>>) = 2 /\ <<a, b>>[1] = a /\ <<a, b>>[2] = b
<1>1. <<a, b>> \in Seq({a, b}) /\ Len(<<a, b>>) = 2 /\ <<a, b>>[1] = a /\ <<a, b>>[2] = b
  OBVIOUS
<1>2. IsSeq(<<a, b>>)
  BY <1>1, SeqIsSeq, Zenon
<1> QED
  BY <1>1, <1>2, Zenon

\* Three elements.
LEMMA TripleIsSeq ==
  ASSUME NEW a, NEW b, NEW c
  PROVE  /\ IsSeq(<<a, b, c>>) /\ Len(<<a, b, c>>) = 3
         /\ <<a, b, c>>[1] = a /\ <<a, b, c>>[2] = b /\ <<a, b, c>>[3] = c
<1>1. /\ <<a, b, c>> \in Seq({a, b, c}) /\ Len(<<a, b, c>>) = 3
      /\ <<a, b, c>>[1] = a /\ <<a, b, c>>[2] = b /\ <<a, b, c>>[3] = c
  OBVIOUS
<1>2. IsSeq(<<a, b, c>>)
  BY <1>1, SeqIsSeq, Zenon
<1> QED
  BY <1>1, <1>2, Zenon

\* set_token.
LEMMA SetTokenRows ==
  ASSUME NEW c, c[1] = "set_token"
  PROVE  /\ Len(RowsOf(c)) = 5
         /\ RowsOf(c)[1] = <<"assert", c[2]>>
         /\ RowsOf(c)[2] = <<"old", c[2]>>
         /\ RowsOf(c)[3] = <<"cut">>
         /\ RowsOf(c)[4] = Set("token", c[2], c[3])
         /\ RowsOf(c)[5] = Set("device", c[3], c[2])
<1>1. RowsOf(c) = SetToken(c[2], c[3])
  BY DEF RowsOf
<1> QED
  BY <1>1 DEF SetToken, Set

\* create_device.
LEMMA CreateRows ==
  ASSUME NEW c, c[1] = "create_device"
  PROVE  /\ Len(RowsOf(c)) = 8
         /\ RowsOf(c)[1] = <<"exists", c[2][1]>>
         /\ RowsOf(c)[2] = <<"bump", c[2][1]>>
         /\ RowsOf(c)[3] = Set("metadata", c[2], "device")
         /\ RowsOf(c)[4] = <<"assert", c[2]>>
         /\ RowsOf(c)[5] = <<"old", c[2]>>
         /\ RowsOf(c)[6] = <<"cut">>
         /\ RowsOf(c)[7] = Set("token", c[2], c[3])
         /\ RowsOf(c)[8] = Set("device", c[3], c[2])
<1>1. RowsOf(c) = CreateDevice(c[2], c[3])
  BY DEF RowsOf
<1> DEFINE p == << <<"exists", c[2][1]>>, <<"bump", c[2][1]>>, Set("metadata", c[2], "device")>>
           q == SetToken(c[2], c[3])
<1>2. /\ IsSeq(p) /\ Len(p) = 3 /\ p[1] = <<"exists", c[2][1]>> /\ p[2] = <<"bump", c[2][1]>>
      /\ p[3] = Set("metadata", c[2], "device")
  BY TripleIsSeq, Zenon
<1>3. /\ Len(q) = 5 /\ q[1] = <<"assert", c[2]>> /\ q[2] = <<"old", c[2]>> /\ q[3] = <<"cut">>
      /\ q[4] = Set("token", c[2], c[3]) /\ q[5] = Set("device", c[3], c[2])
  BY DEF SetToken
<1>4. IsSeq(q)
  <2>1. q \in Seq({q[1], q[2], q[3], q[4], q[5]})
    BY <1>3 DEF SetToken
  <2> HIDE DEF q
  <2> QED
    BY <2>1, SeqIsSeq, Zenon
<1>5. RowsOf(c) = p \o q
  BY <1>1 DEF CreateDevice
<1> HIDE DEF p, q
<1>6. /\ Len(RowsOf(c)) = 8
      /\ \A i \in 1..8 : RowsOf(c)[i] = IF i <= 3 THEN p[i] ELSE q[i - 3]
  <2>1. /\ Len(p \o q) = Len(p) + Len(q)
        /\ \A i \in 1..Len(p) + Len(q) : (p \o q)[i] = IF i <= Len(p) THEN p[i] ELSE q[i - Len(p)]
    BY <1>2, <1>4, SeqConcat, Zenon
  <2> QED
    BY <1>2, <1>3, <1>5, <2>1
<1>7. /\ RowsOf(c)[1] = p[1] /\ RowsOf(c)[2] = p[2] /\ RowsOf(c)[3] = p[3]
      /\ RowsOf(c)[4] = q[1] /\ RowsOf(c)[5] = q[2] /\ RowsOf(c)[6] = q[3]
      /\ RowsOf(c)[7] = q[4] /\ RowsOf(c)[8] = q[5]
  BY <1>6
<1> QED
  BY <1>2, <1>3, <1>6, <1>7, Zenon

\* remove_device.
LEMMA RemoveRows ==
  ASSUME NEW c, c[1] = "remove_device"
  PROVE  /\ Len(RowsOf(c)) = 6
         /\ RowsOf(c)[1] = <<"old", c[2]>>
         /\ RowsOf(c)[2] = <<"unlink", c[2]>>
         /\ RowsOf(c)[3] = <<"cut">>
         /\ RowsOf(c)[4] = Set("todevice", c[2], None)
         /\ RowsOf(c)[5] = <<"bump", c[2][1]>>
         /\ RowsOf(c)[6] = Set("metadata", c[2], None)
<1>1. RowsOf(c) = RemoveDevice(c[2])
  BY DEF RowsOf
<1> QED
  BY <1>1 DEF RemoveDevice, Set

\* update_device_metadata.
LEMMA UpdateRows ==
  ASSUME NEW c, c[1] = "update_device"
  PROVE  /\ Len(RowsOf(c)) = 3
         /\ RowsOf(c)[1] = <<"assert", c[2]>>
         /\ RowsOf(c)[2] = <<"bump", c[2][1]>>
         /\ RowsOf(c)[3] = Set("metadata", c[2], "device")
<1>1. RowsOf(c) = UpdateDeviceMetadata(c[2])
  BY DEF RowsOf
<1> QED
  BY <1>1 DEF UpdateDeviceMetadata, Set

\* add_one_time_key.
LEMMA AddKeyRows ==
  ASSUME NEW c, c[1] = "add_one_time_key"
  PROVE  /\ Len(RowsOf(c)) = 4
         /\ RowsOf(c)[1] = <<"assert", c[2]>>
         /\ RowsOf(c)[2] = <<"addkey", c[2], c[3]>>
         /\ RowsOf(c)[3] = <<"count">>
         /\ RowsOf(c)[4] = <<"lastkey", c[2][1]>>
<1>1. RowsOf(c) = AddOneTimeKey(c[2], c[3])
  BY DEF RowsOf
<1> QED
  BY <1>1 DEF AddOneTimeKey

\* take_one_time_key.
LEMMA TakeKeyRows ==
  ASSUME NEW c, c[1] = "take_one_time_key"
  PROVE  /\ Len(RowsOf(c)) = 4
         /\ RowsOf(c)[1] = <<"count">>
         /\ RowsOf(c)[2] = <<"lastkey", c[2][1]>>
         /\ RowsOf(c)[3] = <<"scankey", c[2]>>
         /\ RowsOf(c)[4] = <<"takekey", c[2]>>
<1>1. RowsOf(c) = TakeOneTimeKey(c[2])
  BY DEF RowsOf
<1> QED
  BY <1>1 DEF TakeOneTimeKey

\* The answer of another server.
LEMMA StoreRows ==
  ASSUME NEW c, c[1] = "store_remote_key"
  PROVE  /\ Len(RowsOf(c)) = 3
         /\ RowsOf(c)[1] = <<"visible", c[2], c[3]>>
         /\ RowsOf(c)[2] = <<"answer", c[2]>>
         /\ RowsOf(c)[3] = Set("pointer", c[2], "key")
<1>1. RowsOf(c) = StoreRemoteKey(c[2], c[3])
  BY DEF RowsOf
<1> QED
  BY <1>1 DEF StoreRemoteKey, Set

\* The other calls are one step.
LEMMA SingleRow ==
  ASSUME NEW c, c[1] \in {"set", "request", "nokeys", "each", "for", "leave", "first",
                          "grant", "query", "device"}
  PROVE  Len(RowsOf(c)) = 1 /\ RowsOf(c)[1] = c
<1>1. RowsOf(c) = <<c>>
  BY DEF RowsOf
<1> QED
  BY <1>1

-----------------------------------------------------------------------------
(* The calls that change keys end with a new number and the rows of the    *)
(* change.                                                                 *)

\* From row i on: a number, then the row of the change for every target.
MarksFrom(rows, i, u) ==
  /\ i \in 1..Len(rows) /\ rows[i][1] = "count"
  /\ \E j \in i + 1..Len(rows) : rows[j] = <<"mark", u, u>>
  /\ u \in InRoom => \E j \in i + 1..Len(rows) : rows[j] = <<"mark", Room, u>>
  /\ \A j \in i + 1..Len(rows) : rows[j][1] = "mark"

\* mark_device_key_update.
LEMMA MarkRows ==
  ASSUME NEW u
  PROVE  LET m == MarkDeviceKeyUpdate(u)
         IN  IsSeq(m) /\ Len(m) \in 2..3 /\ MarksFrom(m, 1, u)
<1> DEFINE m == MarkDeviceKeyUpdate(u)
<1>1. CASE u \in InRoom
  <2>1. m = << <<"count">>, <<"mark", Room, u>>, <<"mark", u, u>> >>
    BY <1>1 DEF MarkDeviceKeyUpdate
  <2> HIDE DEF m
  <2>2. /\ IsSeq(m) /\ Len(m) = 3 /\ m[1] = <<"count">>
        /\ m[2] = <<"mark", Room, u>> /\ m[3] = <<"mark", u, u>>
    BY <2>1, TripleIsSeq, Zenon
  <2> QED
    BY <2>2 DEF MarksFrom, m
<1>2. CASE u \notin InRoom
  <2>1. m = << <<"count">>, <<"mark", u, u>> >>
    BY <1>2 DEF MarkDeviceKeyUpdate
  <2> HIDE DEF m
  <2>2. IsSeq(m) /\ Len(m) = 2 /\ m[1] = <<"count">> /\ m[2] = <<"mark", u, u>>
    BY <2>1, PairIsSeq, Zenon
  <2> QED
    BY <1>2, <2>2 DEF MarksFrom, m
<1> QED
  BY <1>1, <1>2

\* Rows before it are as they were, and it follows them.
LEMMA MarkedRows ==
  ASSUME NEW p, IsSeq(p), NEW u
  PROVE  /\ IsSeq(p \o MarkDeviceKeyUpdate(u))
         /\ Len(p \o MarkDeviceKeyUpdate(u)) > Len(p) + 1
         /\ \A i \in 1..Len(p) : (p \o MarkDeviceKeyUpdate(u))[i] = p[i]
         /\ MarksFrom(p \o MarkDeviceKeyUpdate(u), Len(p) + 1, u)
<1> DEFINE m == MarkDeviceKeyUpdate(u)
           rows == p \o m
           n == Len(p)
<1>1. IsSeq(m) /\ Len(m) \in 2..3 /\ MarksFrom(m, 1, u)
  BY MarkRows
<1> HIDE DEF m
<1>2. /\ IsSeq(rows) /\ Len(rows) = n + Len(m)
      /\ \A i \in 1..n + Len(m) : rows[i] = IF i <= n THEN p[i] ELSE m[i - n]
  BY <1>1, SeqConcat, Zenon
<1>3. n \in Nat
  BY SeqLen
<1> HIDE DEF rows, n
<1>4. /\ \A i \in 1..n : rows[i] = p[i]
      /\ \A i \in n + 1..Len(rows) : rows[i] = m[i - n] /\ i - n \in 1..Len(m)
      /\ \A i \in 1..Len(m) : rows[i + n] = m[i] /\ i + n \in n + 1..Len(rows)
  BY <1>1, <1>2, <1>3
<1>5. n + 1 \in 1..Len(rows) /\ rows[n + 1] = m[1]
  BY <1>1, <1>2, <1>3, <1>4
<1>6. \E j \in n + 2..Len(rows) : rows[j] = <<"mark", u, u>>
  <2>1. PICK j \in 2..Len(m) : m[j] = <<"mark", u, u>>
    BY <1>1 DEF MarksFrom
  <2> QED
    BY <1>1, <1>3, <1>4, <2>1, SMTT(60)
<1>7. ASSUME u \in InRoom PROVE \E j \in n + 2..Len(rows) : rows[j] = <<"mark", Room, u>>
  <2>1. PICK j \in 2..Len(m) : m[j] = <<"mark", Room, u>>
    BY <1>1, <1>7 DEF MarksFrom
  <2> QED
    BY <1>1, <1>3, <1>4, <2>1
<1>8. \A j \in n + 2..Len(rows) : rows[j][1] = "mark"
  <2>1. \A j \in n + 2..Len(rows) : j - n \in 2..Len(m) /\ rows[j] = m[j - n]
    BY <1>1, <1>2, <1>3, <1>4
  <2>2. \A j \in 2..Len(m) : m[j][1] = "mark"
    BY <1>1 DEF MarksFrom
  <2> QED
    BY <2>1, <2>2
<1>9. MarksFrom(rows, n + 1, u)
  BY <1>1, <1>3, <1>5, <1>6, <1>7, <1>8, SMTT(60) DEF MarksFrom
<1>10. Len(rows) > n + 1
  <2>1. PICK k \in 2..3 : Len(rows) = n + k
    BY <1>1, <1>2, Zenon
  <2>2. n + k > n + 1
    BY <1>3
  <2> QED
    BY <2>1, <2>2, Zenon
<1> QED
  BY <1>2, <1>4, <1>9, <1>10, Zenon DEF rows, n, m

\* The calls that change keys, and the user whose keys they are.
KeyCall(c) == c[1] \in {"add_device_keys", "add_cross_signing_keys", "sign_key"}
UserOf(c) == IF c[1] = "add_cross_signing_keys" THEN c[2] ELSE c[2][1]

\* Rows up to the number.
KeyRow(r, i, u) ==
  \/ r[1] \in {"key", "sign"} /\ r[2][1] = u
  \/ r[1] = "set" /\ r[2] = "pointer"
  \/ r[1] = "readkey" /\ i = 1

\* Rows that write keys and the pointers to them.
KeyRows(p, u) ==
  IsSeq(p) /\ \A i \in 1..Len(p) : \/ p[i][1] \in {"key", "sign"} /\ p[i][2][1] = u
                                   \/ p[i][1] = "set" /\ p[i][2] = "pointer"

\* One cross-signing key, none, and some after others.
LEMMA CrossSigningRows ==
  ASSUME NEW u, NEW which
  PROVE  KeyRows(CrossSigningKey(u, which), u)
<1> DEFINE p == CrossSigningKey(u, which)
<1>1. p = << <<"key", <<u, which>>, {u}>>, Set("pointer", <<u, which>>, "key")>>
  BY DEF CrossSigningKey
<1> HIDE DEF p
<1>2. /\ IsSeq(p) /\ Len(p) = 2 /\ p[1] = <<"key", <<u, which>>, {u}>>
      /\ p[2] = Set("pointer", <<u, which>>, "key")
  BY <1>1, PairIsSeq, Zenon
<1>3. KeyRows(p, u)
  BY <1>2 DEF KeyRows, Set
<1> QED
  BY <1>3 DEF p

LEMMA NoKeyRows ==
  ASSUME NEW u
  PROVE  KeyRows(<<>>, u)
  BY EmptyIsSeq DEF KeyRows

LEMMA MoreKeyRows ==
  ASSUME NEW p, NEW q, NEW u, KeyRows(p, u), KeyRows(q, u)
  PROVE  KeyRows(p \o q, u)
<1> DEFINE r == p \o q
           n == Len(p)
           l == Len(q)
<1>1. IsSeq(p) /\ IsSeq(q)
  BY DEF KeyRows
<1>2. /\ IsSeq(r) /\ Len(r) = n + l
      /\ \A i \in 1..n + l : r[i] = IF i <= n THEN p[i] ELSE q[i - n]
  BY <1>1, SeqConcat, Zenon
<1>3. n \in Nat /\ l \in Nat
  BY <1>1, SeqLen
<1>4. /\ \A i \in 1..n : \/ p[i][1] \in {"key", "sign"} /\ p[i][2][1] = u
                         \/ p[i][1] = "set" /\ p[i][2] = "pointer"
      /\ \A i \in 1..l : \/ q[i][1] \in {"key", "sign"} /\ q[i][2][1] = u
                         \/ q[i][1] = "set" /\ q[i][2] = "pointer"
  BY DEF KeyRows
<1> HIDE DEF r, n, l
<1>5. ASSUME NEW i \in 1..n + l
      PROVE  \/ r[i][1] \in {"key", "sign"} /\ r[i][2][1] = u
             \/ r[i][1] = "set" /\ r[i][2] = "pointer"
  <2>1. CASE i <= n
    BY <1>2, <1>3, <1>4, <2>1
  <2>2. CASE ~(i <= n)
    <3>1. i - n \in 1..l /\ r[i] = q[i - n]
      BY <1>2, <1>3, <2>2
    <3> QED
      BY <1>4, <3>1
  <2> QED
    BY <2>1, <2>2
<1> QED
  BY <1>2, <1>5 DEF KeyRows, r

\* A refused upload of cross-signing keys.
LEMMA RefuseRows ==
  ASSUME NEW c, c[1] = "refuse_cross_signing_keys", c[3] \in BOOLEAN
  PROVE  /\ Len(RowsOf(c)) \in {2, 4}
         /\ \A i \in 1..Len(RowsOf(c)) : RowsOf(c)[i][1] = "set" /\ RowsOf(c)[i][2] \in {"keys", "pointer"}
<1>1. RowsOf(c) = RefuseCrossSigningKeys(c[2], c[3])
  BY DEF RowsOf
<1> QED
  BY <1>1 DEF RefuseCrossSigningKeys, Set

\* A call that changes keys is rows that write them, a number, then the rows
\* that announce the change.
LEMMA KeyCallRows ==
  ASSUME NEW c, KeyCall(c)
  PROVE  \E n \in Nat :
           /\ IsSeq(RowsOf(c)) /\ Len(RowsOf(c)) > n + 1
           /\ \A i \in 1..n : KeyRow(RowsOf(c)[i], i, UserOf(c))
           /\ MarksFrom(RowsOf(c), n + 1, UserOf(c))
<1> DEFINE u == UserOf(c)
<1>1. ASSUME NEW p, IsSeq(p), RowsOf(c) = p \o MarkDeviceKeyUpdate(u),
             \A i \in 1..Len(p) : KeyRow(p[i], i, u)
      PROVE  \E n \in Nat :
               /\ IsSeq(RowsOf(c)) /\ Len(RowsOf(c)) > n + 1
               /\ \A i \in 1..n : KeyRow(RowsOf(c)[i], i, u)
               /\ MarksFrom(RowsOf(c), n + 1, u)
  <2> DEFINE rows == p \o MarkDeviceKeyUpdate(u)
             n == Len(p)
  <2>1. /\ IsSeq(rows) /\ Len(rows) > n + 1
        /\ \A i \in 1..n : rows[i] = p[i]
        /\ MarksFrom(rows, n + 1, u)
    BY <1>1, MarkedRows, Zenon
  <2>2. n \in Nat
    BY <1>1, SeqLen
  <2>3. \A i \in 1..n : KeyRow(rows[i], i, u)
    <3> HIDE DEF rows
    <3> QED
      BY <1>1, <2>1
  <2>4. rows = RowsOf(c)
    BY <1>1
  <2> HIDE DEF rows, n, u
  <2> QED
    BY <2>1, <2>2, <2>3, <2>4
<1>2. CASE c[1] = "add_device_keys"
  <2> DEFINE p == << <<"key", c[2], {c[2][1]}>> >>
  <2>1. RowsOf(c) = AddDeviceKeys(c[2]) /\ u = c[2][1]
    BY <1>2 DEF RowsOf, UserOf
  <2>2. RowsOf(c) = p \o MarkDeviceKeyUpdate(u)
    BY <2>1 DEF AddDeviceKeys
  <2>3. IsSeq(p) /\ Len(p) = 1 /\ p[1] = <<"key", c[2], {c[2][1]}>>
    BY SingleIsSeq, Zenon
  <2> HIDE DEF p, u
  <2>4. \A i \in 1..Len(p) : KeyRow(p[i], i, u)
    BY <2>1, <2>3 DEF KeyRow
  <2> QED
    BY <1>1, <2>2, <2>3, <2>4 DEF u
<1>3. CASE c[1] = "sign_key"
  <2> DEFINE p == << <<"readkey", c[2]>>, <<"sign", c[2], c[3]>> >>
  <2>1. RowsOf(c) = SignKey(c[2], c[3]) /\ u = c[2][1]
    BY <1>3 DEF RowsOf, UserOf
  <2>2. RowsOf(c) = p \o MarkDeviceKeyUpdate(u)
    BY <2>1 DEF SignKey
  <2>3. IsSeq(p) /\ Len(p) = 2 /\ p[1] = <<"readkey", c[2]>> /\ p[2] = <<"sign", c[2], c[3]>>
    BY PairIsSeq, Zenon
  <2> HIDE DEF p, u
  <2>4. \A i \in 1..Len(p) : KeyRow(p[i], i, u)
    BY <2>1, <2>3 DEF KeyRow
  <2> QED
    BY <1>1, <2>2, <2>3, <2>4 DEF u
<1>4. CASE c[1] = "add_cross_signing_keys"
  <2> DEFINE a == CrossSigningKey(u, "master")
             b == IF "self" \in c[3] THEN CrossSigningKey(u, "self") ELSE <<>>
             d == IF "user" \in c[3] THEN CrossSigningKey(u, "user") ELSE <<>>
             p == a \o b \o d
  <2>1. RowsOf(c) = AddCrossSigningKeys(c[2], c[3]) /\ u = c[2]
    BY <1>4 DEF RowsOf, UserOf
  <2>2. RowsOf(c) = p \o MarkDeviceKeyUpdate(u)
    BY <2>1 DEF AddCrossSigningKeys
  <2>3. KeyRows(a, u) /\ KeyRows(b, u) /\ KeyRows(d, u)
    BY CrossSigningRows, NoKeyRows, Zenon
  <2> HIDE DEF a, b, d
  <2>4. KeyRows(a \o b, u)
    BY <2>3, MoreKeyRows, Zenon
  <2>5. KeyRows(p, u)
    BY <2>3, <2>4, MoreKeyRows, Zenon
  <2> HIDE DEF p, u
  <2>6. IsSeq(p) /\ \A i \in 1..Len(p) : KeyRow(p[i], i, u)
    BY <2>5 DEF KeyRows, KeyRow
  <2> QED
    BY <1>1, <2>2, <2>6 DEF u
<1> QED
  BY <1>2, <1>3, <1>4 DEF KeyCall

-----------------------------------------------------------------------------
(* Which call a row belongs to. *)

CallRow(c, i, kind, j) == c[1] = kind /\ i = j

\* The rows that write whether a device exists.
MetaRow(c, i) ==
  \/ CallRow(c, i, "create_device", 3) \/ CallRow(c, i, "update_device", 3)
  \/ CallRow(c, i, "remove_device", 6)

Singles == {"request", "nokeys", "each", "for", "leave", "first", "grant", "query", "device"}

Placed(c, i, r) ==
  /\ r[1] = "old" => TokenRow(c, i, 2) \/ CallRow(c, i, "remove_device", 1)
  /\ r[1] = "cut" => TokenRow(c, i, 3) \/ CallRow(c, i, "remove_device", 3)
  /\ r[1] = "unlink" => CallRow(c, i, "remove_device", 2)
  /\ r[1] = "exists" => CallRow(c, i, "create_device", 1)
  /\ r[1] = "assert" => \/ TokenRow(c, i, 1) \/ CallRow(c, i, "update_device", 1)
                        \/ CallRow(c, i, "add_one_time_key", 1)
  /\ r[1] = "set" => \/ TokenRow(c, i, 4) \/ TokenRow(c, i, 5) \/ MetaRow(c, i)
                     \/ r[2] \notin {"token", "device", "metadata", "onetimekeys"}
  /\ r[1] = "addkey" => CallRow(c, i, "add_one_time_key", 2)
  /\ r[1] = "scankey" => CallRow(c, i, "take_one_time_key", 3)
  /\ r[1] = "takekey" => CallRow(c, i, "take_one_time_key", 4)
  /\ r[1] \in {"key", "sign"} => KeyCall(c)
  /\ r[1] \in Singles => r = c /\ Len(RowsOf(c)) = 1

\* A kind of row is found at few places.
LEMMA RowPlaced ==
  ASSUME NEW c, c[1] \in CallKinds, NEW i \in 1..Len(RowsOf(c)),
         c[1] = "refuse_cross_signing_keys" => c[3] \in BOOLEAN,
         c[1] = "set" => c[2] \in {"password", "profile", "pushrules", "sessions", "todevice"}
  PROVE  Placed(c, i, RowsOf(c)[i])
<1> DEFINE r == RowsOf(c)[i]
<1>0. KeyCall(c) =>
        \E n \in Nat :
          /\ IsSeq(RowsOf(c)) /\ Len(RowsOf(c)) > n + 1
          /\ \A j \in 1..n : KeyRow(RowsOf(c)[j], j, UserOf(c))
          /\ MarksFrom(RowsOf(c), n + 1, UserOf(c))
  BY KeyCallRows, Zenon
<1> USE DEF Placed, CallRow, TokenRow, MetaRow, Singles, KeyCall, Set
<1>1. CASE c[1] = "set_token"
  <2>1. i \in 1..5
    BY <1>1, SetTokenRows
  <2> QED
    BY <1>1, <2>1, SetTokenRows
<1>2. CASE c[1] = "create_device"
  <2>1. i \in 1..8
    BY <1>2, CreateRows
  <2> QED
    BY <1>2, <2>1, CreateRows, SMTT(60)
<1>3. CASE c[1] = "remove_device"
  <2>1. i \in 1..6
    BY <1>3, RemoveRows
  <2> QED
    BY <1>3, <2>1, RemoveRows
<1>4. CASE c[1] = "update_device"
  <2>1. i \in 1..3
    BY <1>4, UpdateRows
  <2> QED
    BY <1>4, <2>1, UpdateRows
<1>5. CASE c[1] = "add_one_time_key"
  <2>1. i \in 1..4
    BY <1>5, AddKeyRows
  <2> QED
    BY <1>5, <2>1, AddKeyRows
<1>6. CASE c[1] = "take_one_time_key"
  <2>1. i \in 1..4
    BY <1>6, TakeKeyRows
  <2> QED
    BY <1>6, <2>1, TakeKeyRows
<1>7. CASE c[1] = "store_remote_key"
  <2>1. i \in 1..3
    BY <1>7, StoreRows
  <2> QED
    BY <1>7, <2>1, StoreRows
<1>8. CASE KeyCall(c)
  <2>1. PICK n \in Nat :
          /\ IsSeq(RowsOf(c)) /\ Len(RowsOf(c)) > n + 1
          /\ \A j \in 1..n : KeyRow(RowsOf(c)[j], j, UserOf(c))
          /\ MarksFrom(RowsOf(c), n + 1, UserOf(c))
    BY <1>0, <1>8
  <2>2. i \in 1..n \/ i = n + 1 \/ i \in n + 2..Len(RowsOf(c))
    BY <2>1, SeqLen
  <2>3. r[1] \in {"key", "sign", "readkey", "count", "mark"} \/ (r[1] = "set" /\ r[2] = "pointer")
    BY <2>1, <2>2 DEF KeyRow, MarksFrom
  <2> HIDE DEF r, KeyCall
  <2> QED
    BY <1>8, <2>3 DEF r
<1>9. CASE c[1] \in Singles
  <2>1. i = 1 /\ r = c /\ Len(RowsOf(c)) = 1
    BY <1>9, SingleRow
  <2> HIDE DEF r
  <2> QED
    BY <1>9, <2>1 DEF r
<1>10. CASE c[1] = "set"
  <2>1. i = 1 /\ r = c
    BY <1>10, SingleRow
  <2> HIDE DEF r
  <2> QED
    BY <1>10, <2>1 DEF r
<1>11. CASE c[1] = "refuse_cross_signing_keys"
  <2>1. r[1] = "set" /\ r[2] \in {"keys", "pointer"}
    BY <1>11, RefuseRows
  <2> HIDE DEF r
  <2> QED
    BY <1>11, <2>1 DEF r
<1> QED
  BY <1>1, <1>2, <1>3, <1>4, <1>5, <1>6, <1>7, <1>8, <1>9, <1>10, <1>11 DEF CallKinds

-----------------------------------------------------------------------------
(* The calls that a request has left. *)

LoopOK(c, ds) ==
  /\ c[2] \in {"remove", "deactivate", "leave", "upload", "query"}
  /\ c[2] = "remove" => \A d \in c[4] : <<c[3], d>> \in ds
  /\ c[2] = "deactivate" => \A u \in c[4], d \in Devices : <<u, d>> \in ds
  /\ c[2] = "upload" => c[3] \in ds /\ c[4] \subseteq OneTimeKeys

\* A call is about the users and the devices of its request.
CallOK(c, us, ds, made) ==
  /\ c[1] \in CallKinds
  /\ Tok(c) => c[2] \in ds /\ c[3] \in 1..made
  /\ c[1] \in {"remove_device", "update_device", "add_one_time_key",
               "take_one_time_key", "add_device_keys"} => c[2] \in ds
  /\ c[1] = "add_one_time_key" => c[3] \in OneTimeKeys
  /\ c[1] = "add_cross_signing_keys" => c[2] \in us
  /\ c[1] = "refuse_cross_signing_keys" => c[3] \in BOOLEAN
  /\ c[1] = "sign_key" => c[2][1] \in us
  /\ c[1] = "set" => c[2] \in {"password", "profile", "pushrules", "sessions", "todevice"}
  /\ c[1] = "each" => \A d \in Devices : <<c[2], d>> \in ds
  /\ c[1] = "for" => LoopOK(c, ds)

TodoOK(p, us, ds, made) ==
  IsSeq(p) /\ \A i \in 1..Len(p) : CallOK(p[i], us, ds, made)

\* A request makes one token at most.
Tokless(p) == \A i \in 1..Len(p) : ~Tok(p[i])
OneTok(p) == \A i, j \in 1..Len(p) : Tok(p[i]) /\ Tok(p[j]) => i = j
TokensOf(p) == {p[i][3] : i \in {j \in 1..Len(p) : Tok(p[j])}}

\* Without the first call.
LEMMA TailOK ==
  ASSUME NEW p, NEW us, NEW ds, NEW made, TodoOK(p, us, ds, made), OneTok(p), p # <<>>
  PROVE  /\ TodoOK(Tail(p), us, ds, made) /\ OneTok(Tail(p))
         /\ CallOK(Head(p), us, ds, made)
         /\ TokensOf(Tail(p)) \subseteq TokensOf(p)
         /\ Tok(Head(p)) => Tokless(Tail(p))
<1> DEFINE q == Tail(p)
<1>1. /\ IsSeq(q) /\ Len(p) >= 1 /\ Len(q) = Len(p) - 1 /\ Head(p) = p[1]
      /\ \A i \in 1..Len(p) - 1 : q[i] = p[i + 1]
  BY SeqTail DEF TodoOK
<1>2. Len(p) \in Nat
  BY SeqLen DEF TodoOK
<1> HIDE DEF q
<1>3. \A i \in 1..Len(q) : i + 1 \in 1..Len(p) /\ q[i] = p[i + 1] /\ i + 1 # 1
  BY <1>1, <1>2
<1>4. 1 \in 1..Len(p)
  BY <1>1, <1>2
<1>5. TodoOK(q, us, ds, made) /\ CallOK(Head(p), us, ds, made)
  BY <1>1, <1>3, <1>4 DEF TodoOK
<1>6. OneTok(q)
  <2> SUFFICES ASSUME NEW i \in 1..Len(q), NEW j \in 1..Len(q), Tok(q[i]), Tok(q[j]) PROVE i = j
    BY DEF OneTok
  <2>1. i + 1 = j + 1
    BY <1>3 DEF OneTok
  <2> QED
    BY <1>1, <1>2, <2>1
<1>7. TokensOf(q) \subseteq TokensOf(p)
  BY <1>3 DEF TokensOf
<1>8. Tok(Head(p)) => Tokless(q)
  BY <1>1, <1>3, <1>4 DEF OneTok, Tokless
<1> QED
  BY <1>5, <1>6, <1>7, <1>8 DEF q

\* One list of calls after another, one of them without a token.
LEMMA ConcatOK ==
  ASSUME NEW p, NEW q, NEW us, NEW ds, NEW made, TodoOK(p, us, ds, made), TodoOK(q, us, ds, made),
         (Tokless(p) /\ OneTok(q)) \/ (OneTok(p) /\ Tokless(q))
  PROVE  /\ TodoOK(p \o q, us, ds, made) /\ OneTok(p \o q)
         /\ TokensOf(p \o q) \subseteq TokensOf(p) \cup TokensOf(q)
         /\ Tokless(p) /\ Tokless(q) => Tokless(p \o q)
<1> DEFINE r == p \o q
<1>1. /\ IsSeq(r) /\ Len(r) = Len(p) + Len(q)
      /\ \A i \in 1..Len(p) + Len(q) : r[i] = IF i <= Len(p) THEN p[i] ELSE q[i - Len(p)]
  BY SeqConcat DEF TodoOK
<1>2. Len(p) \in Nat /\ Len(q) \in Nat
  BY SeqLen DEF TodoOK
<1> HIDE DEF r
<1>3. \A i \in 1..Len(r) : \/ i \in 1..Len(p) /\ r[i] = p[i]
                           \/ i - Len(p) \in 1..Len(q) /\ r[i] = q[i - Len(p)]
  BY <1>1, <1>2
<1>4. TodoOK(r, us, ds, made)
  BY <1>1, <1>3 DEF TodoOK
<1>5. OneTok(r)
  <2> SUFFICES ASSUME NEW i \in 1..Len(r), NEW j \in 1..Len(r), Tok(r[i]), Tok(r[j]) PROVE i = j
    BY DEF OneTok
  <2>1. CASE Tokless(p) /\ OneTok(q)
    <3>1. /\ i - Len(p) \in 1..Len(q) /\ r[i] = q[i - Len(p)]
          /\ j - Len(p) \in 1..Len(q) /\ r[j] = q[j - Len(p)]
      BY <1>3, <2>1 DEF Tokless
    <3>2. i - Len(p) = j - Len(p)
      BY <2>1, <3>1 DEF OneTok
    <3> QED
      BY <1>1, <1>2, <3>2
  <2>2. CASE OneTok(p) /\ Tokless(q)
    <3>1. i \in 1..Len(p) /\ r[i] = p[i] /\ j \in 1..Len(p) /\ r[j] = p[j]
      BY <1>3, <2>2 DEF Tokless
    <3> QED
      BY <2>2, <3>1 DEF OneTok
  <2> QED
    BY <2>1, <2>2
<1>6. TokensOf(r) \subseteq TokensOf(p) \cup TokensOf(q)
  <2> SUFFICES ASSUME NEW i \in 1..Len(r), Tok(r[i]) PROVE r[i][3] \in TokensOf(p) \cup TokensOf(q)
    BY DEF TokensOf
  <2> QED
    BY <1>3 DEF TokensOf
<1>7. Tokless(p) /\ Tokless(q) => Tokless(r)
  BY <1>3 DEF Tokless
<1> QED
  BY <1>4, <1>5, <1>6, <1>7 DEF r

\* One call.
LEMMA SingleOK ==
  ASSUME NEW c, NEW us, NEW ds, NEW made, CallOK(c, us, ds, made)
  PROVE  /\ TodoOK(<<c>>, us, ds, made) /\ OneTok(<<c>>)
         /\ ~Tok(c) => Tokless(<<c>>)
         /\ TokensOf(<<c>>) \subseteq {c[3]}
<1> DEFINE p == <<c>>
<1>1. IsSeq(p) /\ Len(p) = 1 /\ p[1] = c
  BY SingleIsSeq
<1> HIDE DEF p
<1>2. \A i \in 1..Len(p) : i = 1 /\ p[i] = c
  BY <1>1
<1> QED
  BY <1>1, <1>2 DEF p, TodoOK, OneTok, Tokless, TokensOf

\* No call.
LEMMA NoCalls ==
  ASSUME NEW us, NEW ds, NEW made
  PROVE  TodoOK(<<>>, us, ds, made) /\ OneTok(<<>>) /\ Tokless(<<>>)
<1>1. IsSeq(<<>>) /\ 1..Len(<<>>) = {}
  BY EmptyIsSeq
<1> QED
  BY <1>1, Zenon DEF TodoOK, OneTok, Tokless

\* Calls without a token make none.
LEMMA ToklessTokens ==
  ASSUME NEW p, Tokless(p)
  PROVE  TokensOf(p) = {} /\ OneTok(p)
  BY DEF Tokless, TokensOf, OneTok

\* A token that is not yet made is in no call.
LEMMA TokensMade ==
  ASSUME NEW p, NEW us, NEW ds, NEW made, TodoOK(p, us, ds, made)
  PROVE  TokensOf(p) \subseteq 1..made
  BY DEF TodoOK, CallOK, TokensOf

-----------------------------------------------------------------------------
(* The record of a task, and how a step moves it. *)

Fields == {"run", "users", "todo", "at", "devices", "old", "n", "key", "sigs"}

TaskOK(k, made) ==
  /\ DOMAIN k = Fields
  /\ k.todo # <<>> => k.run
  /\ k.users \subseteq Users \cup Remote
  /\ k.devices \subseteq UserDevices
  /\ \A ud \in k.devices : ud[1] \in k.users
  /\ TodoOK(k.todo, k.users, k.devices, made) /\ OneTok(k.todo)
  /\ IF k.todo = <<>> THEN k.at = 1 ELSE k.at \in 1..Len(RowsOf(Head(k.todo)))
  /\ k.old \in (1..made) \cup {None}

\* Whose the request is does not change.
Same(k, k2) ==
  DOMAIN k2 = Fields /\ k2.run = k.run /\ k2.users = k.users /\ k2.devices = k.devices

\* The next row of the call, or the start of what is left.
Onward(k, k2) ==
  k2.todo = k.todo /\ k2.at = k.at + 1 /\ k.at < Len(RowsOf(Head(k.todo)))
Leaves(k, k2, made) ==
  /\ k2.at = 1
  /\ TodoOK(k2.todo, k.users, k.devices, made) /\ OneTok(k2.todo)
  /\ TokensOf(k2.todo) \subseteq TokensOf(k.todo)
  /\ Tok(Head(k.todo)) => TokensOf(k2.todo) = {}
Moves(k, k2, made) == Same(k, k2) /\ (Onward(k, k2) \/ Leaves(k, k2, made))

\* Every call has a row.
LEMMA RowsThere ==
  ASSUME NEW c, NEW us, NEW ds, NEW made, CallOK(c, us, ds, made)
  PROVE  Len(RowsOf(c)) \in Nat /\ Len(RowsOf(c)) >= 1
<1>1. CASE KeyCall(c)
  <2>1. PICK n \in Nat : IsSeq(RowsOf(c)) /\ Len(RowsOf(c)) > n + 1
    BY <1>1, KeyCallRows DEF CallOK
  <2>2. Len(RowsOf(c)) \in Nat
    BY <2>1, SeqLen
  <2> QED
    BY <2>1, <2>2
<1>2. CASE ~KeyCall(c)
  BY <1>2, SetTokenRows, CreateRows, RemoveRows, UpdateRows, AddKeyRows, TakeKeyRows, StoreRows,
     RefuseRows, SingleRow DEF KeyCall, CallOK, CallKinds
<1> QED
  BY <1>1, <1>2

\* A task whose record moves is still as it should be.
LEMMA MovesOK ==
  ASSUME NEW k, NEW k2, NEW made, TaskOK(k, made), k.todo # <<>>, Moves(k, k2, made),
         k2.old \in (1..made) \cup {None}
  PROVE  TaskOK(k2, made)
<1>1. CASE Onward(k, k2)
  <2>1. Len(RowsOf(Head(k.todo))) \in Nat
    BY TailOK, RowsThere DEF TaskOK
  <2>2. k2.at \in 1..Len(RowsOf(Head(k2.todo)))
    BY <1>1, <2>1 DEF Onward, TaskOK
  <2> QED
    BY <1>1, <2>2 DEF TaskOK, Moves, Same, Onward
<1>2. CASE Leaves(k, k2, made)
  <2>1. k2.todo # <<>> => 1 \in 1..Len(RowsOf(Head(k2.todo)))
    <3> SUFFICES ASSUME k2.todo # <<>> PROVE 1 \in 1..Len(RowsOf(Head(k2.todo)))
      OBVIOUS
    <3>1. CallOK(Head(k2.todo), k.users, k.devices, made)
      BY <1>2, TailOK DEF Leaves
    <3>2. Len(RowsOf(Head(k2.todo))) \in Nat /\ Len(RowsOf(Head(k2.todo))) >= 1
      BY <3>1, RowsThere
    <3> QED
      BY <3>2
  <2> QED
    BY <1>2, <2>1 DEF TaskOK, Moves, Same, Leaves
<1> QED
  BY <1>1, <1>2 DEF Moves

\* What Moved does, as the step leaves a row behind.
LEMMA MovedMoves ==
  ASSUME NEW t \in Tasks, NEW made, TaskOK(task[t], made), task[t].todo # <<>>
  PROVE  LET k == task[t]
             k2 == Moved(t)
         IN  /\ Moves(k, k2, made)
             /\ k.at < Len(RowsOf(Head(k.todo))) => Onward(k, k2)
             /\ k.at = Len(RowsOf(Head(k.todo))) => Leaves(k, k2, made)
             /\ k2.old = k.old /\ k2.n = k.n /\ k2.key = k.key
<1> DEFINE k == task[t]
           k2 == Moved(t)
<1>1. DOMAIN k = Fields /\ k.at \in 1..Len(RowsOf(Head(k.todo)))
  BY DEF TaskOK
<1>2. Len(RowsOf(Head(k.todo))) \in Nat
  BY TailOK, RowsThere DEF TaskOK
<1>3. CASE k.at < Len(RowsOf(Head(k.todo)))
  <2>1. k2 = [k EXCEPT !.at = k.at + 1]
    BY <1>3 DEF Moved, Todo
  <2>2. /\ Same(k, k2) /\ k2.todo = k.todo /\ k2.at = k.at + 1
        /\ k2.old = k.old /\ k2.n = k.n /\ k2.key = k.key
    BY <1>1, <2>1 DEF Same, Fields
  <2>3. Onward(k, k2) /\ k.at # Len(RowsOf(Head(k.todo)))
    BY <1>1, <1>2, <1>3, <2>2 DEF Onward
  <2> HIDE DEF k, k2
  <2> QED
    BY <1>3, <2>2, <2>3 DEF Moves, k, k2
<1>4. CASE ~(k.at < Len(RowsOf(Head(k.todo))))
  <2>1. k2 = [k EXCEPT !.at = 1, !.todo = Tail(k.todo)]
    BY <1>4 DEF Moved, Todo
  <2>2. /\ Same(k, k2) /\ k2.todo = Tail(k.todo) /\ k2.at = 1
        /\ k2.old = k.old /\ k2.n = k.n /\ k2.key = k.key
    BY <1>1, <2>1 DEF Same, Fields
  <2> HIDE DEF k, k2
  <2>3. /\ TodoOK(Tail(k.todo), k.users, k.devices, made) /\ OneTok(Tail(k.todo))
        /\ TokensOf(Tail(k.todo)) \subseteq TokensOf(k.todo)
        /\ Tok(Head(k.todo)) => Tokless(Tail(k.todo))
    BY TailOK DEF TaskOK, k
  <2>4. Leaves(k, k2, made)
    BY <2>2, <2>3, ToklessTokens DEF Leaves
  <2> QED
    BY <1>4, <2>2, <2>4 DEF Moves, k, k2
<1> QED
  BY <1>3, <1>4

\* The request ends.
LEMMA StopMoves ==
  ASSUME NEW k, NEW k2, NEW made, TaskOK(k, made), k2 = [k EXCEPT !.at = 1, !.todo = <<>>]
  PROVE  /\ Moves(k, k2, made) /\ Leaves(k, k2, made) /\ k2.todo = <<>>
         /\ k2.old = k.old /\ k2.n = k.n /\ k2.key = k.key
<1>1. /\ Same(k, k2) /\ k2.todo = <<>> /\ k2.at = 1
      /\ k2.old = k.old /\ k2.n = k.n /\ k2.key = k.key
  BY DEF TaskOK, Same, Fields
<1>2. TokensOf(<<>>) = {}
  BY NoCalls, ToklessTokens
<1>3. Leaves(k, k2, made)
  BY <1>1, <1>2, NoCalls DEF Leaves
<1> QED
  BY <1>1, <1>3 DEF Moves

\* A call of one step is replaced by others.
LEMMA ReplaceMoves ==
  ASSUME NEW k, NEW k2, NEW made, NEW calls, TaskOK(k, made), k.todo # <<>>, k.at = 1,
         TodoOK(calls, k.users, k.devices, made), Tokless(calls),
         k2 = [k EXCEPT !.todo = calls \o Tail(k.todo)]
  PROVE  /\ Moves(k, k2, made) /\ Leaves(k, k2, made)
         /\ k2.old = k.old /\ k2.n = k.n /\ k2.key = k.key
<1> DEFINE p == Tail(k.todo)
<1>1. /\ Same(k, k2) /\ k2.todo = calls \o p /\ k2.at = 1
      /\ k2.old = k.old /\ k2.n = k.n /\ k2.key = k.key
  BY DEF TaskOK, Same, Fields
<1>2. /\ TodoOK(p, k.users, k.devices, made) /\ OneTok(p)
      /\ TokensOf(p) \subseteq TokensOf(k.todo)
      /\ Tok(Head(k.todo)) => Tokless(p)
  BY TailOK DEF TaskOK
<1> HIDE DEF p
<1>3. /\ TodoOK(calls \o p, k.users, k.devices, made) /\ OneTok(calls \o p)
      /\ TokensOf(calls \o p) \subseteq TokensOf(calls) \cup TokensOf(p)
  BY <1>2, ConcatOK
<1>4. TokensOf(calls) = {} /\ (Tok(Head(k.todo)) => TokensOf(p) = {})
  BY <1>2, ToklessTokens
<1>5. Leaves(k, k2, made)
  BY <1>1, <1>2, <1>3, <1>4 DEF Leaves
<1> QED
  BY <1>1, <1>5 DEF Moves

-----------------------------------------------------------------------------
(* What a step does to devices and tokens, to one-time keys and to the     *)
(* changes of keys.                                                        *)

Of(k) == Head(k.todo)[2]
TokenOf(k) == Head(k.todo)[3]
InToken(k, i) == k.todo # <<>> /\ TokenRow(Head(k.todo), k.at, i)
In(k, kind, i) == k.todo # <<>> /\ CallRow(Head(k.todo), k.at, kind, i)

BaseInv ==
  /\ DOMAIN db = Trees
  /\ \A tree \in {"metadata", "token", "onetimekeys"} : DOMAIN db[tree] = UserDevices
  /\ DOMAIN db["device"] = Tokens
  /\ tokens \in Nat /\ tokens <= MaxOps + Cardinality(Registered)
  /\ DOMAIN task = Tasks
  /\ \A t \in Tasks : TaskOK(task[t], tokens)
  /\ \A ud \in UserDevices : db["token"][ud] \in (1..tokens) \cup {None}
  /\ \A x \in Tokens : db["device"][x] \in UserDevices \cup {None}
  /\ \A s, t \in Tasks : s # t => task[s].devices \cap task[t].devices \subseteq mixed

Kept(trees) == \A tree \in trees : db'[tree] = db[tree]

\* set_token writes the token of the device, then the device of the token.
TokenWritten(k, k2) ==
  /\ InToken(k, 4) /\ Onward(k, k2) /\ k2.old = k.old
  /\ db'["token"] = [db["token"] EXCEPT ![Of(k)] = TokenOf(k)]
  /\ Kept({"metadata", "device"})
DeviceWritten(k, k2) ==
  /\ InToken(k, 5) /\ Leaves(k, k2, tokens) /\ k2.old = k.old
  /\ db'["device"] = [db["device"] EXCEPT ![TokenOf(k)] = Of(k)]
  /\ Kept({"metadata", "token"})

\* The device is there, or is gone.
MetaWritten(k, k2) ==
  /\ k.todo # <<>> /\ MetaRow(Head(k.todo), k.at) /\ k2.old = k.old
  /\ IF Head(k.todo)[1] = "create_device" THEN Onward(k, k2) ELSE Leaves(k, k2, tokens)
  /\ db'["metadata"] = [db["metadata"] EXCEPT ![Of(k)] =
                          IF Head(k.todo)[1] = "remove_device" THEN None ELSE "device"]
  /\ Kept({"device", "token"})

\* The old token of the device is looked up, taken from the device, and removed.
OldRead(k, k2) ==
  /\ InToken(k, 2) \/ In(k, "remove_device", 1)
  /\ Onward(k, k2) /\ k2.old = db["token"][Of(k)]
  /\ Kept({"metadata", "device", "token"})
OldUnlinked(k, k2) ==
  /\ In(k, "remove_device", 2) /\ Onward(k, k2) /\ k2.old = k.old
  /\ db'["token"] = IF k.old = None THEN db["token"] ELSE [db["token"] EXCEPT ![Of(k)] = None]
  /\ Kept({"metadata", "device"})
OldCut(k, k2) ==
  /\ InToken(k, 3) \/ In(k, "remove_device", 3)
  /\ Onward(k, k2) /\ k2.old = None
  /\ db'["device"] = IF k.old = None THEN db["device"] ELSE [db["device"] EXCEPT ![k.old] = None]
  /\ Kept({"metadata", "token"})

\* The assertion that the device is there.
Asserted(k, k2) ==
  /\ InToken(k, 1) \/ In(k, "update_device", 1)
  /\ k2.old = k.old
  /\ IF db["metadata"][Of(k)] # None THEN Onward(k, k2) ELSE Leaves(k, k2, tokens) /\ k2.todo = <<>>
  /\ Kept({"metadata", "device", "token"})

\* Any other row.
Aside(k) ==
  /\ \A i \in 1..5 : ~InToken(k, i)
  /\ \A i \in {1, 2, 3, 6} : ~In(k, "remove_device", i)
  /\ \A i \in {1, 3} : ~In(k, "update_device", i)
  /\ ~In(k, "create_device", 3)
Untouched(k, k2) ==
  /\ Aside(k) /\ k2.old = k.old
  /\ In(k, "remove_device", 4) \/ In(k, "remove_device", 5) => Onward(k, k2)
  /\ Kept({"metadata", "device", "token"})

DeviceEffect(k, k2) ==
  \/ TokenWritten(k, k2) \/ DeviceWritten(k, k2) \/ MetaWritten(k, k2)
  \/ OldRead(k, k2) \/ OldUnlinked(k, k2) \/ OldCut(k, k2)
  \/ Asserted(k, k2) \/ Untouched(k, k2)

\* A one-time key is added, found, or taken.
KeyAdded(k, k2) ==
  /\ In(k, "add_one_time_key", 2) /\ k2.key = k.key
  /\ db'["onetimekeys"] =
       [db["onetimekeys"] EXCEPT ![Of(k)] = db["onetimekeys"][Of(k)] \cup {Head(k.todo)[3]}]
  /\ given' = [given EXCEPT ![Of(k)][Head(k.todo)[3]] = 0]
KeyFound(k, k2) ==
  LET ks == db["onetimekeys"][Of(k)]
  IN  /\ In(k, "take_one_time_key", 3) /\ Onward(k, k2)
      /\ k2.key = IF ks = {} THEN None ELSE CHOOSE x \in ks : \A j \in ks : x <= j
      /\ Kept({"onetimekeys"}) /\ UNCHANGED given
KeyTaken(k, k2) ==
  /\ In(k, "take_one_time_key", 4) /\ k2.key = None
  /\ IF k.key = None THEN Kept({"onetimekeys"}) /\ UNCHANGED given
     ELSE /\ db'["onetimekeys"] =
               [db["onetimekeys"] EXCEPT ![Of(k)] = db["onetimekeys"][Of(k)] \ {k.key}]
          /\ given' = [given EXCEPT ![Of(k)][k.key] = given[Of(k)][k.key] + 1]
NoKey(k, k2) ==
  /\ ~In(k, "take_one_time_key", 3) /\ ~In(k, "take_one_time_key", 4)
  /\ k2.key = k.key
  /\ Kept({"onetimekeys"}) /\ UNCHANGED given

OneTimeEffect(k, k2) ==
  KeyAdded(k, k2) \/ KeyFound(k, k2) \/ KeyTaken(k, k2) \/ NoKey(k, k2)

\* A number is taken, a change is announced, a key is written.
RowNow(k) == RowsOf(Head(k.todo))[k.at]
Counted(k, k2) ==
  /\ RowNow(k)[1] = "count"
  /\ counter' = counter + 1 /\ k2.n = counter + 1 /\ UNCHANGED <<changes, fresh>>
Noted(k, k2) ==
  /\ RowNow(k)[1] = "mark" /\ k2.n = k.n
  /\ changes' = changes \cup {<<RowNow(k)[2], k.n, RowNow(k)[3]>>}
  /\ UNCHANGED <<counter, fresh>>
KeyWritten(k, k2) ==
  /\ RowNow(k)[1] \in {"key", "sign"} /\ k2.n = k.n
  /\ fresh' = [fresh EXCEPT ![RowNow(k)[2][1]] = counter]
  /\ UNCHANGED <<counter, changes>>
NoChange(k, k2) ==
  /\ RowNow(k)[1] \notin {"count", "mark", "key", "sign"} /\ k2.n = k.n
  /\ UNCHANGED <<counter, changes, fresh>>

ChangeEffect(k, k2) ==
  /\ Counted(k, k2) \/ Noted(k, k2) \/ KeyWritten(k, k2) \/ NoChange(k, k2)
  /\ \/ Onward(k, k2)
     \/ Leaves(k, k2, tokens) /\ k.at = Len(RowsOf(Head(k.todo)))
     \/ RowNow(k)[1] \notin {"count", "mark", "key", "sign", "set"}

\* A step of task t: the others are as they were.
Effect(t) ==
  /\ DOMAIN task' = Tasks /\ \A s \in Tasks \ {t} : task'[s] = task[s]
  /\ DOMAIN db' = Trees
  /\ \A tree \in {"metadata", "token", "onetimekeys", "device"} : DOMAIN db'[tree] = DOMAIN db[tree]
  /\ task[t].todo # <<>>
  /\ Moves(task[t], task'[t], tokens)
  /\ DeviceEffect(task[t], task'[t])
  /\ OneTimeEffect(task[t], task'[t])
  /\ ChangeEffect(task[t], task'[t])
  /\ UNCHANGED <<tokens, mixed, torn>>

\* A row of a tree is written.
LEMMA PutRow ==
  ASSUME DOMAIN db = Trees, NEW tree, NEW key, NEW value, Put(tree, key, value)
  PROVE  /\ DOMAIN db' = Trees
         /\ \A T \in Trees : T # tree => db'[T] = db[T]
         /\ tree \in Trees => db'[tree] = [db[tree] EXCEPT ![key] = value]
         /\ \A T \in Trees : DOMAIN db'[T] = DOMAIN db[T]
<1>1. db' = [db EXCEPT ![tree][key] = value]
  BY DEF Put
<1>2. DOMAIN db' = Trees
  BY <1>1
<1>3. \A T \in Trees : T # tree => db'[T] = db[T]
  BY <1>1
<1>4. tree \in Trees => db'[tree] = [db[tree] EXCEPT ![key] = value]
  BY <1>1
<1>5. \A T \in Trees : DOMAIN db'[T] = DOMAIN db[T]
  BY <1>3, <1>4
<1> QED
  BY <1>2, <1>3, <1>4, <1>5

\* Where a running task is.
LEMMA Here ==
  ASSUME BaseInv, NEW t \in Tasks, Todo(t) # <<>>
  PROVE  LET k == task[t]
             c == Head(k.todo)
         IN  /\ TaskOK(k, tokens) /\ k.todo # <<>> /\ DOMAIN k = Fields
             /\ CallOK(c, k.users, k.devices, tokens)
             /\ Len(RowsOf(c)) \in Nat /\ k.at \in 1..Len(RowsOf(c))
             /\ Now(t) = RowNow(k) /\ Now(t) = RowsOf(c)[k.at]
             /\ Placed(c, k.at, Now(t))
<1> DEFINE k == task[t]
           c == Head(k.todo)
<1>1. TaskOK(k, tokens) /\ k.todo # <<>> /\ DOMAIN k = Fields
  BY DEF BaseInv, Todo, TaskOK
<1>2. CallOK(c, k.users, k.devices, tokens)
  BY <1>1, TailOK DEF TaskOK
<1>3. Len(RowsOf(c)) \in Nat /\ k.at \in 1..Len(RowsOf(c))
  BY <1>1, <1>2, RowsThere DEF TaskOK
<1>4. Now(t) = RowNow(k) /\ Now(t) = RowsOf(c)[k.at]
  BY DEF Now, RowNow, Todo
<1> HIDE DEF c, k
<1>5. Placed(c, k.at, Now(t))
  BY <1>2, <1>3, <1>4, RowPlaced DEF CallOK
<1> QED
  BY <1>1, <1>2, <1>3, <1>4, <1>5 DEF c, k

\* A row of another kind is none of those of devices and tokens.
LEMMA AsideRow ==
  ASSUME NEW k, k.todo # <<>>, RowNow(k)[1] \notin {"assert", "old", "cut", "unlink"},
         RowNow(k)[1] = "set" => RowNow(k)[2] \notin {"token", "device", "metadata"}
  PROVE  Aside(k)
<1> USE DEF RowNow, CallRow, In, InToken, TokenRow, Set
<1>1. \A i \in 1..5 : ~InToken(k, i)
  <2> SUFFICES ASSUME NEW i \in 1..5, InToken(k, i) PROVE FALSE
    OBVIOUS
  <2> DEFINE c == Head(k.todo)
  <2>1. CASE c[1] = "set_token" /\ k.at = i
    BY <2>1, SetTokenRows
  <2>2. CASE c[1] = "create_device" /\ k.at = i + 3
    BY <2>2, CreateRows
  <2> QED
    BY <2>1, <2>2
<1>2. \A i \in {1, 2, 3, 6} : ~In(k, "remove_device", i)
  BY RemoveRows
<1>3. \A i \in {1, 3} : ~In(k, "update_device", i)
  BY UpdateRows
<1>4. ~In(k, "create_device", 3)
  BY CreateRows
<1> QED
  BY <1>1, <1>2, <1>3, <1>4 DEF Aside

-----------------------------------------------------------------------------
(* What each row of a call does. *)

\* On to the next row, or to the next call.
Shifted(k, k2) ==
  /\ Same(k, k2)
  /\ k.at < Len(RowsOf(Head(k.todo))) => Onward(k, k2)
  /\ k.at = Len(RowsOf(Head(k.todo))) => Leaves(k, k2, tokens)

\* Moved, with one of the locals set.
LEMMA MovedShifts ==
  ASSUME BaseInv, NEW t \in Tasks, Todo(t) # <<>>, NEW v
  PROVE  LET k == task[t]
             m == Moved(t)
         IN  /\ Shifted(k, m) /\ m.old = k.old /\ m.n = k.n /\ m.key = k.key
             /\ LET k2 == [m EXCEPT !.old = v]
                IN  Shifted(k, k2) /\ k2.old = v /\ k2.n = k.n /\ k2.key = k.key
             /\ LET k2 == [m EXCEPT !.n = v]
                IN  Shifted(k, k2) /\ k2.old = k.old /\ k2.n = v /\ k2.key = k.key
             /\ LET k2 == [m EXCEPT !.key = v]
                IN  Shifted(k, k2) /\ k2.old = k.old /\ k2.n = k.n /\ k2.key = v
             /\ LET k2 == [m EXCEPT !.sigs = v]
                IN  Shifted(k, k2) /\ k2.old = k.old /\ k2.n = k.n /\ k2.key = k.key
<1> DEFINE k == task[t]
           m == Moved(t)
<1>1. TaskOK(k, tokens) /\ k.todo # <<>>
  BY Here
<1>2. /\ Moves(k, m, tokens)
      /\ k.at < Len(RowsOf(Head(k.todo))) => Onward(k, m)
      /\ k.at = Len(RowsOf(Head(k.todo))) => Leaves(k, m, tokens)
      /\ m.old = k.old /\ m.n = k.n /\ m.key = k.key
  BY <1>1, MovedMoves
<1>3. DOMAIN m = Fields
  BY <1>2 DEF Moves, Same
<1> HIDE DEF k, m
<1>4. Shifted(k, m)
  BY <1>2 DEF Shifted, Moves
<1>5. ASSUME NEW k2, DOMAIN k2 = Fields, k2.run = m.run, k2.users = m.users,
             k2.devices = m.devices, k2.todo = m.todo, k2.at = m.at
      PROVE  Shifted(k, k2)
  BY <1>4, <1>5 DEF Shifted, Same, Onward, Leaves
<1>6. LET k2 == [m EXCEPT !.old = v]
      IN  Shifted(k, k2) /\ k2.old = v /\ k2.n = k.n /\ k2.key = k.key
  BY <1>2, <1>3, <1>5 DEF Fields
<1>7. LET k2 == [m EXCEPT !.n = v]
      IN  Shifted(k, k2) /\ k2.old = k.old /\ k2.n = v /\ k2.key = k.key
  BY <1>2, <1>3, <1>5 DEF Fields
<1>8. LET k2 == [m EXCEPT !.key = v]
      IN  Shifted(k, k2) /\ k2.old = k.old /\ k2.n = k.n /\ k2.key = v
  BY <1>2, <1>3, <1>5 DEF Fields
<1>9. LET k2 == [m EXCEPT !.sigs = v]
      IN  Shifted(k, k2) /\ k2.old = k.old /\ k2.n = k.n /\ k2.key = k.key
  BY <1>2, <1>3, <1>5 DEF Fields
<1> QED
  BY <1>2, <1>4, <1>6, <1>7, <1>8, <1>9 DEF k, m

\* The task moves by one row.
LEMMA ShiftedMoves ==
  ASSUME BaseInv, NEW t \in Tasks, Todo(t) # <<>>, NEW k2, Shifted(task[t], k2)
  PROVE  LET k == task[t]
         IN  /\ Moves(k, k2, tokens)
             /\ Onward(k, k2) \/ (Leaves(k, k2, tokens) /\ k.at = Len(RowsOf(Head(k.todo))))
             /\ k.at # Len(RowsOf(Head(k.todo))) => Onward(k, k2)
<1> DEFINE k == task[t]
           n == Len(RowsOf(Head(k.todo)))
<1>1. n \in Nat /\ k.at \in 1..n
  BY Here
<1>2. k.at < n \/ k.at = n
  BY <1>1
<1> HIDE DEF n
<1> QED
  BY <1>2 DEF Shifted, Moves, n

\* The four parts of a step.
LEMMA Parts ==
  ASSUME BaseInv, NEW t \in Tasks, Todo(t) # <<>>, NEW k2, task' = [task EXCEPT ![t] = k2],
         DOMAIN db' = Trees,
         \A tree \in {"metadata", "token", "onetimekeys", "device"} : DOMAIN db'[tree] = DOMAIN db[tree],
         Moves(task[t], k2, tokens), DeviceEffect(task[t], k2), OneTimeEffect(task[t], k2),
         ChangeEffect(task[t], k2), UNCHANGED <<tokens, mixed, torn>>
  PROVE  Effect(t)
<1>1. DOMAIN task = Tasks /\ task[t].todo # <<>>
  BY DEF BaseInv, Todo
<1>2. DOMAIN task' = Tasks /\ task'[t] = k2 /\ \A s \in Tasks \ {t} : task'[s] = task[s]
  BY <1>1
<1> QED
  BY <1>1, <1>2 DEF Effect

\* A row that is about no one-time key.
LEMMA NoKeyRow ==
  ASSUME NEW k, NEW k2, RowNow(k)[1] \notin {"scankey", "takekey"},
         k2.key = k.key, Kept({"onetimekeys"}), UNCHANGED given
  PROVE  OneTimeEffect(k, k2)
<1>1. ~In(k, "take_one_time_key", 3) /\ ~In(k, "take_one_time_key", 4)
  BY TakeKeyRows DEF In, CallRow, RowNow
<1> QED
  BY <1>1 DEF OneTimeEffect, NoKey

\* The rows of remove_device between the token and the metadata.
LEMMA MiddleRow ==
  ASSUME NEW k, In(k, "remove_device", 4) \/ In(k, "remove_device", 5)
  PROVE  k.at # Len(RowsOf(Head(k.todo))) /\ RowNow(k)[1] \in {"set", "bump"}
  BY RemoveRows DEF In, CallRow, RowNow, Set

\* A call of one row is at its first.
LEMMA OnlyRow ==
  ASSUME NEW i, NEW rows, Len(rows) = 1, i \in 1..Len(rows)
  PROVE  i = 1
  OBVIOUS

\* A row that is about neither devices, nor one-time keys, nor changes of keys.
LEMMA Quiet ==
  ASSUME BaseInv, NEW t \in Tasks, Todo(t) # <<>>, NEW k2, task' = [task EXCEPT ![t] = k2],
         DOMAIN db' = Trees, Kept({"metadata", "device", "token", "onetimekeys"}),
         Moves(task[t], k2, tokens),
         k2.old = task[t].old, k2.n = task[t].n, k2.key = task[t].key,
         UNCHANGED <<given, counter, changes, fresh, tokens, mixed, torn>>,
         Now(t)[1] \notin {"old", "cut", "unlink", "count", "mark", "key", "sign", "scankey", "takekey"},
         Now(t)[1] = "assert" => In(task[t], "add_one_time_key", 1),
         Now(t)[1] = "set" => Now(t)[2] \notin {"token", "device", "metadata"},
         Shifted(task[t], k2) \/ Now(t)[1] \notin {"set", "bump"}
  PROVE  Effect(t)
<1> DEFINE k == task[t]
<1>1. k.todo # <<>> /\ Now(t) = RowNow(k)
  BY Here
<1>2. Aside(k)
  <2>1. CASE Now(t)[1] = "assert"
    BY <2>1 DEF In, CallRow, Aside, InToken, TokenRow
  <2>2. CASE Now(t)[1] # "assert"
    BY <1>1, <2>2, AsideRow
  <2> QED
    BY <2>1, <2>2
<1>3. In(k, "remove_device", 4) \/ In(k, "remove_device", 5) => Onward(k, k2)
  <2> SUFFICES ASSUME In(k, "remove_device", 4) \/ In(k, "remove_device", 5) PROVE Onward(k, k2)
    OBVIOUS
  <2>1. k.at # Len(RowsOf(Head(k.todo))) /\ RowNow(k)[1] \in {"set", "bump"}
    BY <1>1, MiddleRow
  <2>2. Shifted(k, k2)
    BY <1>1, <2>1, Zenon
  <2> QED
    BY <2>1, <2>2, ShiftedMoves
<1>4. DeviceEffect(k, k2)
  BY <1>2, <1>3 DEF DeviceEffect, Untouched, Kept
<1>5. OneTimeEffect(k, k2)
  BY <1>1, NoKeyRow DEF Kept
<1>6. ChangeEffect(k, k2)
  <2>1. NoChange(k, k2)
    BY <1>1 DEF NoChange
  <2>2. \/ Onward(k, k2)
        \/ Leaves(k, k2, tokens) /\ k.at = Len(RowsOf(Head(k.todo)))
        \/ RowNow(k)[1] \notin {"count", "mark", "key", "sign", "set"}
    BY <1>1, ShiftedMoves
  <2> QED
    BY <2>1, <2>2 DEF ChangeEffect
<1> QED
  BY <1>4, <1>5, <1>6, Parts DEF Kept

\* UNCHANGED of the variables that no row of a call changes.
Rest == UNCHANGED <<tokens, mixed, torn>>

\* Rows of the trees that the properties do not look at.
LEMMA BumpEffect ==
  ASSUME BaseInv, NEW t \in Tasks, Todo(t) # <<>>, Rest,
         Bump(t) \/ LastKeyUpdate(t) \/ StoreAnswer(t)
  PROVE  Effect(t)
<1>1. DOMAIN db = Trees
  BY DEF BaseInv
<1>2. PICK tree \in {"version", "lastonetimekeyupdate", "keys"} : \E key, value : Put(tree, key, value)
  BY Zenon DEF Bump, LastKeyUpdate, StoreAnswer
<1>3. PICK key, value : Put(tree, key, value)
  BY <1>2, Zenon
<1>4. DOMAIN db' = Trees /\ \A T \in Trees : T # tree => db'[T] = db[T]
  BY <1>1, <1>3, PutRow, Zenon
<1>5. DOMAIN db' = Trees /\ Kept({"metadata", "device", "token", "onetimekeys"})
  BY <1>4 DEF Kept, Trees
<1>6. /\ UNCHANGED <<given, counter, changes, fresh>>
      /\ Now(t)[1] \in {"bump", "lastkey", "answer"}
  BY DEF Bump, LastKeyUpdate, StoreAnswer, Is
<1>7. PICK k2 : /\ task' = [task EXCEPT ![t] = k2] /\ Shifted(task[t], k2)
                /\ k2.old = task[t].old /\ k2.n = task[t].n /\ k2.key = task[t].key
  <2>1. PICK k2 \in {Moved(t), [Moved(t) EXCEPT !.sigs = {}]} : task' = [task EXCEPT ![t] = k2]
    BY Zenon DEF Bump, LastKeyUpdate, StoreAnswer, Advance
  <2>2. /\ Shifted(task[t], k2)
        /\ k2.old = task[t].old /\ k2.n = task[t].n /\ k2.key = task[t].key
    <3>1. CASE k2 = Moved(t)
      BY <3>1, MovedShifts, Zenon
    <3>2. CASE k2 = [Moved(t) EXCEPT !.sigs = {}]
      BY <3>2, MovedShifts, Zenon
    <3> QED
      BY <3>1, <3>2
  <2> QED
    BY <2>1, <2>2
<1>8. Moves(task[t], k2, tokens)
  BY <1>7, ShiftedMoves
<1> QED
  BY <1>5, <1>6, <1>7, <1>8, Quiet DEF Rest

\* Reads, and what is not in these trees.
LEMMA ReadEffect ==
  ASSUME BaseInv, NEW t \in Tasks, Todo(t) # <<>>, Rest,
         \/ StoreRequest(t) \/ LeaveAllRooms(t) \/ MakeUserAdmin(t)
         \/ VisibleSignatures(t) \/ ReadKey(t) \/ QueryDevice(t)
  PROVE  Effect(t)
<1> USE DEF StoreRequest, LeaveAllRooms, MakeUserAdmin, VisibleSignatures, ReadKey, QueryDevice
<1>1. DOMAIN db = Trees
  BY DEF BaseInv
<1>2. UNCHANGED db
  OBVIOUS
<1>3. DOMAIN db' = Trees /\ Kept({"metadata", "device", "token", "onetimekeys"})
  BY <1>1, <1>2 DEF Kept
<1>4. /\ UNCHANGED <<given, counter, changes, fresh>>
      /\ Now(t)[1] \in {"request", "leave", "grant", "visible", "readkey", "device"}
  BY DEF Is
<1>5. PICK k2 : /\ task' = [task EXCEPT ![t] = k2] /\ Moves(task[t], k2, tokens)
                /\ k2.old = task[t].old /\ k2.n = task[t].n /\ k2.key = task[t].key
  <2>1. \/ \E v : task' = [task EXCEPT ![t] = [Moved(t) EXCEPT !.sigs = v]]
        \/ task' = [task EXCEPT ![t] = Moved(t)]
        \/ task' = [task EXCEPT ![t] = [task[t] EXCEPT !.at = 1, !.todo = <<>>]]
    BY Zenon DEF Advance, Stop
  <2>2. CASE \E v : task' = [task EXCEPT ![t] = [Moved(t) EXCEPT !.sigs = v]]
    <3>1. PICK v : task' = [task EXCEPT ![t] = [Moved(t) EXCEPT !.sigs = v]]
      BY <2>2
    <3> DEFINE m == [Moved(t) EXCEPT !.sigs = v]
    <3>2. /\ Shifted(task[t], m)
          /\ m.old = task[t].old /\ m.n = task[t].n /\ m.key = task[t].key
      BY MovedShifts, Zenon
    <3> HIDE DEF m
    <3> QED
      BY <3>1, <3>2, ShiftedMoves DEF m
  <2>3. CASE task' = [task EXCEPT ![t] = Moved(t)]
    BY <2>3, MovedShifts, ShiftedMoves
  <2>4. CASE task' = [task EXCEPT ![t] = [task[t] EXCEPT !.at = 1, !.todo = <<>>]]
    BY <2>4, Here, StopMoves
  <2> QED
    BY <2>1, <2>2, <2>3, <2>4
<1> HIDE DEF StoreRequest, LeaveAllRooms, MakeUserAdmin, VisibleSignatures, ReadKey, QueryDevice
<1> QED
  BY <1>3, <1>4, <1>5, Quiet DEF Rest

\* A call is replaced by others.
LEMMA Replaced ==
  ASSUME BaseInv, NEW t \in Tasks, Todo(t) # <<>>, Rest, NEW calls, Replace(t, calls),
         Now(t)[1] \in {"each", "for", "first", "query"},
         TodoOK(calls, task[t].users, task[t].devices, tokens), Tokless(calls),
         UNCHANGED <<db, given, counter, changes, fresh>>
  PROVE  Effect(t)
<1> DEFINE k == task[t]
           k2 == [k EXCEPT !.todo = calls \o Tail(k.todo)]
<1>1. task' = [task EXCEPT ![t] = k2]
  BY Zenon DEF Replace
<1>2. /\ TaskOK(k, tokens) /\ k.todo # <<>> /\ Len(RowsOf(Head(k.todo))) = 1
      /\ k.at \in 1..Len(RowsOf(Head(k.todo)))
  BY Here DEF Placed, Singles
<1>3. k.at = 1
  BY <1>2, OnlyRow
<1> HIDE DEF k2
<1>4. Moves(k, k2, tokens) /\ k2.old = k.old /\ k2.n = k.n /\ k2.key = k.key
  BY <1>2, <1>3, ReplaceMoves DEF k2
<1>5. DOMAIN db' = Trees /\ Kept({"metadata", "device", "token", "onetimekeys"})
  BY DEF Kept, BaseInv
<1> QED
  BY <1>1, <1>4, <1>5, Quiet DEF Rest

\* A call that names no device of a user but those of the request.
LEMMA ForOK ==
  ASSUME NEW kind, NEW who, NEW over, NEW us, NEW ds, NEW made, LoopOK(For(kind, who, over), ds)
  PROVE  TodoOK(<<For(kind, who, over)>>, us, ds, made) /\ Tokless(<<For(kind, who, over)>>)
<1> DEFINE c == For(kind, who, over)
<1>1. c[1] = "for"
  BY DEF For
<1> HIDE DEF c
<1>2. CallOK(c, us, ds, made) /\ ~Tok(c)
  BY <1>1 DEF c, CallOK, CallKinds, Tok
<1> QED
  BY <1>2, SingleOK DEF c

\* A call of another kind.
LEMMA PlainOK ==
  ASSUME NEW c, NEW us, NEW ds, NEW made,
         c[1] \in {"request", "nokeys", "leave", "first", "grant", "query", "device"}
  PROVE  TodoOK(<<c>>, us, ds, made) /\ Tokless(<<c>>)
<1>1. CallOK(c, us, ds, made) /\ ~Tok(c)
  BY DEF CallOK, CallKinds, Tok
<1> QED
  BY <1>1, SingleOK

\* A row of an account.
LEMMA SetOK ==
  ASSUME NEW tree \in {"password", "profile", "pushrules", "sessions", "todevice"}, NEW key,
         NEW value, NEW us, NEW ds, NEW made
  PROVE  TodoOK(<<Set(tree, key, value)>>, us, ds, made) /\ Tokless(<<Set(tree, key, value)>>)
<1> DEFINE c == Set(tree, key, value)
<1>1. c[1] = "set" /\ c[2] = tree
  BY DEF Set
<1> HIDE DEF c
<1>2. CallOK(c, us, ds, made) /\ ~Tok(c)
  BY <1>1 DEF CallOK, CallKinds, Tok
<1> QED
  BY <1>2, SingleOK DEF c

\* A call on a device of the request that makes no token.
LEMMA OnDeviceOK ==
  ASSUME NEW c, NEW us, NEW ds, NEW made, c[2] \in ds,
         c[1] \in {"remove_device", "update_device", "add_one_time_key", "take_one_time_key", "add_device_keys"},
         c[1] = "add_one_time_key" => c[3] \in OneTimeKeys
  PROVE  TodoOK(<<c>>, us, ds, made) /\ Tokless(<<c>>)
<1>1. CallOK(c, us, ds, made) /\ ~Tok(c)
  BY DEF CallOK, CallKinds, Tok
<1> QED
  BY <1>1, SingleOK

\* The calls one after another, none of which makes a token.
LEMMA ThenOK ==
  ASSUME NEW p, NEW q, NEW us, NEW ds, NEW made, TodoOK(p, us, ds, made), TodoOK(q, us, ds, made),
         Tokless(p), Tokless(q)
  PROVE  TodoOK(p \o q, us, ds, made) /\ Tokless(p \o q)
  BY ConcatOK, ToklessTokens

\* All devices of a user are devices of the request.
LEMMA RemoveAllOK ==
  ASSUME NEW u, NEW except, NEW us, NEW ds, NEW made, \A d \in Devices : <<u, d>> \in ds
  PROVE  TodoOK(RemoveAllDevices(u, except), us, ds, made) /\ Tokless(RemoveAllDevices(u, except))
<1> DEFINE c == <<"each", u, except>>
<1>1. c[1] = "each" /\ c[2] = u
  OBVIOUS
<1> HIDE DEF c
<1>2. CallOK(c, us, ds, made) /\ ~Tok(c)
  BY <1>1 DEF CallOK, CallKinds, Tok
<1>3. RemoveAllDevices(u, except) = <<c>>
  BY DEF RemoveAllDevices, c
<1> QED
  BY <1>2, <1>3, SingleOK

\* Then the password is emptied.
LEMMA DeactivateOK ==
  ASSUME NEW u, NEW us, NEW ds, NEW made, \A d \in Devices : <<u, d>> \in ds
  PROVE  TodoOK(DeactivateAccount(u), us, ds, made) /\ Tokless(DeactivateAccount(u))
<1>1. TodoOK(SetPassword(u, "empty"), us, ds, made) /\ Tokless(SetPassword(u, "empty"))
  BY SetOK DEF SetPassword
<1> QED
  BY <1>1, RemoveAllOK, ThenOK DEF DeactivateAccount

\* The body of a loop.
LEMMA BodyOK ==
  ASSUME NEW kind, NEW who, NEW over, NEW us, NEW ds, NEW made, LoopOK(For(kind, who, over), ds),
         NEW x \in over
  PROVE  LET calls == Body(kind, who, x) \o <<For(kind, who, over \ {x})>>
         IN  TodoOK(calls, us, ds, made) /\ Tokless(calls)
<1>1. /\ kind \in {"remove", "deactivate", "leave", "upload", "query"}
      /\ kind = "remove" => \A d \in over : <<who, d>> \in ds
      /\ kind = "deactivate" => \A u \in over, d \in Devices : <<u, d>> \in ds
      /\ kind = "upload" => who \in ds /\ over \subseteq OneTimeKeys
  BY DEF LoopOK, For
<1>2. LoopOK(For(kind, who, over \ {x}), ds)
  BY <1>1 DEF LoopOK, For
<1>3. TodoOK(Body(kind, who, x), us, ds, made) /\ Tokless(Body(kind, who, x))
  <2>1. CASE kind = "remove"
    <3>1. Body(kind, who, x) = << <<"remove_device", <<who, x>> >> >>
      BY <2>1 DEF Body
    <3>2. <<who, x>> \in ds
      BY <1>1, <2>1
    <3> QED
      BY <3>1, <3>2, OnDeviceOK
  <2>2. CASE kind = "deactivate"
    <3>1. Body(kind, who, x) = DeactivateAccount(x)
      BY <2>2 DEF Body
    <3> QED
      BY <1>1, <2>2, <3>1, DeactivateOK
  <2>3. CASE kind = "leave"
    <3>1. Body(kind, who, x) = << <<"leave", x>> >>
      BY <2>3 DEF Body
    <3> QED
      BY <3>1, PlainOK
  <2>4. CASE kind = "upload"
    <3>1. Body(kind, who, x) = << <<"add_one_time_key", who, x>> >>
      BY <2>4 DEF Body
    <3>2. who \in ds /\ x \in OneTimeKeys
      BY <1>1, <2>4
    <3> QED
      BY <3>1, <3>2, OnDeviceOK
  <2>5. CASE kind = "query"
    <3>1. Body(kind, who, x) = << <<"device", <<who, x>> >> >>
      BY <2>5 DEF Body
    <3> QED
      BY <3>1, PlainOK
  <2> QED
    BY <1>1, <2>1, <2>2, <2>3, <2>4, <2>5
<1> QED
  BY <1>2, <1>3, ForOK, ThenOK

\* Loops and other calls that give way to calls.
LEMMA LoopEffect ==
  ASSUME BaseInv, NEW t \in Tasks, Todo(t) # <<>>, Rest,
         EachDevice(t) \/ Loop(t) \/ FirstAdmin(t) \/ QueryDevices(t)
  PROVE  Effect(t)
<1> DEFINE k == task[t]
           c == Now(t)
<1>1. UNCHANGED <<db, given, counter, changes, fresh>> /\ c[1] \in {"each", "for", "first", "query"}
  BY DEF EachDevice, Loop, FirstAdmin, QueryDevices, Is
<1>2. CallOK(c, k.users, k.devices, tokens)
  BY <1>1, Here DEF Placed, Singles
<1>3. CASE EachDevice(t)
  <2> DEFINE ds == AllDeviceIds(c[2]) \ {c[3]}
  <2>1. Replace(t, <<For("remove", c[2], ds)>>) /\ c[1] = "each"
    BY <1>3 DEF EachDevice, Is
  <2>2. LoopOK(For("remove", c[2], ds), k.devices)
    BY <1>2, <2>1 DEF CallOK, LoopOK, For, AllDeviceIds
  <2> QED
    BY <1>1, <2>1, <2>2, ForOK, Replaced
<1>4. CASE Loop(t) /\ c[4] = {} /\ Advance(t)
  <2> DEFINE k2 == Moved(t)
  <2>1. task' = [task EXCEPT ![t] = k2]
    BY <1>4 DEF Advance
  <2>2. Shifted(k, k2) /\ k2.old = k.old /\ k2.n = k.n /\ k2.key = k.key
    BY MovedShifts, Zenon
  <2> HIDE DEF k2
  <2>3. DOMAIN db' = Trees /\ Kept({"metadata", "device", "token", "onetimekeys"})
    BY <1>1 DEF Kept, BaseInv
  <2>4. Moves(k, k2, tokens)
    BY <2>2, ShiftedMoves
  <2> QED
    BY <1>1, <2>1, <2>2, <2>3, <2>4, Quiet DEF Rest
<1>5. CASE Loop(t) /\ ~(c[4] = {} /\ Advance(t))
  <2>1. c[1] = "for" /\ \E x \in c[4] : Replace(t, Body(c[2], c[3], x) \o <<For(c[2], c[3], c[4] \ {x})>>)
    BY <1>5, Zenon DEF Loop, Is
  <2>2. PICK x \in c[4] : Replace(t, Body(c[2], c[3], x) \o <<For(c[2], c[3], c[4] \ {x})>>)
    BY <2>1
  <2>3. LoopOK(c, k.devices)
    BY <1>2, <2>1 DEF CallOK
  <2>4. LoopOK(For(c[2], c[3], c[4]), k.devices)
    BY <2>3 DEF LoopOK, For
  <2> QED
    BY <1>1, <2>2, <2>4, BodyOK, Replaced
<1>6. CASE FirstAdmin(t)
  <2>1. CASE admins = {}
    <3>1. Replace(t, << <<"grant", c[2]>> >>)
      BY <1>6, <2>1 DEF FirstAdmin
    <3> QED
      BY <1>1, <3>1, PlainOK, Replaced
  <2>2. CASE admins # {}
    <3>1. Replace(t, <<>>)
      BY <1>6, <2>2 DEF FirstAdmin
    <3> QED
      BY <1>1, <3>1, NoCalls, Replaced
  <2> QED
    BY <2>1, <2>2
<1>7. CASE QueryDevices(t)
  <2> DEFINE ds == AllDeviceIds(c[2])
  <2>1. Replace(t, <<For("query", c[2], ds)>>)
    BY <1>7 DEF QueryDevices
  <2>2. LoopOK(For("query", c[2], ds), k.devices)
    BY DEF LoopOK, For
  <2> QED
    BY <1>1, <2>1, <2>2, ForOK, Replaced
<1> QED
  BY <1>3, <1>4, <1>5, <1>6, <1>7

\* The rows of set_token, also at the end of create_device.
LEMMA TokenRows ==
  ASSUME NEW k
  PROVE  LET n == Len(RowsOf(Head(k.todo)))
         IN  /\ InToken(k, 1) => RowNow(k) = <<"assert", Of(k)>> /\ k.at # n
             /\ InToken(k, 2) => RowNow(k) = <<"old", Of(k)>> /\ k.at # n
             /\ InToken(k, 3) => RowNow(k) = <<"cut">> /\ k.at # n
             /\ InToken(k, 4) => RowNow(k) = Set("token", Of(k), TokenOf(k)) /\ k.at # n
             /\ InToken(k, 5) => RowNow(k) = Set("device", TokenOf(k), Of(k)) /\ k.at = n
<1> DEFINE c == Head(k.todo)
<1>1. CASE c[1] = "set_token"
  <2>1. /\ Len(RowsOf(c)) = 5
        /\ RowsOf(c)[1] = <<"assert", c[2]>>
        /\ RowsOf(c)[2] = <<"old", c[2]>>
        /\ RowsOf(c)[3] = <<"cut">>
        /\ RowsOf(c)[4] = Set("token", c[2], c[3])
        /\ RowsOf(c)[5] = Set("device", c[3], c[2])
    BY <1>1, SetTokenRows
  <2>2. \A i \in 1..5 : InToken(k, i) => k.at = i
    BY <1>1 DEF InToken, TokenRow
  <2>3. RowNow(k) = RowsOf(c)[k.at] /\ Of(k) = c[2] /\ TokenOf(k) = c[3]
    BY DEF RowNow, Of, TokenOf
  <2> HIDE DEF c
  <2>4. /\ InToken(k, 1) => RowNow(k) = <<"assert", Of(k)>> /\ k.at # Len(RowsOf(c))
        /\ InToken(k, 2) => RowNow(k) = <<"old", Of(k)>> /\ k.at # Len(RowsOf(c))
        /\ InToken(k, 3) => RowNow(k) = <<"cut">> /\ k.at # Len(RowsOf(c))
    BY <2>1, <2>2, <2>3
  <2>5. /\ InToken(k, 4) => RowNow(k) = Set("token", Of(k), TokenOf(k)) /\ k.at # Len(RowsOf(c))
        /\ InToken(k, 5) => RowNow(k) = Set("device", TokenOf(k), Of(k)) /\ k.at = Len(RowsOf(c))
    BY <2>1, <2>2, <2>3
  <2> QED
    BY <2>4, <2>5 DEF c
<1>2. CASE c[1] = "create_device"
  <2>1. /\ Len(RowsOf(c)) = 8
        /\ RowsOf(c)[4] = <<"assert", c[2]>>
        /\ RowsOf(c)[5] = <<"old", c[2]>>
        /\ RowsOf(c)[6] = <<"cut">>
        /\ RowsOf(c)[7] = Set("token", c[2], c[3])
        /\ RowsOf(c)[8] = Set("device", c[3], c[2])
    BY <1>2, CreateRows
  <2>2. \A i \in 1..5 : InToken(k, i) => k.at = i + 3
    BY <1>2 DEF InToken, TokenRow
  <2>3. RowNow(k) = RowsOf(c)[k.at] /\ Of(k) = c[2] /\ TokenOf(k) = c[3]
    BY DEF RowNow, Of, TokenOf
  <2> HIDE DEF c
  <2>4. /\ InToken(k, 1) => RowNow(k) = <<"assert", Of(k)>> /\ k.at # Len(RowsOf(c))
        /\ InToken(k, 2) => RowNow(k) = <<"old", Of(k)>> /\ k.at # Len(RowsOf(c))
        /\ InToken(k, 3) => RowNow(k) = <<"cut">> /\ k.at # Len(RowsOf(c))
    BY <2>1, <2>2, <2>3
  <2>5. /\ InToken(k, 4) => RowNow(k) = Set("token", Of(k), TokenOf(k)) /\ k.at # Len(RowsOf(c))
        /\ InToken(k, 5) => RowNow(k) = Set("device", TokenOf(k), Of(k)) /\ k.at = Len(RowsOf(c))
    BY <2>1, <2>2, <2>3
  <2> QED
    BY <2>4, <2>5 DEF c
<1> QED
  BY <1>1, <1>2 DEF InToken, TokenRow

\* The rows that write whether a device exists.
LEMMA MetaRows ==
  ASSUME NEW k, k.todo # <<>>, MetaRow(Head(k.todo), k.at)
  PROVE  /\ RowNow(k) = Set("metadata", Of(k),
                            IF Head(k.todo)[1] = "remove_device" THEN None ELSE "device")
         /\ k.at = Len(RowsOf(Head(k.todo))) <=> Head(k.todo)[1] # "create_device"
<1> DEFINE c == Head(k.todo)
<1>1. RowNow(k) = RowsOf(c)[k.at] /\ Of(k) = c[2]
  BY DEF RowNow, Of
<1> HIDE DEF c
<1>2. CASE c[1] = "create_device" /\ k.at = 3
  BY <1>1, <1>2, CreateRows DEF c
<1>3. CASE c[1] = "update_device" /\ k.at = 3
  BY <1>1, <1>3, UpdateRows DEF c
<1>4. CASE c[1] = "remove_device" /\ k.at = 6
  BY <1>1, <1>4, RemoveRows DEF c
<1> QED
  BY <1>2, <1>3, <1>4 DEF MetaRow, CallRow, c

\* The rows of remove_device that are about tokens.
LEMMA RemovedRows ==
  ASSUME NEW k
  PROVE  LET n == Len(RowsOf(Head(k.todo)))
         IN  /\ In(k, "remove_device", 1) => RowNow(k) = <<"old", Of(k)>> /\ k.at # n
             /\ In(k, "remove_device", 2) => RowNow(k) = <<"unlink", Of(k)>> /\ k.at # n
             /\ In(k, "remove_device", 3) => RowNow(k) = <<"cut">> /\ k.at # n
  BY RemoveRows DEF In, CallRow, RowNow, Of

\* A row of a device or a token is written.
LEMMA WriteEffect ==
  ASSUME BaseInv, NEW t \in Tasks, Todo(t) # <<>>, Rest, Write(t)
  PROVE  Effect(t)
<1> DEFINE k == task[t]
           k2 == Moved(t)
           c == Head(k.todo)
           r == Now(t)
<1>1. /\ r[1] = "set" /\ Put(r[2], r[3], r[4]) /\ task' = [task EXCEPT ![t] = k2]
      /\ UNCHANGED <<given, counter, changes, fresh>>
  BY DEF Write, Is, Advance
<1>2. Shifted(k, k2) /\ k2.old = k.old /\ k2.n = k.n /\ k2.key = k.key
  BY MovedShifts, Zenon
<1>3. k.todo # <<>> /\ r = RowNow(k) /\ Placed(c, k.at, r)
  BY Here
<1> HIDE DEF k2, r, k, c
<1>4. /\ Moves(k, k2, tokens)
      /\ Onward(k, k2) \/ (Leaves(k, k2, tokens) /\ k.at = Len(RowsOf(Head(k.todo))))
      /\ k.at # Len(RowsOf(Head(k.todo))) => Onward(k, k2)
  BY <1>2, ShiftedMoves DEF k
<1>5. DOMAIN db = Trees
  BY DEF BaseInv
<1>6. /\ DOMAIN db' = Trees
      /\ \A T \in Trees : T # r[2] => db'[T] = db[T]
      /\ r[2] \in Trees => db'[r[2]] = [db[r[2]] EXCEPT ![r[3]] = r[4]]
      /\ \A T \in Trees : DOMAIN db'[T] = DOMAIN db[T]
  BY <1>1, <1>5, PutRow
<1>7. \A tree \in {"metadata", "token", "onetimekeys", "device"} : DOMAIN db'[tree] = DOMAIN db[tree]
  BY <1>6 DEF Trees
<1>8. ChangeEffect(k, k2)
  BY <1>1, <1>2, <1>3, <1>4 DEF ChangeEffect, NoChange
<1>9. ASSUME Kept({"onetimekeys"})
      PROVE  OneTimeEffect(k, k2)
  BY <1>1, <1>2, <1>3, <1>9, NoKeyRow
<1>10. ASSUME DeviceEffect(k, k2), Kept({"onetimekeys"})
       PROVE  Effect(t)
  BY <1>1, <1>4, <1>6, <1>7, <1>8, <1>9, <1>10, Parts DEF Rest, k
<1>11. CASE TokenRow(c, k.at, 4)
  <2>1. InToken(k, 4)
    BY <1>3, <1>11 DEF InToken, c
  <2>2. r = Set("token", Of(k), TokenOf(k)) /\ k.at # Len(RowsOf(Head(k.todo)))
    BY <1>3, <2>1, TokenRows
  <2>3. r[2] = "token" /\ r[3] = Of(k) /\ r[4] = TokenOf(k)
    BY <2>2 DEF Set
  <2>4. Kept({"metadata", "device"}) /\ Kept({"onetimekeys"})
    BY <1>6, <2>3 DEF Kept, Trees
  <2>5. db'["token"] = [db["token"] EXCEPT ![Of(k)] = TokenOf(k)]
    BY <1>6, <2>3 DEF Trees
  <2> QED
    BY <1>2, <1>4, <1>10, <2>1, <2>2, <2>4, <2>5 DEF DeviceEffect, TokenWritten
<1>12. CASE TokenRow(c, k.at, 5)
  <2>1. InToken(k, 5)
    BY <1>3, <1>12 DEF InToken, c
  <2>2. r = Set("device", TokenOf(k), Of(k)) /\ k.at = Len(RowsOf(Head(k.todo)))
    BY <1>3, <2>1, TokenRows
  <2>3. r[2] = "device" /\ r[3] = TokenOf(k) /\ r[4] = Of(k)
    BY <2>2 DEF Set
  <2>4. Kept({"metadata", "token"}) /\ Kept({"onetimekeys"})
    BY <1>6, <2>3 DEF Kept, Trees
  <2>5. db'["device"] = [db["device"] EXCEPT ![TokenOf(k)] = Of(k)]
    BY <1>6, <2>3 DEF Trees
  <2>6. Leaves(k, k2, tokens)
    BY <1>2, <2>2 DEF Shifted
  <2> QED
    BY <1>2, <1>10, <2>1, <2>4, <2>5, <2>6 DEF DeviceEffect, DeviceWritten
<1>13. CASE MetaRow(c, k.at)
  <2> DEFINE v == IF Head(k.todo)[1] = "remove_device" THEN None ELSE "device"
  <2>1. r = Set("metadata", Of(k), v)
    BY <1>3, <1>13, MetaRows DEF c
  <2>2. k.at = Len(RowsOf(Head(k.todo))) <=> Head(k.todo)[1] # "create_device"
    BY <1>3, <1>13, MetaRows DEF c
  <2> HIDE DEF v
  <2>3. r[2] = "metadata" /\ r[3] = Of(k) /\ r[4] = v
    BY <2>1 DEF Set
  <2>4. Kept({"device", "token"}) /\ Kept({"onetimekeys"})
    BY <1>6, <2>3 DEF Kept, Trees
  <2>5. db'["metadata"] = [db["metadata"] EXCEPT ![Of(k)] = v]
    BY <1>6, <2>3 DEF Trees
  <2>6. IF Head(k.todo)[1] = "create_device" THEN Onward(k, k2) ELSE Leaves(k, k2, tokens)
    BY <1>2, <1>4, <2>2 DEF Shifted
  <2>7. MetaWritten(k, k2)
    BY <1>2, <1>3, <1>13, <2>4, <2>5, <2>6 DEF MetaWritten, c, v
  <2> QED
    BY <1>10, <2>4, <2>7 DEF DeviceEffect
<1>14. CASE r[2] \notin {"token", "device", "metadata", "onetimekeys"}
  <2>1. Kept({"metadata", "device", "token", "onetimekeys"})
    BY <1>6, <1>14 DEF Kept, Trees
  <2> QED
    BY <1>1, <1>2, <1>3, <1>4, <1>6, <1>14, <2>1, Quiet DEF Rest, k, r
<1> QED
  BY <1>1, <1>3, <1>11, <1>12, <1>13, <1>14 DEF Placed

\* Where update_device asserts.
LEMMA UpdatedRows ==
  ASSUME NEW k, In(k, "update_device", 1)
  PROVE  RowNow(k) = <<"assert", Of(k)>> /\ k.at # Len(RowsOf(Head(k.todo)))
  BY UpdateRows DEF In, CallRow, RowNow, Of

\* A check, and the end of a request that fails it.
LEMMA CheckEffect ==
  ASSUME BaseInv, NEW t \in Tasks, Todo(t) # <<>>, Rest, Check(t)
  PROVE  Effect(t)
<1> DEFINE k == task[t]
           c == Head(k.todo)
           r == Now(t)
           passes == Moved(t)
           fails == [k EXCEPT !.at = 1, !.todo = <<>>]
<1>1. r[1] \in {"exists", "assert", "nokeys"} /\ UNCHANGED <<db, given, counter, changes, fresh>>
  BY DEF Check
<1>2. \/ task' = [task EXCEPT ![t] = passes]
      \/ task' = [task EXCEPT ![t] = fails]
  BY Zenon DEF Check, Advance, Stop
<1>3. r[1] = "assert" => IF db["metadata"][r[2]] # None THEN task' = [task EXCEPT ![t] = passes]
                         ELSE task' = [task EXCEPT ![t] = fails]
  <2> SUFFICES ASSUME r[1] = "assert"
               PROVE  IF db["metadata"][r[2]] # None THEN task' = [task EXCEPT ![t] = passes]
                      ELSE task' = [task EXCEPT ![t] = fails]
    OBVIOUS
  <2>1. IF db["metadata"][r[2]] # None THEN Advance(t) ELSE Stop(t)
    BY DEF Check, Is
  <2> QED
    BY <2>1, Zenon DEF Advance, Stop
<1>4. Shifted(k, passes) /\ passes.old = k.old /\ passes.n = k.n /\ passes.key = k.key
  BY MovedShifts, Zenon
<1>5. k.todo # <<>> /\ r = RowNow(k) /\ Placed(c, k.at, r) /\ TaskOK(k, tokens)
  BY Here
<1>6. /\ Moves(k, fails, tokens) /\ Leaves(k, fails, tokens) /\ fails.todo = <<>>
      /\ fails.old = k.old /\ fails.n = k.n /\ fails.key = k.key
  BY <1>5, StopMoves
<1> HIDE DEF k, c, r, passes, fails
<1>7. Moves(k, passes, tokens) /\ (k.at # Len(RowsOf(Head(k.todo))) => Onward(k, passes))
  BY <1>4, ShiftedMoves DEF k
<1>8. /\ DOMAIN db' = Trees /\ Kept({"metadata", "device", "token", "onetimekeys"})
      /\ \A tree \in {"metadata", "token", "onetimekeys", "device"} : DOMAIN db'[tree] = DOMAIN db[tree]
  BY <1>1 DEF Kept, BaseInv
<1>9. PICK k2 : /\ task' = [task EXCEPT ![t] = k2] /\ Moves(k, k2, tokens)
                /\ k2.old = k.old /\ k2.n = k.n /\ k2.key = k.key
                /\ r[1] = "assert" => k2 = IF db["metadata"][r[2]] # None THEN passes ELSE fails
  <2>1. CASE r[1] = "assert"
    BY <1>3, <1>4, <1>6, <1>7, <2>1
  <2>2. CASE r[1] # "assert"
    BY <1>2, <1>4, <1>6, <1>7, <2>2
  <2> QED
    BY <2>1, <2>2
<1>10. CASE r[1] # "assert" \/ CallRow(c, k.at, "add_one_time_key", 1)
  <2>1. r[1] = "assert" => In(k, "add_one_time_key", 1)
    BY <1>5, <1>10 DEF In, c
  <2> QED
    BY <1>1, <1>8, <1>9, <2>1, Quiet DEF Rest, k, r
<1>11. CASE r[1] = "assert" /\ (TokenRow(c, k.at, 1) \/ CallRow(c, k.at, "update_device", 1))
  <2>1. InToken(k, 1) \/ In(k, "update_device", 1)
    BY <1>5, <1>11 DEF InToken, In, c
  <2>2. r = <<"assert", Of(k)>> /\ k.at # Len(RowsOf(Head(k.todo)))
    BY <1>5, <2>1, TokenRows, UpdatedRows
  <2>3. r[2] = Of(k)
    BY <2>2
  <2>4. IF db["metadata"][Of(k)] # None THEN Onward(k, k2) ELSE Leaves(k, k2, tokens) /\ k2.todo = <<>>
    BY <1>6, <1>7, <1>9, <1>11, <2>2, <2>3
  <2>5. Asserted(k, k2)
    BY <1>8, <1>9, <2>1, <2>4 DEF Asserted, Kept
  <2>6. OneTimeEffect(k, k2)
    BY <1>1, <1>5, <1>8, <1>9, NoKeyRow DEF Kept
  <2>7. ChangeEffect(k, k2)
    BY <1>1, <1>5, <1>9 DEF ChangeEffect, NoChange
  <2> QED
    BY <1>8, <1>9, <2>5, <2>6, <2>7, Parts DEF Rest, k, DeviceEffect
<1> QED
  BY <1>1, <1>5, <1>10, <1>11 DEF Placed

\* The old token: looked up, taken from the device, and removed.
LEMMA OldEffect ==
  ASSUME BaseInv, NEW t \in Tasks, Todo(t) # <<>>, Rest, OldToken(t) \/ Cut(t) \/ Unlink(t)
  PROVE  Effect(t)
<1> DEFINE k == task[t]
           c == Head(k.todo)
           r == Now(t)
<1>1. r[1] \in {"old", "cut", "unlink"} /\ UNCHANGED <<given, counter, changes, fresh>>
  BY DEF OldToken, Cut, Unlink, Is
<1>2. k.todo # <<>> /\ r = RowNow(k) /\ Placed(c, k.at, r) /\ DOMAIN db = Trees
  BY Here DEF BaseInv
<1>3. ASSUME NEW k2, Shifted(k, k2), task' = [task EXCEPT ![t] = k2], k2.n = k.n, k2.key = k.key,
             DeviceEffect(k, k2), DOMAIN db' = Trees, \A T \in Trees : DOMAIN db'[T] = DOMAIN db[T],
             Kept({"onetimekeys"})
      PROVE  Effect(t)
  <2>1. OneTimeEffect(k, k2)
    BY <1>1, <1>2, <1>3, NoKeyRow
  <2>2. /\ Moves(k, k2, tokens)
        /\ Onward(k, k2) \/ (Leaves(k, k2, tokens) /\ k.at = Len(RowsOf(Head(k.todo))))
    BY <1>3, ShiftedMoves
  <2>3. ChangeEffect(k, k2)
    BY <1>1, <1>2, <1>3, <2>2 DEF ChangeEffect, NoChange
  <2>4. \A tree \in {"metadata", "token", "onetimekeys", "device"} : DOMAIN db'[tree] = DOMAIN db[tree]
    BY <1>3 DEF Trees
  <2> QED
    BY <1>3, <2>1, <2>2, <2>3, <2>4, Parts DEF Rest
<1>4. CASE OldToken(t)
  <2> DEFINE k2 == [Moved(t) EXCEPT !.old = db["token"][r[2]]]
  <2>1. r[1] = "old" /\ task' = [task EXCEPT ![t] = k2] /\ UNCHANGED db
    BY <1>4 DEF OldToken, Is
  <2>2. Shifted(k, k2) /\ k2.old = db["token"][r[2]] /\ k2.n = k.n /\ k2.key = k.key
    BY MovedShifts, ZenonT(60)
  <2> HIDE DEF k2
  <2>3. InToken(k, 2) \/ In(k, "remove_device", 1)
    BY <1>2, <2>1 DEF Placed, InToken, In
  <2>4. r = <<"old", Of(k)>> /\ k.at # Len(RowsOf(Head(k.todo)))
    BY <1>2, <2>3, TokenRows, RemovedRows
  <2>5. r[2] = Of(k)
    BY <2>4
  <2>6. Onward(k, k2)
    BY <2>2, <2>4, ShiftedMoves
  <2>7. Kept({"metadata", "device", "token"}) /\ Kept({"onetimekeys"})
    BY <2>1 DEF Kept
  <2>8. OldRead(k, k2)
    BY <2>2, <2>3, <2>5, <2>6, <2>7 DEF OldRead
  <2> QED
    BY <1>2, <1>3, <2>1, <2>2, <2>7, <2>8 DEF DeviceEffect
<1>5. CASE Cut(t)
  <2> DEFINE k2 == [Moved(t) EXCEPT !.old = None]
  <2>1. /\ r[1] = "cut" /\ task' = [task EXCEPT ![t] = k2]
        /\ IF k.old = None THEN UNCHANGED db ELSE Put("device", k.old, None)
    BY <1>5 DEF Cut, Is
  <2>2. Shifted(k, k2) /\ k2.old = None /\ k2.n = k.n /\ k2.key = k.key
    BY MovedShifts, Zenon
  <2> HIDE DEF k2
  <2>3. InToken(k, 3) \/ In(k, "remove_device", 3)
    BY <1>2, <2>1 DEF Placed, InToken, In
  <2>4. k.at # Len(RowsOf(Head(k.todo)))
    BY <2>3, TokenRows, RemovedRows
  <2>5. Onward(k, k2)
    BY <2>2, <2>4, ShiftedMoves
  <2>6. /\ DOMAIN db' = Trees /\ \A T \in Trees : DOMAIN db'[T] = DOMAIN db[T]
        /\ \A T \in Trees : T # "device" => db'[T] = db[T]
        /\ db'["device"] = IF k.old = None THEN db["device"] ELSE [db["device"] EXCEPT ![k.old] = None]
    <3>1. CASE k.old = None
      BY <1>2, <2>1, <3>1
    <3>2. CASE k.old # None
      <4>1. Put("device", k.old, None)
        BY <2>1, <3>2
      <4>2. "device" \in Trees
        BY DEF Trees
      <4>3. DOMAIN db = Trees
        BY <1>2
      <4>4. /\ DOMAIN db' = Trees
            /\ \A T \in Trees : T # "device" => db'[T] = db[T]
            /\ "device" \in Trees => db'["device"] = [db["device"] EXCEPT ![k.old] = None]
            /\ \A T \in Trees : DOMAIN db'[T] = DOMAIN db[T]
        BY <4>1, <4>3, PutRow, Zenon
      <4> QED
        BY <3>2, <4>2, <4>4
    <3> QED
      BY <3>1, <3>2
  <2>7. Kept({"metadata", "token"}) /\ Kept({"onetimekeys"})
    BY <2>6 DEF Kept, Trees
  <2>8. OldCut(k, k2)
    BY <2>2, <2>3, <2>5, <2>6, <2>7 DEF OldCut
  <2> QED
    BY <1>3, <2>1, <2>2, <2>6, <2>7, <2>8 DEF DeviceEffect
<1>6. CASE Unlink(t)
  <2> DEFINE k2 == Moved(t)
  <2>1. /\ r[1] = "unlink" /\ task' = [task EXCEPT ![t] = k2]
        /\ IF k.old = None THEN UNCHANGED db ELSE Put("token", r[2], None)
    BY <1>6 DEF Unlink, Is, Advance
  <2>2. Shifted(k, k2) /\ k2.old = k.old /\ k2.n = k.n /\ k2.key = k.key
    BY MovedShifts, Zenon
  <2> HIDE DEF k2
  <2>3. In(k, "remove_device", 2)
    BY <1>2, <2>1 DEF Placed, In
  <2>4. k.at # Len(RowsOf(Head(k.todo))) /\ r = <<"unlink", Of(k)>>
    BY <1>2, <2>3, RemovedRows
  <2>5. Onward(k, k2) /\ r[2] = Of(k)
    BY <2>2, <2>4, ShiftedMoves
  <2>6. /\ DOMAIN db' = Trees /\ \A T \in Trees : DOMAIN db'[T] = DOMAIN db[T]
        /\ \A T \in Trees : T # "token" => db'[T] = db[T]
        /\ db'["token"] = IF k.old = None THEN db["token"] ELSE [db["token"] EXCEPT ![Of(k)] = None]
    <3>1. CASE k.old = None
      BY <1>2, <2>1, <3>1
    <3>2. CASE k.old # None
      <4> HIDE DEF r
      <4>1. Put("token", r[2], None) /\ r[2] = Of(k)
        BY <2>1, <2>5, <3>2
      <4>2. PICK key : key = Of(k)
        OBVIOUS
      <4>3. Put("token", key, None)
        BY <4>1, <4>2
      <4>4. "token" \in Trees
        BY DEF Trees
      <4>5. /\ DOMAIN db' = Trees /\ \A T \in Trees : DOMAIN db'[T] = DOMAIN db[T]
            /\ \A T \in Trees : T # "token" => db'[T] = db[T]
            /\ db'["token"] = [db["token"] EXCEPT ![key] = None]
        <5>1. DOMAIN db = Trees
          BY <1>2
        <5> QED
          <6>1. DOMAIN db' = Trees
            BY <4>3, <5>1 DEF Put
          <6>2. \A T \in Trees : T # "token" => db'[T] = db[T]
            BY <4>3, <5>1 DEF Put
          <6>3. db'["token"] = [db["token"] EXCEPT ![key] = None]
            BY <4>3, <4>4, <5>1 DEF Put
          <6> QED
            BY <6>1, <6>2, <6>3
      <4> QED
        BY <3>2, <4>2, <4>5
    <3> QED
      BY <3>1, <3>2
  <2>7. Kept({"metadata", "device"}) /\ Kept({"onetimekeys"})
    BY <2>6 DEF Kept, Trees
  <2>8. OldUnlinked(k, k2)
    BY <2>2, <2>3, <2>5, <2>6, <2>7 DEF OldUnlinked
  <2> QED
    BY <1>3, <2>1, <2>2, <2>6, <2>7, <2>8 DEF DeviceEffect
<1> QED
  BY <1>4, <1>5, <1>6

\* A step that is about one-time keys or changes of keys.
LEMMA SideStep ==
  ASSUME BaseInv, NEW t \in Tasks, Todo(t) # <<>>, Rest, NEW k2, Shifted(task[t], k2),
         task' = [task EXCEPT ![t] = k2], k2.old = task[t].old,
         Now(t)[1] \notin {"assert", "old", "cut", "unlink", "set"},
         DOMAIN db' = Trees, \A T \in Trees : DOMAIN db'[T] = DOMAIN db[T],
         Kept({"metadata", "device", "token"}), OneTimeEffect(task[t], k2),
         \/ Counted(task[t], k2) \/ Noted(task[t], k2)
         \/ KeyWritten(task[t], k2) \/ NoChange(task[t], k2)
  PROVE  Effect(t)
<1> DEFINE k == task[t]
<1>1. k.todo # <<>> /\ Now(t) = RowNow(k)
  BY Here
<1>2. /\ Moves(k, k2, tokens)
      /\ Onward(k, k2) \/ (Leaves(k, k2, tokens) /\ k.at = Len(RowsOf(Head(k.todo))))
      /\ k.at # Len(RowsOf(Head(k.todo))) => Onward(k, k2)
  BY ShiftedMoves
<1>3. Aside(k)
  BY <1>1, AsideRow
<1>4. DeviceEffect(k, k2)
  BY <1>2, <1>3, MiddleRow DEF DeviceEffect, Untouched
<1>5. ChangeEffect(k, k2)
  BY <1>2 DEF ChangeEffect
<1>6. \A tree \in {"metadata", "token", "onetimekeys", "device"} : DOMAIN db'[tree] = DOMAIN db[tree]
  BY DEF Trees
<1> QED
  BY <1>2, <1>4, <1>5, <1>6, Parts DEF Rest

\* A number is taken or a change announced.
LEMMA CountEffect ==
  ASSUME BaseInv, NEW t \in Tasks, Todo(t) # <<>>, Rest, NextCount(t) \/ InsertChange(t)
  PROVE  Effect(t)
<1> DEFINE k == task[t]
           r == Now(t)
<1>1. r[1] \in {"count", "mark"} /\ UNCHANGED <<db, given>>
  BY DEF NextCount, InsertChange, Is
<1>2. r = RowNow(k)
  BY Here
<1>3. /\ DOMAIN db' = Trees /\ \A T \in Trees : DOMAIN db'[T] = DOMAIN db[T]
      /\ Kept({"metadata", "device", "token"}) /\ Kept({"onetimekeys"})
  BY <1>1 DEF BaseInv, Kept
<1>4. CASE NextCount(t)
  <2> DEFINE k2 == [Moved(t) EXCEPT !.n = counter + 1]
  <2>1. /\ r[1] = "count" /\ task' = [task EXCEPT ![t] = k2]
        /\ counter' = counter + 1 /\ UNCHANGED <<changes, fresh>>
    BY <1>4 DEF NextCount, Is
  <2>2. Shifted(k, k2) /\ k2.old = k.old /\ k2.n = counter + 1 /\ k2.key = k.key
    BY MovedShifts, Zenon
  <2> HIDE DEF k2
  <2>3. Counted(k, k2)
    BY <1>2, <2>1, <2>2 DEF Counted
  <2>4. OneTimeEffect(k, k2)
    BY <1>1, <1>2, <1>3, <2>2, NoKeyRow
  <2> QED
    BY <1>1, <1>3, <2>1, <2>2, <2>3, <2>4, SideStep
<1>5. CASE InsertChange(t)
  <2> DEFINE k2 == Moved(t)
  <2>1. /\ r[1] = "mark" /\ task' = [task EXCEPT ![t] = k2]
        /\ changes' = changes \cup {<<r[2], k.n, r[3]>>} /\ UNCHANGED <<counter, fresh>>
    BY <1>5 DEF InsertChange, Is, Advance
  <2>2. Shifted(k, k2) /\ k2.old = k.old /\ k2.n = k.n /\ k2.key = k.key
    BY MovedShifts, Zenon
  <2> HIDE DEF k2
  <2>3. Noted(k, k2)
    BY <1>2, <2>1, <2>2 DEF Noted
  <2>4. OneTimeEffect(k, k2)
    BY <1>1, <1>2, <1>3, <2>2, NoKeyRow
  <2> QED
    BY <1>1, <1>3, <2>1, <2>2, <2>3, <2>4, SideStep
<1> QED
  BY <1>4, <1>5

\* A key or a signature is written.
LEMMA KeyEffect ==
  ASSUME BaseInv, NEW t \in Tasks, Todo(t) # <<>>, Rest, InsertKey(t) \/ WriteSignature(t)
  PROVE  Effect(t)
<1> DEFINE k == task[t]
           r == Now(t)
<1>1. /\ r[1] \in {"key", "sign"} /\ UNCHANGED <<given, counter, changes>>
      /\ fresh' = [fresh EXCEPT ![r[2][1]] = counter]
  BY DEF InsertKey, WriteSignature, Is
<1>2. r = RowNow(k) /\ DOMAIN db = Trees
  BY Here DEF BaseInv
<1>3. PICK key, value : Put("keys", key, value)
  BY Zenon DEF InsertKey, WriteSignature
<1>4. /\ DOMAIN db' = Trees /\ \A T \in Trees : DOMAIN db'[T] = DOMAIN db[T]
      /\ \A T \in Trees : T # "keys" => db'[T] = db[T]
  BY <1>2, <1>3, PutRow
<1>5. Kept({"metadata", "device", "token"}) /\ Kept({"onetimekeys"})
  BY <1>4 DEF Kept, Trees
<1>6. PICK k2 : /\ task' = [task EXCEPT ![t] = k2] /\ Shifted(k, k2)
                /\ k2.old = k.old /\ k2.n = k.n /\ k2.key = k.key
  <2>1. CASE InsertKey(t)
    <3>1. task' = [task EXCEPT ![t] = Moved(t)]
      BY <2>1 DEF InsertKey, Advance
    <3> QED
      BY <3>1, MovedShifts, Zenon
  <2>2. CASE WriteSignature(t)
    <3> DEFINE m == [Moved(t) EXCEPT !.sigs = {}]
    <3>1. task' = [task EXCEPT ![t] = m]
      BY <2>2 DEF WriteSignature
    <3>2. Shifted(k, m) /\ m.old = k.old /\ m.n = k.n /\ m.key = k.key
      BY MovedShifts, Zenon
    <3> HIDE DEF m
    <3> QED
      BY <3>1, <3>2, Zenon
  <2> QED
    BY <2>1, <2>2
<1>7. KeyWritten(k, k2)
  BY <1>1, <1>2, <1>6 DEF KeyWritten
<1>8. OneTimeEffect(k, k2)
  BY <1>1, <1>2, <1>5, <1>6, NoKeyRow
<1> QED
  BY <1>1, <1>4, <1>5, <1>6, <1>7, <1>8, SideStep

\* One-time keys are added, found and taken.
LEMMA OneTimeKeyEffect ==
  ASSUME BaseInv, NEW t \in Tasks, Todo(t) # <<>>, Rest,
         InsertOneTimeKey(t) \/ ScanOneTimeKeys(t) \/ RemoveOneTimeKey(t)
  PROVE  Effect(t)
<1> DEFINE k == task[t]
           c == Head(k.todo)
           r == Now(t)
<1>1. r[1] \in {"addkey", "scankey", "takekey"} /\ UNCHANGED <<counter, changes, fresh>>
  BY DEF InsertOneTimeKey, ScanOneTimeKeys, RemoveOneTimeKey, Is
<1>2. r = RowNow(k) /\ DOMAIN db = Trees /\ k.todo # <<>> /\ Placed(c, k.at, r)
  BY Here DEF BaseInv
<1>3. ASSUME NEW k2, Shifted(k, k2), task' = [task EXCEPT ![t] = k2], k2.old = k.old, k2.n = k.n,
             OneTimeEffect(k, k2), DOMAIN db' = Trees, \A T \in Trees : DOMAIN db'[T] = DOMAIN db[T],
             \A T \in Trees : T # "onetimekeys" => db'[T] = db[T]
      PROVE  Effect(t)
  <2>1. Kept({"metadata", "device", "token"})
    BY <1>3 DEF Kept, Trees
  <2>2. NoChange(k, k2)
    BY <1>1, <1>2, <1>3 DEF NoChange
  <2> QED
    BY <1>1, <1>3, <2>1, <2>2, SideStep
<1>4. "onetimekeys" \in Trees
  BY DEF Trees
<1>5. CASE InsertOneTimeKey(t)
  <2> DEFINE k2 == Moved(t)
             v == db["onetimekeys"][r[2]] \cup {r[3]}
  <2>1. /\ r[1] = "addkey" /\ task' = [task EXCEPT ![t] = k2] /\ Put("onetimekeys", r[2], v)
        /\ given' = [given EXCEPT ![r[2]][r[3]] = 0]
    BY <1>5 DEF InsertOneTimeKey, Is, Advance
  <2>2. Shifted(k, k2) /\ k2.old = k.old /\ k2.n = k.n /\ k2.key = k.key
    BY MovedShifts, Zenon
  <2>3. In(k, "add_one_time_key", 2)
    BY <1>2, <2>1 DEF Placed, In
  <2>4. r = <<"addkey", Of(k), Head(k.todo)[3]>>
    BY <1>2, <2>3, AddKeyRows DEF In, CallRow, RowNow, Of
  <2>5. r[2] = Of(k) /\ r[3] = Head(k.todo)[3]
    BY <2>4
  <2> HIDE DEF k2, v, r
  <2>6. /\ DOMAIN db' = Trees /\ \A T \in Trees : DOMAIN db'[T] = DOMAIN db[T]
        /\ \A T \in Trees : T # "onetimekeys" => db'[T] = db[T]
        /\ db'["onetimekeys"] = [db["onetimekeys"] EXCEPT ![r[2]] = v]
    <3>1. DOMAIN db' = Trees /\ \A T \in Trees : T # "onetimekeys" => db'[T] = db[T]
      BY <1>2, <2>1 DEF Put
    <3>2. db'["onetimekeys"] = [db["onetimekeys"] EXCEPT ![r[2]] = v]
      BY <1>2, <1>4, <2>1 DEF Put
    <3> QED
      BY <3>1, <3>2
  <2>7. KeyAdded(k, k2)
    BY <2>1, <2>2, <2>3, <2>5, <2>6 DEF KeyAdded, v
  <2> QED
    BY <1>3, <2>1, <2>2, <2>6, <2>7 DEF OneTimeEffect
<1>6. CASE ScanOneTimeKeys(t)
  <2> DEFINE ks == db["onetimekeys"][r[2]]
             v == IF ks = {} THEN None ELSE CHOOSE x \in ks : \A j \in ks : x <= j
             k2 == [Moved(t) EXCEPT !.key = v]
  <2>1. r[1] = "scankey" /\ task' = [task EXCEPT ![t] = k2] /\ UNCHANGED <<db, given>>
    BY <1>6 DEF ScanOneTimeKeys, Is
  <2> HIDE DEF v
  <2>2. Shifted(k, k2) /\ k2.old = k.old /\ k2.n = k.n /\ k2.key = v
    BY MovedShifts, Zenon
  <2>3. In(k, "take_one_time_key", 3)
    BY <1>2, <2>1 DEF Placed, In
  <2>4. r = <<"scankey", Of(k)>> /\ k.at # Len(RowsOf(Head(k.todo)))
    BY <1>2, <2>3, TakeKeyRows DEF In, CallRow, RowNow, Of
  <2>5. r[2] = Of(k)
    BY <2>4
  <2> HIDE DEF k2, r
  <2>6. Onward(k, k2)
    BY <2>2, <2>4, ShiftedMoves
  <2>7. Kept({"onetimekeys"})
    BY <2>1 DEF Kept
  <2>8. KeyFound(k, k2)
    BY <2>1, <2>2, <2>3, <2>5, <2>6, <2>7 DEF KeyFound, v
  <2> QED
    BY <1>2, <1>3, <2>1, <2>2, <2>8 DEF OneTimeEffect
<1>7. CASE RemoveOneTimeKey(t)
  <2> DEFINE k2 == [Moved(t) EXCEPT !.key = None]
             v == db["onetimekeys"][r[2]] \ {k.key}
  <2>1. /\ r[1] = "takekey" /\ task' = [task EXCEPT ![t] = k2]
        /\ IF k.key = None THEN UNCHANGED <<db, given>>
           ELSE /\ Put("onetimekeys", r[2], v)
                /\ given' = [given EXCEPT ![r[2]][k.key] = given[r[2]][k.key] + 1]
    BY <1>7 DEF RemoveOneTimeKey, Is
  <2>2. Shifted(k, k2) /\ k2.old = k.old /\ k2.n = k.n /\ k2.key = None
    BY MovedShifts, Zenon
  <2>3. In(k, "take_one_time_key", 4)
    BY <1>2, <2>1 DEF Placed, In
  <2>4. r = <<"takekey", Of(k)>>
    BY <1>2, <2>3, TakeKeyRows DEF In, CallRow, RowNow, Of
  <2>5. r[2] = Of(k)
    BY <2>4
  <2> HIDE DEF k2, v, r
  <2>6. CASE k.key = None
    <3>1. Kept({"onetimekeys"}) /\ UNCHANGED <<db, given>>
      BY <2>1, <2>6 DEF Kept
    <3>2. KeyTaken(k, k2)
      BY <2>2, <2>3, <2>6, <3>1 DEF KeyTaken
    <3> QED
      BY <1>2, <1>3, <2>1, <2>2, <3>1, <3>2 DEF OneTimeEffect
  <2>7. CASE k.key # None
    <3>1. Put("onetimekeys", r[2], v)
      BY <2>1, <2>7
    <3>2. /\ DOMAIN db' = Trees /\ \A T \in Trees : DOMAIN db'[T] = DOMAIN db[T]
          /\ \A T \in Trees : T # "onetimekeys" => db'[T] = db[T]
          /\ db'["onetimekeys"] = [db["onetimekeys"] EXCEPT ![r[2]] = v]
      <4>1. DOMAIN db' = Trees /\ \A T \in Trees : T # "onetimekeys" => db'[T] = db[T]
        BY <1>2, <3>1 DEF Put
      <4>2. db'["onetimekeys"] = [db["onetimekeys"] EXCEPT ![r[2]] = v]
        BY <1>2, <1>4, <3>1 DEF Put
      <4> QED
        BY <4>1, <4>2
    <3>3. KeyTaken(k, k2)
      BY <2>1, <2>2, <2>3, <2>5, <2>7, <3>2 DEF KeyTaken, v
    <3> QED
      BY <1>3, <2>1, <2>2, <3>2, <3>3 DEF OneTimeEffect
  <2> QED
    BY <2>6, <2>7
<1> QED
  BY <1>5, <1>6, <1>7

\* What a step of a request does.
LEMMA StepEffect ==
  ASSUME BaseInv, NEW t \in Tasks, Step(t)
  PROVE  Effect(t)
<1>1. Todo(t) # <<>> /\ Rest
  BY DEF Step, Rest
<1> QED
  BY <1>1, WriteEffect, BumpEffect, CheckEffect, OldEffect, LoopEffect, ReadEffect, CountEffect,
     OneTimeKeyEffect, KeyEffect, Zenon DEF Step, Row

-----------------------------------------------------------------------------
(* The invariants. *)

\* The token of a call is in no other request, and in no row before its device
\* has it.
FreshInv ==
  \A t \in Tasks : \A y \in TokensOf(task[t].todo) :
    /\ \A s \in Tasks \ {t} : y \notin TokensOf(task[s].todo)
    /\ \/ InToken(task[t], 5)
       \/ /\ \A ud \in UserDevices : db["token"][ud] # y
          /\ \A s \in Tasks : task[s].old # y

\* A token is of one device, and what a request is about to remove is of its
\* own device.
OwnInv ==
  /\ \A a, b \in UserDevices : db["token"][a] # None /\ db["token"][a] = db["token"][b] => a = b
  /\ \A t \in Tasks :
       /\ task[t].old # None => \/ InToken(task[t], 3) \/ In(task[t], "remove_device", 2)
                                \/ In(task[t], "remove_device", 3)
       /\ \A ud \in UserDevices :
            /\ InToken(task[t], 5) /\ db["token"][ud] = TokenOf(task[t]) => ud = Of(task[t])
            /\ task[t].old # None /\ db["token"][ud] = task[t].old
                 => ud = Of(task[t]) /\ ~In(task[t], "remove_device", 3)

\* The token of a device works, is about to be replaced, or is about to work.
WorksInv ==
  \A ud \in UserDevices :
    ud[1] \notin torn /\ db["token"][ud] # None =>
      \/ db["device"][db["token"][ud]] = ud
      \/ \E t \in Tasks : InToken(task[t], 4) /\ Of(task[t]) = ud
      \/ \E t \in Tasks :
           InToken(task[t], 5) /\ Of(task[t]) = ud /\ TokenOf(task[t]) = db["token"][ud]

\* create_device has written the metadata, set_token has not yet asserted it.
Created(k) == In(k, "create_device", 4)

\* A call on a device is halfway, when its rows need not agree; or it has made
\* sure that the device is there.
Halfway(k) ==
  \/ Created(k) \/ \E i \in 2..5 : InToken(k, i)
  \/ \E i \in 2..6 : In(k, "remove_device", i)
Updating(k) == In(k, "update_device", 2) \/ In(k, "update_device", 3)

\* The metadata of a device, its token, and the tokens that lead to it.
Agrees(meta, tok, own) == (meta # None <=> tok # None) /\ own \subseteq {tok}
Fits(k, meta, tok, own) ==
  /\ Created(k) \/ (\E i \in 2..5 : InToken(k, i)) \/ Updating(k) => meta # None
  /\ Created(k) \/ InToken(k, 2) => own \subseteq {tok}
  /\ InToken(k, 3) \/ In(k, "remove_device", 3) => own \subseteq {k.old}
  /\ InToken(k, 4) \/ InToken(k, 5) => own = {}
  /\ InToken(k, 5) => tok = TokenOf(k)
  /\ In(k, "remove_device", 2) => own \subseteq {k.old} /\ tok = k.old
  /\ \A i \in 3..6 : In(k, "remove_device", i) => tok = None
  /\ \A i \in 4..6 : In(k, "remove_device", i) => own = {}
  /\ ~Halfway(k) => Agrees(meta, tok, own)

\* Unless requests overlap on it, the rows of a device agree, or fit the call
\* that is about it.
Own(ud) == {x \in Tokens : db["device"][x] = ud}
Agree(ud) == Agrees(db["metadata"][ud], db["token"][ud], Own(ud))
FitsTask(t, ud) == Fits(task[t], db["metadata"][ud], db["token"][ud], Own(ud))
AgreeFor(ud) ==
  /\ (\A t \in Tasks : Halfway(task[t]) => Of(task[t]) # ud) => Agree(ud)
  /\ \A t \in Tasks : (Halfway(task[t]) \/ Updating(task[t])) /\ Of(task[t]) = ud => FitsTask(t, ud)
AgreeInv == \A ud \in UserDevices \ mixed : ud[1] \notin torn => AgreeFor(ud)

\* A one-time key that is there was not handed out; a request holds one that is there.
OneTimeInv ==
  /\ \A ud \in UserDevices : db["onetimekeys"][ud] \subseteq OneTimeKeys
  /\ DOMAIN given = UserDevices /\ \A ud \in UserDevices : DOMAIN given[ud] = OneTimeKeys
  /\ \A t \in Tasks : task[t].key # None =>
       /\ In(task[t], "take_one_time_key", 4)
       /\ task[t].key \in OneTimeKeys
       /\ Of(task[t]) \notin mixed => task[t].key \in db["onetimekeys"][Of(task[t])]
  /\ \A ud \in UserDevices \ mixed : \A x \in OneTimeKeys :
       given[ud][x] \in 0..1 /\ (x \in db["onetimekeys"][ud] => given[ud][x] = 0)

\* A change of u after `from' is announced to `target' already, or will be: the
\* row is ahead in the call, nothing before it can fail, and its number is
\* later or not taken yet.
Announced(told, target, u, from) == \E x \in told : x[1] = target /\ x[3] = u /\ from < x[2]
Ahead(rows, i, n, target, u, from) ==
  \E j \in i..Len(rows) :
    /\ rows[j] = <<"mark", target, u>>
    /\ \A l \in i..j : rows[l][1] \in {"key", "sign", "set", "count", "mark"}
    /\ from < n \/ \E l \in i..j : rows[l][1] = "count"
ToAnnounce(k, target, u, from) ==
  k.todo # <<>> /\ u \in k.users /\ Ahead(RowsOf(Head(k.todo)), k.at, k.n, target, u, from)

NumbersInv ==
  /\ counter \in Nat
  /\ \A x \in changes : x[2] \in Nat /\ x[2] <= counter
  /\ \A t \in Tasks : task[t].n \in Nat /\ task[t].n <= counter
  /\ DOMAIN fresh = Users \cup Remote
  /\ \A u \in Users \cup Remote : fresh[u] \in Nat \cup {None} /\ (fresh[u] # None => fresh[u] <= counter)
Targets(u) == {u} \cup (IF u \in InRoom THEN {Room} ELSE {})
AnnounceInv ==
  \A u \in (Users \cup Remote) \ torn : fresh[u] # None =>
    \A target \in Targets(u) :
      \/ Announced(changes, target, u, fresh[u])
      \/ \E t \in Tasks : ToAnnounce(task[t], target, u, fresh[u])

IInv ==
  /\ BaseInv /\ FreshInv /\ OwnInv /\ WorksInv /\ AgreeInv /\ OneTimeInv
  /\ NumbersInv /\ AnnounceInv

-----------------------------------------------------------------------------
(* A step keeps the types and the owners. *)

\* The device of a call is one of the request, and its token was made.
LEMMA DeviceOf ==
  ASSUME NEW k, NEW made, TaskOK(k, made), k.todo # <<>>
  PROVE  /\ Head(k.todo)[1] \in {"set_token", "create_device", "remove_device", "update_device",
                                "add_one_time_key", "take_one_time_key"} =>
              Of(k) \in k.devices /\ Of(k) \in UserDevices /\ Of(k)[1] \in k.users
         /\ Tok(Head(k.todo)) => TokenOf(k) \in 1..made /\ TokensOf(k.todo) = {TokenOf(k)}
<1> DEFINE c == Head(k.todo)
           p == k.todo
<1>1. CallOK(c, k.users, k.devices, made)
  BY TailOK DEF TaskOK
<1>2. c[1] \in {"set_token", "create_device", "remove_device", "update_device",
                "add_one_time_key", "take_one_time_key"} => c[2] \in k.devices
  BY <1>1 DEF CallOK, Tok
<1>3. Tok(c) => c[3] \in 1..made
  BY <1>1 DEF CallOK
<1>4. IsSeq(p) /\ OneTok(p)
  BY DEF TaskOK, TodoOK
<1>5. Len(p) \in Nat /\ Len(p) >= 1 /\ c = p[1]
  BY <1>4, SeqTail, SeqLen
<1> HIDE DEF c, p
<1>6. 1 \in 1..Len(p)
  BY <1>5
<1>7. Tok(c) => TokensOf(p) = {c[3]}
  BY <1>4, <1>5, <1>6 DEF TokensOf, OneTok
<1> QED
  BY <1>2, <1>3, <1>7 DEF Of, TokenOf, TaskOK, c, p

\* At the rows of set_token.
LEMMA TokenPlace ==
  ASSUME NEW k, NEW made, TaskOK(k, made), NEW i \in 1..5, InToken(k, i)
  PROVE  /\ Of(k) \in k.devices /\ Of(k) \in UserDevices /\ Of(k)[1] \in k.users
         /\ TokenOf(k) \in 1..made /\ TokensOf(k.todo) = {TokenOf(k)}
  BY DeviceOf DEF InToken, TokenRow, Tok

\* At the rows of another call on a device.
LEMMA DevicePlace ==
  ASSUME NEW k, NEW made, TaskOK(k, made), NEW i,
         NEW kind \in {"create_device", "remove_device", "update_device", "add_one_time_key",
                       "take_one_time_key"},
         In(k, kind, i)
  PROVE  Of(k) \in k.devices /\ Of(k) \in UserDevices /\ Of(k)[1] \in k.users
  BY DeviceOf DEF In, CallRow

\* The next row.
LEMMA NextRow ==
  ASSUME NEW k, NEW k2, Onward(k, k2), NEW made, TaskOK(k, made), k.todo # <<>>
  PROVE  /\ \A i \in 1..4 : InToken(k, i) => InToken(k2, i + 1)
         /\ \A i \in 2..5 : InToken(k2, i) => InToken(k, i - 1)
         /\ \A i \in Nat, kind \in STRING : In(k, kind, i) => In(k2, kind, i + 1)
         /\ \A i \in Nat, kind \in STRING : In(k2, kind, i) => In(k, kind, i - 1)
         /\ InToken(k2, 1) => In(k, "create_device", 3)
         /\ Of(k2) = Of(k) /\ TokenOf(k2) = TokenOf(k)
         /\ TokensOf(k2.todo) = TokensOf(k.todo)
         /\ k2.at > 1
<1>1. k2.todo = k.todo /\ k2.at = k.at + 1 /\ k.at \in Nat /\ k.at >= 1
  <2>1. Len(RowsOf(Head(k.todo))) \in Nat
    BY TailOK, RowsThere DEF TaskOK
  <2> QED
    BY <2>1 DEF Onward, TaskOK
<1>2. /\ \A i \in 1..4 : InToken(k, i) => InToken(k2, i + 1)
      /\ \A i \in 2..5 : InToken(k2, i) => InToken(k, i - 1)
  BY <1>1 DEF InToken, TokenRow
<1>3. /\ \A i \in Nat, kind \in STRING : In(k, kind, i) => In(k2, kind, i + 1)
      /\ \A i \in Nat, kind \in STRING : In(k2, kind, i) => In(k, kind, i - 1)
  BY <1>1 DEF In, CallRow
<1>4. InToken(k2, 1) => In(k, "create_device", 3)
  BY <1>1 DEF InToken, TokenRow, In, CallRow
<1>5. Of(k2) = Of(k) /\ TokenOf(k2) = TokenOf(k) /\ TokensOf(k2.todo) = TokensOf(k.todo) /\ k2.at > 1
  BY <1>1 DEF Of, TokenOf
<1> QED
  BY <1>2, <1>3, <1>4, <1>5

\* The start of a call is none of the rows in its middle.
LEMMA StartRow ==
  ASSUME NEW k, k.at = 1
  PROVE  /\ \A i \in 2..5 : ~InToken(k, i)
         /\ \A i \in 2..6, kind \in STRING : ~In(k, kind, i)
         /\ ~Halfway(k) /\ ~Updating(k)
<1>1. \A i \in 2..5 : ~InToken(k, i)
  BY DEF InToken, TokenRow
<1>2. \A i \in 2..6, kind \in STRING : ~In(k, kind, i)
  BY DEF In, CallRow
<1>3. ~Halfway(k) /\ ~Updating(k)
  BY DEF Halfway, Updating, Created, In, CallRow, InToken, TokenRow
<1> QED
  BY <1>1, <1>2, <1>3

\* A step keeps the types.
LEMMA EffectBase ==
  ASSUME BaseInv, NEW t \in Tasks, Effect(t)
  PROVE  BaseInv'
<1> DEFINE k == task[t]
           k2 == task'[t]
<1>1. TaskOK(k, tokens) /\ k.todo # <<>> /\ Moves(k, k2, tokens) /\ UNCHANGED <<tokens, mixed>>
  BY DEF BaseInv, Effect
<1>2. DeviceEffect(k, k2)
  BY DEF Effect
<1> HIDE DEF k, k2
<1>3. \A ud \in UserDevices : db["token"][ud] \in (1..tokens) \cup {None}
  BY DEF BaseInv
<1>4. k2.old \in (1..tokens) \cup {None}
  <2>1. CASE OldRead(k, k2)
    <3>1. Of(k) \in UserDevices
      BY <1>1, <2>1, TokenPlace, DevicePlace DEF OldRead
    <3> QED
      BY <1>3, <2>1, <3>1 DEF OldRead
  <2>2. CASE ~OldRead(k, k2)
    <3>1. k2.old = k.old \/ k2.old = None
      BY <1>2, <2>2 DEF DeviceEffect, TokenWritten, DeviceWritten, MetaWritten, OldUnlinked, OldCut,
         Asserted, Untouched
    <3> QED
      BY <1>1, <3>1 DEF TaskOK
  <2> QED
    BY <2>1, <2>2
<1>5. TaskOK(k2, tokens)
  BY <1>1, <1>4, MovesOK
<1>6. \A s \in Tasks : TaskOK(task'[s], tokens')
  BY <1>1, <1>5 DEF BaseInv, Effect, k2
<1>7. \A ud \in UserDevices : db'["token"][ud] \in (1..tokens') \cup {None}
  <2>1. CASE TokenWritten(k, k2)
    <3>1. TokenOf(k) \in 1..tokens
      BY <1>1, <2>1, TokenPlace DEF TokenWritten
    <3>2. DOMAIN db["token"] = UserDevices
      BY DEF BaseInv
    <3> QED
      BY <1>1, <1>3, <2>1, <3>1, <3>2 DEF TokenWritten
  <2>2. CASE OldUnlinked(k, k2)
    <3>2. DOMAIN db["token"] = UserDevices
      BY DEF BaseInv
    <3> QED
      BY <1>1, <1>3, <2>2, <3>2 DEF OldUnlinked
  <2>3. CASE ~TokenWritten(k, k2) /\ ~OldUnlinked(k, k2)
    <3>1. db'["token"] = db["token"]
      BY <1>2, <2>3 DEF DeviceEffect, DeviceWritten, MetaWritten, OldRead, OldCut, Asserted, Untouched, Kept
    <3> QED
      BY <1>1, <1>3, <3>1
  <2> QED
    BY <2>1, <2>2, <2>3
<1>8. \A x \in Tokens : db'["device"][x] \in UserDevices \cup {None}
  <2>1. DOMAIN db["device"] = Tokens /\ \A x \in Tokens : db["device"][x] \in UserDevices \cup {None}
    BY DEF BaseInv
  <2>2. CASE DeviceWritten(k, k2)
    <3>1. Of(k) \in UserDevices
      BY <1>1, <2>2, TokenPlace DEF DeviceWritten
    <3> QED
      BY <2>1, <2>2, <3>1 DEF DeviceWritten
  <2>3. CASE OldCut(k, k2)
    BY <2>1, <2>3 DEF OldCut
  <2>4. CASE ~DeviceWritten(k, k2) /\ ~OldCut(k, k2)
    <3>1. db'["device"] = db["device"]
      BY <1>2, <2>4 DEF DeviceEffect, TokenWritten, OldUnlinked, MetaWritten, OldRead, Asserted, Untouched, Kept
    <3> QED
      BY <2>1, <3>1
  <2> QED
    BY <2>2, <2>3, <2>4
<1>9. \A s, r \in Tasks : s # r => task'[s].devices \cap task'[r].devices \subseteq mixed'
  <2>1. \A s \in Tasks : task'[s].devices = task[s].devices
    BY <1>1 DEF Effect, Moves, Same, k, k2
  <2> QED
    BY <1>1, <2>1 DEF BaseInv
<1>10. /\ DOMAIN db' = Trees
       /\ \A tree \in {"metadata", "token", "onetimekeys"} : DOMAIN db'[tree] = UserDevices
       /\ DOMAIN db'["device"] = Tokens
       /\ DOMAIN task' = Tasks
       /\ tokens' \in Nat /\ tokens' <= MaxOps + Cardinality(Registered)
  BY <1>1 DEF BaseInv, Effect
<1> QED
  BY <1>6, <1>7, <1>8, <1>9, <1>10 DEF BaseInv

\* The tokens of the requests after a step.
LEMMA EffectTokens ==
  ASSUME BaseInv, NEW t \in Tasks, Effect(t)
  PROVE  /\ \A s \in Tasks : TokensOf(task'[s].todo) \subseteq TokensOf(task[s].todo)
         /\ InToken(task[t], 5) => TokensOf(task'[t].todo) = {}
<1> DEFINE k == task[t]
           k2 == task'[t]
<1>1. TaskOK(k, tokens) /\ k.todo # <<>> /\ Moves(k, k2, tokens)
  BY DEF BaseInv, Effect
<1>2. \A s \in Tasks \ {t} : task'[s] = task[s]
  BY DEF Effect
<1>3. TokensOf(k2.todo) \subseteq TokensOf(k.todo)
  BY <1>1 DEF Moves, Onward, Leaves
<1>4. InToken(k, 5) => TokensOf(k2.todo) = {}
  <2> SUFFICES ASSUME InToken(k, 5) PROVE TokensOf(k2.todo) = {}
    OBVIOUS
  <2>1. k.at = Len(RowsOf(Head(k.todo))) /\ Tok(Head(k.todo))
    BY TokenRows DEF InToken, TokenRow, Tok
  <2>2. Len(RowsOf(Head(k.todo))) \in Nat
    BY <1>1, TailOK, RowsThere DEF TaskOK
  <2>3. ~Onward(k, k2)
    BY <2>1, <2>2 DEF Onward
  <2> QED
    BY <1>1, <2>1, <2>3 DEF Moves, Leaves
<1> QED
  BY <1>2, <1>3, <1>4

\* A step on tokens happens at one of its rows; the rows exclude each other.
LEMMA EffectPlaces ==
  ASSUME NEW k, NEW k2, DeviceEffect(k, k2)
  PROVE  /\ InToken(k, 2) => OldRead(k, k2)
         /\ InToken(k, 3) => OldCut(k, k2)
         /\ InToken(k, 4) => TokenWritten(k, k2)
         /\ InToken(k, 5) => DeviceWritten(k, k2)
         /\ In(k, "remove_device", 2) => OldUnlinked(k, k2)
         /\ In(k, "remove_device", 3) => OldCut(k, k2)
<1> USE DEF DeviceEffect, TokenWritten, DeviceWritten, MetaWritten, OldRead, OldUnlinked, OldCut,
            Asserted, Untouched, Aside, InToken, TokenRow, In, CallRow, MetaRow
<1>1. InToken(k, 2) => OldRead(k, k2)
  OBVIOUS
<1>2. InToken(k, 3) => OldCut(k, k2)
  OBVIOUS
<1>3. InToken(k, 4) => TokenWritten(k, k2)
  OBVIOUS
<1>4. InToken(k, 5) => DeviceWritten(k, k2)
  OBVIOUS
<1>5. In(k, "remove_device", 2) => OldUnlinked(k, k2)
  OBVIOUS
<1>6. In(k, "remove_device", 3) => OldCut(k, k2)
  OBVIOUS
<1> HIDE DEF DeviceEffect, TokenWritten, DeviceWritten, MetaWritten, OldRead, OldUnlinked, OldCut,
            Asserted, Untouched, Aside, InToken, TokenRow, In, CallRow, MetaRow
<1> QED
  BY <1>1, <1>2, <1>3, <1>4, <1>5, <1>6

\* What a step does to the row of a device's token.
LEMMA EffectToken ==
  ASSUME BaseInv, NEW t \in Tasks, Effect(t), NEW ud \in UserDevices
  PROVE  /\ db'["token"][ud] # db["token"][ud] =>
              /\ Of(task[t]) = ud
              /\ \/ InToken(task[t], 4) /\ db'["token"][ud] = TokenOf(task[t])
                 \/ /\ In(task[t], "remove_device", 2) /\ task[t].old # None
                    /\ db'["token"][ud] = None
         /\ InToken(task[t], 4) /\ Of(task[t]) = ud => db'["token"][ud] = TokenOf(task[t])
         /\ In(task[t], "remove_device", 2) /\ Of(task[t]) = ud /\ task[t].old # None =>
              db'["token"][ud] = None
<1> DEFINE k == task[t]
           k2 == task'[t]
<1>1. DeviceEffect(k, k2) /\ DOMAIN db["token"] = UserDevices
  BY DEF Effect, BaseInv
<1> HIDE DEF k, k2
<1>2. CASE TokenWritten(k, k2)
  <2>1. InToken(k, 4) /\ db'["token"] = [db["token"] EXCEPT ![Of(k)] = TokenOf(k)]
    BY <1>2 DEF TokenWritten
  <2>2. ~In(k, "remove_device", 2)
    BY <2>1 DEF InToken, TokenRow, In, CallRow
  <2> QED
    BY <1>1, <2>1, <2>2 DEF k
<1>3. CASE OldUnlinked(k, k2)
  <2>1. /\ In(k, "remove_device", 2)
        /\ db'["token"] = IF k.old = None THEN db["token"] ELSE [db["token"] EXCEPT ![Of(k)] = None]
    BY <1>3 DEF OldUnlinked
  <2>2. ~InToken(k, 4)
    BY <2>1 DEF InToken, TokenRow, In, CallRow
  <2> QED
    BY <1>1, <2>1, <2>2 DEF k
<1>4. CASE ~TokenWritten(k, k2) /\ ~OldUnlinked(k, k2)
  <2>1. db'["token"] = db["token"]
    BY <1>1, <1>4 DEF DeviceEffect, DeviceWritten, MetaWritten, OldRead, OldCut, Asserted, Untouched, Kept
  <2>2. ~InToken(k, 4) /\ ~In(k, "remove_device", 2)
    BY <1>1, <1>4, EffectPlaces
  <2> QED
    BY <2>1, <2>2 DEF k
<1> QED
  BY <1>2, <1>3, <1>4

\* What a step does to the token that a request is about to remove.
LEMMA EffectOld ==
  ASSUME BaseInv, OwnInv, NEW t \in Tasks, Effect(t)
  PROVE  LET k == task[t]
             k2 == task'[t]
         IN  \/ k2.old = None
             \/ /\ InToken(k2, 3) \/ In(k2, "remove_device", 2)
                /\ Of(k2) = Of(k) /\ Of(k) \in UserDevices /\ k2.old = db["token"][Of(k)]
                /\ db'["token"] = db["token"]
             \/ /\ In(k, "remove_device", 2) /\ In(k2, "remove_device", 3)
                /\ Of(k2) = Of(k) /\ Of(k) \in UserDevices /\ k2.old = k.old
<1> DEFINE k == task[t]
           k2 == task'[t]
<1>1. TaskOK(k, tokens) /\ k.todo # <<>> /\ DeviceEffect(k, k2)
  BY DEF Effect, BaseInv
<1>2. k.old # None => InToken(k, 3) \/ In(k, "remove_device", 2) \/ In(k, "remove_device", 3)
  BY DEF OwnInv
<1> HIDE DEF k, k2
<1>3. CASE OldRead(k, k2)
  <2>1. /\ InToken(k, 2) \/ In(k, "remove_device", 1)
        /\ Onward(k, k2) /\ k2.old = db["token"][Of(k)] /\ db'["token"] = db["token"]
    BY <1>3 DEF OldRead, Kept
  <2>2. Of(k) \in UserDevices
    BY <1>1, <2>1, TokenPlace, DevicePlace
  <2>3. InToken(k2, 3) \/ In(k2, "remove_device", 2)
    BY <2>1 DEF Onward, InToken, TokenRow, In, CallRow
  <2>4. Of(k2) = Of(k)
    BY <2>1 DEF Onward, Of
  <2> QED
    BY <2>1, <2>2, <2>3, <2>4 DEF k, k2
<1>4. CASE OldUnlinked(k, k2)
  <2>1. In(k, "remove_device", 2) /\ Onward(k, k2) /\ k2.old = k.old
    BY <1>4 DEF OldUnlinked
  <2>2. Of(k) \in UserDevices
    BY <1>1, <2>1, DevicePlace
  <2>3. In(k2, "remove_device", 3) /\ Of(k2) = Of(k)
    BY <2>1 DEF Onward, In, CallRow, Of
  <2> QED
    BY <2>1, <2>2, <2>3 DEF k, k2
<1>5. CASE ~OldRead(k, k2) /\ ~OldUnlinked(k, k2)
  <2>1. CASE OldCut(k, k2)
    BY <2>1 DEF OldCut, k2
  <2>2. CASE ~OldCut(k, k2)
    <3>1. k2.old = k.old
      BY <1>1, <1>5, <2>2 DEF DeviceEffect, TokenWritten, DeviceWritten, MetaWritten, Asserted, Untouched
    <3>2. k.old = None
      BY <1>1, <1>2, <1>5, <2>2, EffectPlaces
    <3> QED
      BY <3>1, <3>2 DEF k2
  <2> QED
    BY <2>1, <2>2
<1> QED
  BY <1>3, <1>4, <1>5

\* None is no token and no device.
LEMMA NoneApart ==
  ASSUME NEW n \in Nat
  PROVE  /\ \A y \in 1..n : y # None
         /\ \A ud \in UserDevices : ud # None
         /\ None # "device"
  BY AccountsAssumption

\* A step keeps tokens apart.
LEMMA EffectFresh ==
  ASSUME BaseInv, FreshInv, OwnInv, NEW t \in Tasks, Effect(t)
  PROVE  FreshInv'
<1>1. /\ \A s \in Tasks : TokensOf(task'[s].todo) \subseteq TokensOf(task[s].todo)
      /\ InToken(task[t], 5) => TokensOf(task'[t].todo) = {}
  BY EffectTokens
<1>2. \A s \in Tasks \ {t} : task'[s] = task[s]
  BY DEF Effect
<1>3. tokens \in Nat /\ \A s \in Tasks : TaskOK(task[s], tokens)
  BY DEF BaseInv
<1> SUFFICES ASSUME NEW s \in Tasks, NEW y \in TokensOf(task'[s].todo)
             PROVE  /\ \A r \in Tasks \ {s} : y \notin TokensOf(task'[r].todo)
                    /\ \/ InToken(task'[s], 5)
                       \/ /\ \A ud \in UserDevices : db'["token"][ud] # y
                          /\ \A r \in Tasks : task'[r].old # y
  BY DEF FreshInv
<1>4. y \in TokensOf(task[s].todo)
  BY <1>1
<1>5. /\ \A r \in Tasks \ {s} : y \notin TokensOf(task[r].todo)
      /\ \/ InToken(task[s], 5)
         \/ /\ \A ud \in UserDevices : db["token"][ud] # y
            /\ \A r \in Tasks : task[r].old # y
  BY <1>4 DEF FreshInv
<1>6. \A r \in Tasks \ {s} : y \notin TokensOf(task'[r].todo)
  BY <1>1, <1>5
<1>7. y # None
  <2>1. y \in 1..tokens
    BY <1>3, <1>4, TokensMade DEF TaskOK
  <2> QED
    BY <1>3, <2>1, NoneApart
<1>8. CASE InToken(task[s], 5)
  <2>1. s # t
    BY <1>1, <1>8
  <2> QED
    BY <1>2, <1>6, <1>8, <2>1
<1>9. CASE ~InToken(task[s], 5)
  <2>1. /\ \A ud \in UserDevices : db["token"][ud] # y
        /\ \A r \in Tasks : task[r].old # y
    BY <1>5, <1>9
  <2>2. \A r \in Tasks : task'[r].old # y
    <3>1. task'[t].old # y
      BY <1>7, <2>1, EffectOld
    <3> QED
      BY <1>2, <2>1, <3>1
  <2>3. CASE InToken(task[t], 4) /\ s = t
    <3>1. Onward(task[t], task'[t]) /\ task[t].todo # <<>>
      BY <2>3, EffectPlaces DEF Effect, TokenWritten
    <3>2. InToken(task'[t], 5)
      BY <1>3, <2>3, <3>1, NextRow
    <3> QED
      BY <1>6, <2>3, <3>2
  <2>4. CASE ~(InToken(task[t], 4) /\ s = t)
    <3>1. InToken(task[t], 4) => TokenOf(task[t]) # y
      <4> SUFFICES ASSUME InToken(task[t], 4) PROVE TokenOf(task[t]) # y
        OBVIOUS
      <4>1. TokenOf(task[t]) \in TokensOf(task[t].todo) /\ s # t
        BY <1>3, <2>4, TokenPlace
      <4> QED
        BY <1>5, <4>1
    <3>2. \A ud \in UserDevices : db'["token"][ud] # y
      BY <1>7, <2>1, <3>1, EffectToken
    <3> QED
      BY <1>6, <2>2, <3>2
  <2> QED
    BY <2>3, <2>4
<1> QED
  BY <1>8, <1>9

\* A step keeps the owners of tokens.
LEMMA EffectOwn ==
  ASSUME BaseInv, FreshInv, OwnInv, NEW t \in Tasks, Effect(t)
  PROVE  OwnInv'
<1> DEFINE k == task[t]
           k2 == task'[t]
<1>1. \A s \in Tasks \ {t} : task'[s] = task[s]
  BY DEF Effect
<1>2. /\ tokens \in Nat /\ TaskOK(k, tokens) /\ k.todo # <<>>
      /\ \A ud \in UserDevices : db["token"][ud] \in (1..tokens) \cup {None}
  BY DEF BaseInv, Effect
<1>3. \A y \in 1..tokens : y # None
  BY <1>2, NoneApart
<1>4. InToken(k, 4) =>
        /\ TokenOf(k) \in 1..tokens /\ TokenOf(k) # None
        /\ \A ud \in UserDevices : db["token"][ud] # TokenOf(k)
        /\ \A s \in Tasks : task[s].old # TokenOf(k)
        /\ \A s \in Tasks \ {t} : TokenOf(k) \notin TokensOf(task[s].todo)
  <2> SUFFICES ASSUME InToken(k, 4)
               PROVE  /\ TokenOf(k) \in 1..tokens /\ TokenOf(k) # None
                      /\ \A ud \in UserDevices : db["token"][ud] # TokenOf(k)
                      /\ \A s \in Tasks : task[s].old # TokenOf(k)
                      /\ \A s \in Tasks \ {t} : TokenOf(k) \notin TokensOf(task[s].todo)
    OBVIOUS
  <2>1. TokenOf(k) \in 1..tokens /\ TokenOf(k) \in TokensOf(k.todo)
    BY <1>2, TokenPlace
  <2>2. ~InToken(k, 5)
    BY DEF InToken, TokenRow
  <2> QED
    BY <1>3, <2>1, <2>2 DEF FreshInv
<1>5. \A ud \in UserDevices :
        /\ db'["token"][ud] # db["token"][ud] =>
             /\ Of(k) = ud
             /\ \/ InToken(k, 4) /\ db'["token"][ud] = TokenOf(k)
                \/ In(k, "remove_device", 2) /\ k.old # None /\ db'["token"][ud] = None
        /\ InToken(k, 4) /\ Of(k) = ud => db'["token"][ud] = TokenOf(k)
        /\ In(k, "remove_device", 2) /\ Of(k) = ud /\ k.old # None => db'["token"][ud] = None
  BY EffectToken
<1>6. \/ k2.old = None
      \/ /\ InToken(k2, 3) \/ In(k2, "remove_device", 2)
         /\ Of(k2) = Of(k) /\ Of(k) \in UserDevices /\ k2.old = db["token"][Of(k)]
         /\ db'["token"] = db["token"]
      \/ /\ In(k, "remove_device", 2) /\ In(k2, "remove_device", 3)
         /\ Of(k2) = Of(k) /\ Of(k) \in UserDevices /\ k2.old = k.old
  BY EffectOld
<1>7. ASSUME NEW a \in UserDevices, NEW b \in UserDevices, db'["token"][a] # None,
             db'["token"][a] = db'["token"][b]
      PROVE  a = b
  <2>1. db["token"][a] # None /\ db["token"][a] = db["token"][b] => a = b
    BY DEF OwnInv
  <2> QED
    BY <1>4, <1>5, <1>7, <2>1
<1>8. k2.old # None => InToken(k2, 3) \/ In(k2, "remove_device", 2) \/ In(k2, "remove_device", 3)
  BY <1>6
<1>9. ASSUME NEW ud \in UserDevices, InToken(k2, 5), db'["token"][ud] = TokenOf(k2)
      PROVE  ud = Of(k2)
  <2>1. Onward(k, k2)
    <3>1. k2.at # 1
      BY <1>9 DEF InToken, TokenRow
    <3> QED
      BY <3>1 DEF Effect, Moves, Leaves
  <2>2. InToken(k, 4) /\ Of(k2) = Of(k) /\ TokenOf(k2) = TokenOf(k)
    BY <1>2, <1>9, <2>1, NextRow
  <2> QED
    BY <1>4, <1>5, <1>9, <2>2
<1>10. ASSUME NEW ud \in UserDevices, k2.old # None, db'["token"][ud] = k2.old
       PROVE  ud = Of(k2) /\ ~In(k2, "remove_device", 3)
  <2>1. CASE /\ InToken(k2, 3) \/ In(k2, "remove_device", 2)
             /\ Of(k2) = Of(k) /\ Of(k) \in UserDevices /\ k2.old = db["token"][Of(k)]
             /\ db'["token"] = db["token"]
    <3>1. ~In(k2, "remove_device", 3)
      BY <2>1 DEF InToken, TokenRow, In, CallRow
    <3>2. ud = Of(k)
      BY <1>10, <2>1 DEF OwnInv
    <3> QED
      BY <2>1, <3>1, <3>2
  <2>2. CASE /\ In(k, "remove_device", 2) /\ In(k2, "remove_device", 3)
             /\ Of(k2) = Of(k) /\ Of(k) \in UserDevices /\ k2.old = k.old
    <3>1. ~InToken(k, 4)
      BY <2>2 DEF InToken, TokenRow, In, CallRow
    <3>2. ud # Of(k)
      BY <1>5, <1>10, <2>2
    <3>3. db["token"][ud] = k.old
      BY <1>5, <1>10, <2>2, <3>2
    <3> QED
      BY <1>10, <2>2, <3>2, <3>3 DEF OwnInv
  <2> QED
    BY <1>6, <1>10, <2>1, <2>2
<1>11. ASSUME NEW s \in Tasks \ {t}, NEW ud \in UserDevices
       PROVE  /\ InToken(task[s], 5) /\ db'["token"][ud] = TokenOf(task[s]) => ud = Of(task[s])
              /\ task[s].old # None /\ db'["token"][ud] = task[s].old
                 => ud = Of(task[s]) /\ ~In(task[s], "remove_device", 3)
  <2>1. /\ InToken(task[s], 5) /\ db["token"][ud] = TokenOf(task[s]) => ud = Of(task[s])
        /\ task[s].old # None /\ db["token"][ud] = task[s].old
           => ud = Of(task[s]) /\ ~In(task[s], "remove_device", 3)
    BY DEF OwnInv
  <2>2. InToken(task[s], 5) => TokenOf(task[s]) \in 1..tokens /\ TokenOf(task[s]) \in TokensOf(task[s].todo)
    <3>1. TaskOK(task[s], tokens)
      BY DEF BaseInv
    <3> QED
      BY <3>1, TokenPlace
  <2> QED
    BY <1>3, <1>4, <1>5, <2>1, <2>2
<1> HIDE DEF k, k2
<1>12. ASSUME NEW s \in Tasks
       PROVE  /\ task'[s].old # None => \/ InToken(task'[s], 3) \/ In(task'[s], "remove_device", 2)
                                        \/ In(task'[s], "remove_device", 3)
              /\ \A ud \in UserDevices :
                   /\ InToken(task'[s], 5) /\ db'["token"][ud] = TokenOf(task'[s]) => ud = Of(task'[s])
                   /\ task'[s].old # None /\ db'["token"][ud] = task'[s].old
                        => ud = Of(task'[s]) /\ ~In(task'[s], "remove_device", 3)
  <2>1. CASE s = t
    BY <1>8, <1>9, <1>10, <2>1 DEF k2
  <2>2. CASE s # t
    BY <1>1, <1>11, <2>2 DEF OwnInv
  <2> QED
    BY <2>1, <2>2
<1> QED
  BY <1>7, <1>12 DEF OwnInv

\* What a step does to the device of a token.
LEMMA EffectDevice ==
  ASSUME BaseInv, NEW t \in Tasks, Effect(t), NEW x \in Tokens
  PROVE  /\ db'["device"][x] # db["device"][x] =>
              \/ InToken(task[t], 5) /\ x = TokenOf(task[t]) /\ db'["device"][x] = Of(task[t])
              \/ /\ InToken(task[t], 3) \/ In(task[t], "remove_device", 3)
                 /\ x = task[t].old /\ task[t].old # None /\ db'["device"][x] = None
         /\ InToken(task[t], 5) /\ x = TokenOf(task[t]) => db'["device"][x] = Of(task[t])
         /\ InToken(task[t], 3) \/ In(task[t], "remove_device", 3) =>
              (x = task[t].old /\ task[t].old # None => db'["device"][x] = None)
<1> DEFINE k == task[t]
           k2 == task'[t]
<1>1. DeviceEffect(k, k2) /\ DOMAIN db["device"] = Tokens
  BY DEF Effect, BaseInv
<1> HIDE DEF k, k2
<1>2. CASE DeviceWritten(k, k2)
  <2>1. InToken(k, 5) /\ db'["device"] = [db["device"] EXCEPT ![TokenOf(k)] = Of(k)]
    BY <1>2 DEF DeviceWritten
  <2>2. ~InToken(k, 3) /\ ~In(k, "remove_device", 3)
    BY <2>1 DEF InToken, TokenRow, In, CallRow
  <2> QED
    BY <1>1, <2>1, <2>2 DEF k
<1>3. CASE OldCut(k, k2)
  <2>1. /\ InToken(k, 3) \/ In(k, "remove_device", 3)
        /\ db'["device"] = IF k.old = None THEN db["device"] ELSE [db["device"] EXCEPT ![k.old] = None]
    BY <1>3 DEF OldCut
  <2>2. ~InToken(k, 5)
    BY <2>1 DEF InToken, TokenRow, In, CallRow
  <2> QED
    BY <1>1, <2>1, <2>2 DEF k
<1>4. CASE ~DeviceWritten(k, k2) /\ ~OldCut(k, k2)
  <2>1. db'["device"] = db["device"]
    BY <1>1, <1>4 DEF DeviceEffect, TokenWritten, OldUnlinked, MetaWritten, OldRead, Asserted, Untouched, Kept
  <2>2. ~InToken(k, 5) /\ ~InToken(k, 3) /\ ~In(k, "remove_device", 3)
    BY <1>1, <1>4, EffectPlaces
  <2> QED
    BY <2>1, <2>2 DEF k
<1> QED
  BY <1>2, <1>3, <1>4

\* What a token row says is a token.
LEMMA TokenIsToken ==
  ASSUME BaseInv, NEW x \in 1..tokens
  PROVE  x \in Tokens /\ x # None
<1>1. tokens \in Nat /\ tokens <= MaxOps + Cardinality(Registered)
  BY DEF BaseInv
<1>2. MaxOps + Cardinality(Registered) \in Nat
  <2>1. IsFiniteSet(Registered)
    BY FS_Subset, AccountsAssumption
  <2> QED
    BY <2>1, FS_CardinalityType, AccountsAssumption
<1> QED
  BY <1>1, <1>2, NoneApart DEF Tokens

\* A step keeps tokens working.
LEMMA EffectWorks ==
  ASSUME BaseInv, FreshInv, OwnInv, WorksInv, NEW t \in Tasks, Effect(t)
  PROVE  WorksInv'
<1> DEFINE k == task[t]
           k2 == task'[t]
<1>1. \A s \in Tasks \ {t} : task'[s] = task[s]
  BY DEF Effect
<1>2. /\ TaskOK(k, tokens) /\ k.todo # <<>> /\ UNCHANGED torn /\ DeviceEffect(k, k2)
      /\ \A ud \in UserDevices : db["token"][ud] \in (1..tokens) \cup {None}
  BY DEF BaseInv, Effect
<1> SUFFICES ASSUME NEW ud \in UserDevices, ud[1] \notin torn, db'["token"][ud] # None
             PROVE  \/ db'["device"][db'["token"][ud]] = ud
                    \/ \E s \in Tasks : InToken(task'[s], 4) /\ Of(task'[s]) = ud
                    \/ \E s \in Tasks : InToken(task'[s], 5) /\ Of(task'[s]) = ud
                                        /\ TokenOf(task'[s]) = db'["token"][ud]
  BY <1>2 DEF WorksInv
<1>3. CASE InToken(k, 4) /\ Of(k) = ud
  <2>1. db'["token"][ud] = TokenOf(k)
    BY <1>3, EffectToken
  <2>2. Onward(k, k2)
    BY <1>2, <1>3, EffectPlaces DEF TokenWritten
  <2>3. InToken(k2, 5) /\ Of(k2) = ud /\ TokenOf(k2) = TokenOf(k)
    BY <1>2, <1>3, <2>2, NextRow
  <2> QED
    BY <2>1, <2>3
<1>4. CASE InToken(k, 3) /\ Of(k) = ud
  <2>1. Onward(k, k2)
    BY <1>2, <1>4, EffectPlaces DEF OldCut
  <2>2. InToken(k2, 4) /\ Of(k2) = ud
    BY <1>2, <1>4, <2>1, NextRow
  <2> QED
    BY <2>2
<1>5. CASE ~(InToken(k, 4) /\ Of(k) = ud) /\ ~(InToken(k, 3) /\ Of(k) = ud)
  <2>1. db'["token"][ud] = db["token"][ud]
    BY <1>5, EffectToken
  <2>2. db["token"][ud] \in 1..tokens /\ db["token"][ud] \in Tokens
    BY <1>2, <2>1, TokenIsToken
  <2>3. CASE InToken(k, 5) /\ db["token"][ud] = TokenOf(k)
    <3>1. ud = Of(k)
      BY <2>3 DEF OwnInv
    <3>2. db'["device"][db["token"][ud]] = Of(k)
      BY <2>2, <2>3, EffectDevice
    <3> QED
      BY <2>1, <3>1, <3>2
  <2>4. CASE ~(InToken(k, 5) /\ db["token"][ud] = TokenOf(k))
    <3>1. db'["device"][db["token"][ud]] = db["device"][db["token"][ud]]
      <4> SUFFICES ASSUME db'["device"][db["token"][ud]] # db["device"][db["token"][ud]] PROVE FALSE
        OBVIOUS
      <4>1. /\ InToken(k, 3) \/ In(k, "remove_device", 3)
            /\ db["token"][ud] = k.old /\ k.old # None
        BY <2>2, <2>4, EffectDevice
      <4>2. ud = Of(k) /\ ~In(k, "remove_device", 3)
        BY <4>1 DEF OwnInv
      <4> QED
        BY <1>5, <4>1, <4>2
    <3>2. \/ db["device"][db["token"][ud]] = ud
          \/ \E s \in Tasks : InToken(task[s], 4) /\ Of(task[s]) = ud
          \/ \E s \in Tasks : InToken(task[s], 5) /\ Of(task[s]) = ud /\ TokenOf(task[s]) = db["token"][ud]
      BY <2>1 DEF WorksInv
    <3>3. CASE \E s \in Tasks : InToken(task[s], 4) /\ Of(task[s]) = ud
      <4>1. PICK s \in Tasks : InToken(task[s], 4) /\ Of(task[s]) = ud
        BY <3>3
      <4>2. s # t
        BY <1>5, <4>1
      <4> QED
        BY <1>1, <4>1, <4>2
    <3>4. CASE \E s \in Tasks : InToken(task[s], 5) /\ Of(task[s]) = ud /\ TokenOf(task[s]) = db["token"][ud]
      <4>1. PICK s \in Tasks : InToken(task[s], 5) /\ Of(task[s]) = ud /\ TokenOf(task[s]) = db["token"][ud]
        BY <3>4
      <4>2. s # t
        BY <2>4, <4>1
      <4> QED
        BY <1>1, <2>1, <4>1, <4>2
    <3> QED
      BY <2>1, <3>1, <3>2, <3>3, <3>4
  <2> QED
    BY <2>3, <2>4
<1> QED
  BY <1>3, <1>4, <1>5

-----------------------------------------------------------------------------
(* A step keeps devices and tokens in agreement: the device that it is     *)
(* about, row by row.                                                      *)

\* The row after one on a token.
LEMMA FitsToken ==
  ASSUME NEW k, NEW k2, NEW meta, NEW tok, NEW own, Fits(k, meta, tok, own),
         Onward(k, k2), k.at \in Nat, None \notin own
  PROVE  /\ InToken(k, 4) => Fits(k2, meta, TokenOf(k), own)
         /\ InToken(k, 2) /\ k2.old = tok => Fits(k2, meta, tok, own)
         /\ InToken(k, 3) => Fits(k2, meta, tok, IF k.old = None THEN own ELSE own \ {k.old})
         /\ InToken(k, 1) /\ meta # None => Fits(k2, meta, tok, own)
<1> DEFINE c == Head(k.todo)
<1>1. Head(k2.todo) = c /\ k2.at = k.at + 1 /\ k2.todo = k.todo
  BY DEF Onward
<1> HIDE DEF c
<1>2. ASSUME NEW i \in 1..4, InToken(k, i)
      PROVE  /\ InToken(k2, i + 1) /\ Halfway(k2) /\ TokenOf(k2) = TokenOf(k)
             /\ \A j \in 2..5 : j # i + 1 => ~InToken(k2, j)
             /\ \A j \in 2..6 : ~In(k2, "remove_device", j)
             /\ ~Created(k2) /\ ~Updating(k2)
  <2>1. k.todo # <<>> /\ ((c[1] = "set_token" /\ k.at = i) \/ (c[1] = "create_device" /\ k.at = i + 3))
    BY <1>2 DEF InToken, TokenRow, c
  <2>2. InToken(k2, i + 1)
    BY <1>1, <2>1 DEF InToken, TokenRow
  <2>3. /\ \A j \in 2..5 : j # i + 1 => ~InToken(k2, j)
        /\ \A j \in 2..6 : ~In(k2, "remove_device", j)
        /\ ~Created(k2) /\ ~Updating(k2)
    BY <1>1, <2>1 DEF InToken, TokenRow, In, CallRow, Created, Updating
  <2>4. Halfway(k2)
    BY <2>2 DEF Halfway
  <2>5. TokenOf(k2) = TokenOf(k)
    BY <1>1 DEF TokenOf, c
  <2> QED
    BY <2>2, <2>3, <2>4, <2>5
<1>3. InToken(k, 4) => Fits(k2, meta, TokenOf(k), own)
  BY <1>2 DEF Fits
<1>4. InToken(k, 3) => Fits(k2, meta, tok, IF k.old = None THEN own ELSE own \ {k.old})
  <2> SUFFICES ASSUME InToken(k, 3)
               PROVE  Fits(k2, meta, tok, IF k.old = None THEN own ELSE own \ {k.old})
    OBVIOUS
  <2>1. own \subseteq {k.old} /\ meta # None
    BY DEF Fits
  <2>2. (IF k.old = None THEN own ELSE own \ {k.old}) = {}
    BY <2>1
  <2> QED
    BY <1>2, <2>1, <2>2 DEF Fits
<1>5. InToken(k, 2) /\ k2.old = tok => Fits(k2, meta, tok, own)
  BY <1>2 DEF Fits
<1>6. InToken(k, 1) /\ meta # None => Fits(k2, meta, tok, own)
  <2> SUFFICES ASSUME InToken(k, 1), meta # None PROVE Fits(k2, meta, tok, own)
    OBVIOUS
  <2>1. own \subseteq {tok}
    <3>1. CASE Created(k)
      BY <3>1 DEF Fits
    <3>2. CASE ~Created(k)
      <4>1. ~Halfway(k)
        BY <3>2 DEF Halfway, InToken, TokenRow, In, CallRow, Created
      <4> QED
        BY <4>1 DEF Fits, Agrees
    <3> QED
      BY <3>1, <3>2
  <2> QED
    BY <1>2, <2>1 DEF Fits
<1> QED
  BY <1>3, <1>4, <1>5, <1>6

\* The row after one of remove_device.
LEMMA FitsRemove ==
  ASSUME NEW k, NEW k2, NEW meta, NEW tok, NEW own, Fits(k, meta, tok, own),
         Onward(k, k2), k.at \in Nat, None \notin own
  PROVE  /\ In(k, "remove_device", 1) /\ k2.old = tok => Fits(k2, meta, tok, own)
         /\ In(k, "remove_device", 2) /\ k2.old = k.old =>
              Fits(k2, meta, IF k.old = None THEN tok ELSE None, own)
         /\ In(k, "remove_device", 3) => Fits(k2, meta, tok, IF k.old = None THEN own ELSE own \ {k.old})
         /\ In(k, "remove_device", 4) \/ In(k, "remove_device", 5) => Fits(k2, meta, tok, own)
<1> DEFINE c == Head(k.todo)
<1>1. Head(k2.todo) = c /\ k2.at = k.at + 1 /\ k2.todo = k.todo
  BY DEF Onward
<1> HIDE DEF c
<1>2. ASSUME NEW i \in 1..5, In(k, "remove_device", i)
      PROVE  /\ In(k2, "remove_device", i + 1) /\ Halfway(k2)
             /\ \A j \in 2..6 : j # i + 1 => ~In(k2, "remove_device", j)
             /\ \A j \in 2..5 : ~InToken(k2, j)
             /\ ~Created(k2) /\ ~Updating(k2)
  <2>1. k.todo # <<>> /\ c[1] = "remove_device" /\ k.at = i
    BY <1>2 DEF In, CallRow, c
  <2>2. In(k2, "remove_device", i + 1)
    BY <1>1, <2>1 DEF In, CallRow
  <2>3. /\ \A j \in 2..6 : j # i + 1 => ~In(k2, "remove_device", j)
        /\ \A j \in 2..5 : ~InToken(k2, j)
        /\ ~Created(k2) /\ ~Updating(k2)
    BY <1>1, <2>1 DEF InToken, TokenRow, In, CallRow, Created, Updating
  <2>4. Halfway(k2)
    BY <2>2 DEF Halfway
  <2> QED
    BY <2>2, <2>3, <2>4
<1>3. In(k, "remove_device", 1) /\ k2.old = tok => Fits(k2, meta, tok, own)
  <2> SUFFICES ASSUME In(k, "remove_device", 1), k2.old = tok PROVE Fits(k2, meta, tok, own)
    OBVIOUS
  <2>1. ~Halfway(k)
    BY DEF Halfway, InToken, TokenRow, In, CallRow, Created
  <2>2. own \subseteq {tok}
    BY <2>1 DEF Fits, Agrees
  <2> QED
    BY <1>2, <2>2 DEF Fits
<1>4. In(k, "remove_device", 2) /\ k2.old = k.old => Fits(k2, meta, IF k.old = None THEN tok ELSE None, own)
  <2> SUFFICES ASSUME In(k, "remove_device", 2), k2.old = k.old
               PROVE  Fits(k2, meta, IF k.old = None THEN tok ELSE None, own)
    OBVIOUS
  <2>1. own \subseteq {k2.old} /\ (IF k.old = None THEN tok ELSE None) = None
    BY DEF Fits
  <2> QED
    BY <1>2, <2>1 DEF Fits
<1>5. In(k, "remove_device", 3) => Fits(k2, meta, tok, IF k.old = None THEN own ELSE own \ {k.old})
  <2> SUFFICES ASSUME In(k, "remove_device", 3)
               PROVE  Fits(k2, meta, tok, IF k.old = None THEN own ELSE own \ {k.old})
    OBVIOUS
  <2>1. own \subseteq {k.old} /\ tok = None
    BY DEF Fits
  <2>2. (IF k.old = None THEN own ELSE own \ {k.old}) = {}
    BY <2>1
  <2> QED
    BY <1>2, <2>1, <2>2 DEF Fits
<1>6. In(k, "remove_device", 4) \/ In(k, "remove_device", 5) => Fits(k2, meta, tok, own)
  BY <1>2 DEF Fits
<1> QED
  BY <1>3, <1>4, <1>5, <1>6

\* A call that ends, and the next that begins.
LEMMA FitsStart ==
  ASSUME NEW k2, k2.at = 1, NEW meta, NEW tok, NEW own, Agrees(meta, tok, own)
  PROVE  Fits(k2, meta, tok, own)
<1>1. /\ \A i \in 2..5 : ~InToken(k2, i)
      /\ \A i \in 2..6, kind \in STRING : ~In(k2, kind, i)
      /\ ~Halfway(k2) /\ ~Updating(k2)
  BY StartRow
<1>2. \A i \in 2..6 : ~In(k2, "remove_device", i) /\ ~In(k2, "create_device", i)
  BY DEF In, CallRow
<1> QED
  BY <1>1, <1>2 DEF Fits, Created

\* The last row of a token and the rows that write the metadata.
LEMMA FitsLast ==
  ASSUME NEW k, NEW meta, NEW tok, NEW own, Fits(k, meta, tok, own)
  PROVE  /\ InToken(k, 5) /\ TokenOf(k) # None => Agrees(meta, tok, own \cup {TokenOf(k)})
         /\ In(k, "update_device", 3) => Agrees("device", tok, own)
         /\ In(k, "remove_device", 6) => Agrees(None, tok, own)
<1>1. InToken(k, 5) /\ TokenOf(k) # None => Agrees(meta, tok, own \cup {TokenOf(k)})
  BY DEF Fits, Agrees
<1>2. In(k, "update_device", 3) => Agrees("device", tok, own)
  <2> SUFFICES ASSUME In(k, "update_device", 3) PROVE Agrees("device", tok, own)
    OBVIOUS
  <2>1. ~Halfway(k) /\ Updating(k)
    BY DEF Halfway, Updating, InToken, TokenRow, In, CallRow, Created
  <2>2. meta # None /\ Agrees(meta, tok, own) /\ None # "device"
    BY <2>1, AccountsAssumption DEF Fits
  <2> QED
    BY <2>2 DEF Agrees
<1>3. In(k, "remove_device", 6) => Agrees(None, tok, own)
  BY DEF Fits, Agrees
<1> QED
  BY <1>1, <1>2, <1>3

\* create_device has written the metadata; update_device has made sure of it.
LEMMA FitsMeta ==
  ASSUME NEW k, NEW k2, NEW meta, NEW tok, NEW own, Fits(k, meta, tok, own), Onward(k, k2), k.at \in Nat
  PROVE  /\ In(k, "create_device", 3) => Fits(k2, "device", tok, own)
         /\ In(k, "update_device", 1) /\ meta # None => Fits(k2, meta, tok, own)
         /\ In(k, "update_device", 2) => Fits(k2, meta, tok, own)
         /\ In(k, "create_device", 1) \/ In(k, "create_device", 2) => Fits(k2, meta, tok, own)
<1> DEFINE c == Head(k.todo)
<1>1. Head(k2.todo) = c /\ k2.at = k.at + 1 /\ k2.todo = k.todo
  BY DEF Onward
<1>2. None # "device"
  BY AccountsAssumption
<1> HIDE DEF c
<1>3. In(k, "create_device", 3) => Fits(k2, "device", tok, own)
  <2> SUFFICES ASSUME In(k, "create_device", 3) PROVE Fits(k2, "device", tok, own)
    OBVIOUS
  <2>1. c[1] = "create_device" /\ k.at = 3 /\ k.todo # <<>>
    BY DEF In, CallRow, c
  <2>2. /\ Created(k2) /\ ~Updating(k2) /\ ~Halfway(k)
        /\ \A j \in 2..6 : ~In(k2, "remove_device", j)
        /\ \A j \in 2..5 : ~InToken(k2, j)
    BY <1>1, <2>1 DEF Created, Updating, Halfway, InToken, TokenRow, In, CallRow, c
  <2>3. Halfway(k2) /\ own \subseteq {tok}
    BY <2>2 DEF Halfway, Fits, Agrees
  <2> QED
    BY <1>2, <2>2, <2>3 DEF Fits
<1>4. ASSUME \/ In(k, "update_device", 1) /\ meta # None
             \/ In(k, "update_device", 2)
             \/ In(k, "create_device", 1) \/ In(k, "create_device", 2)
      PROVE  Fits(k2, meta, tok, own)
  <2>1. k.todo # <<>> /\ ((c[1] = "update_device" /\ k.at \in {1, 2}) \/ (c[1] = "create_device" /\ k.at \in {1, 2}))
    BY <1>4 DEF In, CallRow, c
  <2>2. /\ ~Halfway(k) /\ ~Halfway(k2) /\ ~Created(k2)
        /\ \A j \in 2..6 : ~In(k2, "remove_device", j)
        /\ \A j \in 2..5 : ~InToken(k2, j)
    BY <1>1, <2>1 DEF Created, Halfway, InToken, TokenRow, In, CallRow, c
  <2>3. Updating(k2) => meta # None
    <3> SUFFICES ASSUME Updating(k2) PROVE meta # None
      OBVIOUS
    <3>1. c[1] = "update_device"
      BY <1>1, <2>1 DEF Updating, In, CallRow
    <3>2. In(k, "update_device", 2) => Updating(k)
      BY DEF Updating
    <3>3. ~In(k, "create_device", 1) /\ ~In(k, "create_device", 2)
      BY <3>1 DEF In, CallRow, c
    <3> QED
      BY <1>4, <3>2, <3>3 DEF Fits
  <2> QED
    BY <2>2, <2>3 DEF Fits
<1> QED
  BY <1>3, <1>4

\* Less tokens lead to the device.
LEMMA FitsLess ==
  ASSUME NEW k, NEW meta, NEW tok, NEW own, NEW own2 \in SUBSET own, Fits(k, meta, tok, own)
  PROVE  Fits(k, meta, tok, own2)
<1>1. Agrees(meta, tok, own) => Agrees(meta, tok, own2)
  BY DEF Agrees
<1> QED
  BY <1>1 DEF Fits

\* The calls that are about a device and its token.
Working(k) ==
  k.todo # <<>> /\ Head(k.todo)[1] \in {"set_token", "create_device", "remove_device", "update_device"}

\* Only these are halfway.
LEMMA HalfwayWorks ==
  ASSUME NEW k
  PROVE  /\ Halfway(k) \/ Updating(k) => Working(k)
         /\ \A i \in 1..5 : InToken(k, i) => Working(k)
         /\ \A i \in 1..6 : In(k, "remove_device", i) => Working(k)
<1>1. Halfway(k) \/ Updating(k) => Working(k)
  BY DEF Halfway, Updating, Created, In, CallRow, InToken, TokenRow, Working
<1>2. \A i \in 1..5 : InToken(k, i) => Working(k)
  BY DEF InToken, TokenRow, Working
<1>3. \A i \in 1..6 : In(k, "remove_device", i) => Working(k)
  BY DEF In, CallRow, Working
<1> QED
  BY <1>1, <1>2, <1>3

\* A device is in one request at a time, unless requests overlap on it.
LEMMA Alone ==
  ASSUME BaseInv, NEW ud \in UserDevices \ mixed, NEW s \in Tasks, NEW t \in Tasks,
         Working(task[s]), Working(task[t]), Of(task[s]) = ud, Of(task[t]) = ud
  PROVE  s = t
<1>1. TaskOK(task[s], tokens) /\ TaskOK(task[t], tokens)
  BY DEF BaseInv
<1>2. ud \in task[s].devices /\ ud \in task[t].devices
  BY <1>1, DeviceOf DEF Working
<1> QED
  BY <1>2 DEF BaseInv

\* A call that has not begun to change rows.
LEMMA FitsIdle ==
  ASSUME NEW k, ~Halfway(k), ~Updating(k), NEW meta, NEW tok, NEW own, Agrees(meta, tok, own)
  PROVE  Fits(k, meta, tok, own)
<1>1. /\ \A i \in 2..5 : ~InToken(k, i)
      /\ \A i \in 2..6 : ~In(k, "remove_device", i)
      /\ ~Created(k)
  BY DEF Halfway
<1> QED
  BY <1>1 DEF Fits

\* So the rows of the device fit the call that is about it.
LEMMA AloneFits ==
  ASSUME BaseInv, NEW ud \in UserDevices \ mixed, AgreeFor(ud), NEW t \in Tasks,
         Working(task[t]), Of(task[t]) = ud
  PROVE  FitsTask(t, ud)
<1>1. CASE Halfway(task[t]) \/ Updating(task[t])
  BY <1>1 DEF AgreeFor
<1>2. CASE ~Halfway(task[t]) /\ ~Updating(task[t])
  <2>1. \A s \in Tasks : Halfway(task[s]) => Of(task[s]) # ud
    BY <1>2, Alone, HalfwayWorks
  <2>2. Agree(ud)
    BY <2>1 DEF AgreeFor
  <2> QED
    BY <1>2, <2>2, FitsIdle DEF Agree, FitsTask
<1> QED
  BY <1>1, <1>2

\* What a step does to the metadata of a device.
LEMMA EffectMeta ==
  ASSUME BaseInv, NEW t \in Tasks, Effect(t), NEW ud \in UserDevices,
         db'["metadata"][ud] # db["metadata"][ud]
  PROVE  Working(task[t]) /\ Of(task[t]) = ud
<1> DEFINE k == task[t]
           k2 == task'[t]
<1>1. DeviceEffect(k, k2) /\ DOMAIN db["metadata"] = UserDevices
  BY DEF Effect, BaseInv
<1> HIDE DEF k, k2
<1>2. MetaWritten(k, k2)
  BY <1>1 DEF k, DeviceEffect, TokenWritten, DeviceWritten, OldRead, OldUnlinked, OldCut, Asserted,
     Untouched, Kept
<1>3. Working(k)
  BY <1>2 DEF MetaWritten, MetaRow, CallRow, Working
<1>4. \E v : db'["metadata"] = [db["metadata"] EXCEPT ![Of(k)] = v]
  BY <1>2 DEF MetaWritten
<1>5. Of(k) = ud
  BY <1>1, <1>4
<1> QED
  BY <1>3, <1>5 DEF k

\* The tokens that lead to a device, after a token was given to it or was removed.
LEMMA OwnAfter ==
  ASSUME DOMAIN db["device"] = Tokens, NEW ud \in UserDevices, NEW x
  PROVE  /\ x \in Tokens /\ db'["device"] = [db["device"] EXCEPT ![x] = ud] => Own(ud)' = Own(ud) \cup {x}
         /\ db'["device"] = [db["device"] EXCEPT ![x] = None] => Own(ud)' = Own(ud) \ {x}
         /\ db'["device"] = db["device"] => Own(ud)' = Own(ud)
<1>1. ud # None
  BY AccountsAssumption
<1>2. Own(ud)' = {y \in Tokens : db'["device"][y] = ud}
  BY DEF Own
<1>3. x \in Tokens /\ db'["device"] = [db["device"] EXCEPT ![x] = ud] => Own(ud)' = Own(ud) \cup {x}
  BY <1>2 DEF Own
<1>4. db'["device"] = [db["device"] EXCEPT ![x] = None] => Own(ud)' = Own(ud) \ {x}
  BY <1>1, <1>2 DEF Own
<1>5. db'["device"] = db["device"] => Own(ud)' = Own(ud)
  BY <1>2 DEF Own
<1> QED
  BY <1>3, <1>4, <1>5

\* After a step on a device its rows fit the call that made it.
LEMMA EffectHere ==
  ASSUME BaseInv, NEW t \in Tasks, Effect(t), NEW ud \in UserDevices,
         Working(task[t]), Of(task[t]) = ud, FitsTask(t, ud)
  PROVE  FitsTask(t, ud)'
<1> DEFINE k == task[t]
           k2 == task'[t]
           meta == db["metadata"][ud]
           tok == db["token"][ud]
           own == Own(ud)
           meta2 == db'["metadata"][ud]
           tok2 == db'["token"][ud]
           own2 == Own(ud)'
<1>1. /\ TaskOK(k, tokens) /\ k.todo # <<>> /\ DeviceEffect(k, k2) /\ Moves(k, k2, tokens)
      /\ \A tree \in {"metadata", "token"} : DOMAIN db[tree] = UserDevices
      /\ DOMAIN db["device"] = Tokens
      /\ ud \in DOMAIN db["metadata"] /\ ud \in DOMAIN db["token"]
  BY DEF BaseInv, Effect
<1>2. k.at \in Nat
  <2>1. Len(RowsOf(Head(k.todo))) \in Nat
    BY <1>1, TailOK, RowsThere DEF TaskOK
  <2> QED
    BY <1>1, <2>1 DEF TaskOK
<1>3. None \notin own
  <2>1. Tokens \subseteq Nat
    BY DEF Tokens
  <2> QED
    BY <2>1, AccountsAssumption DEF Own
<1>4. Fits(k, meta, tok, own)
  BY DEF FitsTask
<1>5. Of(k) = ud /\ Working(k)
  OBVIOUS
<1>6. \A x : /\ x \in Tokens /\ db'["device"] = [db["device"] EXCEPT ![x] = ud] => own2 = own \cup {x}
             /\ db'["device"] = [db["device"] EXCEPT ![x] = None] => own2 = own \ {x}
             /\ db'["device"] = db["device"] => own2 = own
  BY <1>1, OwnAfter
<1> SUFFICES Fits(k2, meta2, tok2, own2)
  BY DEF FitsTask
<1>7. /\ db'["metadata"] = db["metadata"] => meta2 = meta
      /\ db'["token"] = db["token"] => tok2 = tok
      /\ \A x : db'["token"] = [db["token"] EXCEPT ![ud] = x] => tok2 = x
      /\ \A x : db'["metadata"] = [db["metadata"] EXCEPT ![ud] = x] => meta2 = x
  BY <1>1
<1>8. InToken(k, 5) => TokenOf(k) \in Tokens /\ TokenOf(k) # None
  BY <1>1, TokenPlace, TokenIsToken
<1> HIDE DEF k, k2, meta, tok, own, meta2, tok2, own2
<1>9. CASE TokenWritten(k, k2)
  <2>1. /\ InToken(k, 4) /\ Onward(k, k2) /\ tok2 = TokenOf(k) /\ meta2 = meta /\ own2 = own
    BY <1>5, <1>6, <1>7, <1>9 DEF TokenWritten, Kept
  <2> QED
    BY <1>2, <1>3, <1>4, <2>1, FitsToken
<1>10. CASE DeviceWritten(k, k2)
  <2>1. /\ InToken(k, 5) /\ k2.at = 1 /\ tok2 = tok /\ meta2 = meta
        /\ db'["device"] = [db["device"] EXCEPT ![TokenOf(k)] = ud]
    BY <1>5, <1>7, <1>10 DEF DeviceWritten, Kept, Leaves
  <2>2. own2 = own \cup {TokenOf(k)}
    BY <1>6, <1>8, <2>1
  <2>3. Agrees(meta, tok, own \cup {TokenOf(k)})
    BY <1>4, <1>8, <2>1, FitsLast
  <2> QED
    BY <2>1, <2>2, <2>3, FitsStart
<1>11. CASE MetaWritten(k, k2)
  <2>1. tok2 = tok /\ own2 = own
    BY <1>6, <1>7, <1>11 DEF MetaWritten, Kept
  <2>2. meta2 = IF Head(k.todo)[1] = "remove_device" THEN None ELSE "device"
    BY <1>5, <1>7, <1>11 DEF MetaWritten
  <2>3. CASE In(k, "create_device", 3)
    <3>1. Onward(k, k2) /\ meta2 = "device"
      BY <1>11, <2>2, <2>3 DEF MetaWritten, In, CallRow
    <3> QED
      BY <1>2, <1>4, <2>1, <2>3, <3>1, FitsMeta
  <2>4. CASE In(k, "update_device", 3)
    <3>1. k2.at = 1 /\ meta2 = "device"
      BY <1>11, <2>2, <2>4 DEF MetaWritten, In, CallRow, Leaves
    <3>2. Agrees(meta2, tok, own)
      BY <1>4, <2>4, <3>1, FitsLast
    <3> QED
      BY <2>1, <3>1, <3>2, FitsStart
  <2>5. CASE In(k, "remove_device", 6)
    <3>1. k2.at = 1 /\ meta2 = None
      BY <1>11, <2>2, <2>5 DEF MetaWritten, In, CallRow, Leaves
    <3>2. Agrees(meta2, tok, own)
      BY <1>4, <2>5, <3>1, FitsLast
    <3> QED
      BY <2>1, <3>1, <3>2, FitsStart
  <2> QED
    BY <1>11, <2>3, <2>4, <2>5 DEF MetaWritten, MetaRow, In
<1>12. CASE OldRead(k, k2)
  <2>1. /\ InToken(k, 2) \/ In(k, "remove_device", 1)
        /\ Onward(k, k2) /\ k2.old = tok /\ tok2 = tok /\ meta2 = meta /\ own2 = own
    BY <1>5, <1>6, <1>7, <1>12 DEF OldRead, Kept, tok
  <2> QED
    BY <1>2, <1>3, <1>4, <2>1, FitsToken, FitsRemove
<1>13. CASE OldUnlinked(k, k2)
  <2>1. /\ In(k, "remove_device", 2) /\ Onward(k, k2) /\ k2.old = k.old /\ meta2 = meta /\ own2 = own
        /\ tok2 = IF k.old = None THEN tok ELSE None
    BY <1>5, <1>6, <1>7, <1>13 DEF OldUnlinked, Kept
  <2> QED
    BY <1>2, <1>3, <1>4, <2>1, FitsRemove
<1>14. CASE OldCut(k, k2)
  <2>1. /\ InToken(k, 3) \/ In(k, "remove_device", 3)
        /\ Onward(k, k2) /\ tok2 = tok /\ meta2 = meta
        /\ own2 = IF k.old = None THEN own ELSE own \ {k.old}
    BY <1>5, <1>6, <1>7, <1>14 DEF OldCut, Kept
  <2> QED
    BY <1>2, <1>3, <1>4, <2>1, FitsToken, FitsRemove
<1>15. CASE Asserted(k, k2)
  <2>1. /\ InToken(k, 1) \/ In(k, "update_device", 1)
        /\ tok2 = tok /\ meta2 = meta /\ own2 = own
        /\ IF meta # None THEN Onward(k, k2) ELSE k2.at = 1
    BY <1>5, <1>6, <1>7, <1>15 DEF Asserted, Kept, Leaves, meta
  <2>2. CASE meta # None
    BY <1>2, <1>3, <1>4, <2>1, <2>2, FitsToken, FitsMeta
  <2>3. CASE meta = None
    <3>1. ~Created(k)
      BY <1>4, <2>3 DEF Fits
    <3>2. ~Halfway(k)
      BY <2>1, <3>1 DEF Halfway, InToken, TokenRow, In, CallRow, Created
    <3>3. Agrees(meta, tok, own)
      BY <1>4, <3>2 DEF Fits
    <3> QED
      BY <2>1, <2>3, <3>3, FitsStart
  <2> QED
    BY <2>2, <2>3
<1>16. CASE Untouched(k, k2)
  <2>1. /\ Aside(k) /\ tok2 = tok /\ meta2 = meta /\ own2 = own
        /\ In(k, "remove_device", 4) \/ In(k, "remove_device", 5) => Onward(k, k2)
    BY <1>6, <1>7, <1>16 DEF Untouched, Kept
  <2>2. CASE In(k, "remove_device", 4) \/ In(k, "remove_device", 5)
    BY <1>2, <1>3, <1>4, <2>1, <2>2, FitsRemove
  <2>3. CASE ~In(k, "remove_device", 4) /\ ~In(k, "remove_device", 5)
    <3>1. ~Halfway(k)
      BY <2>1, <2>3 DEF Aside, Halfway, Created, In, CallRow, InToken, TokenRow
    <3>2. Agrees(meta, tok, own)
      BY <1>4, <3>1 DEF Fits
    <3>3. CASE Onward(k, k2)
      <4>1. In(k, "update_device", 2) \/ In(k, "create_device", 1) \/ In(k, "create_device", 2)
        <5> DEFINE c == Head(k.todo)
        <5>1. k.at \in 1..Len(RowsOf(c))
          BY <1>1 DEF TaskOK
        <5>2. c[1] \in {"set_token", "create_device", "remove_device", "update_device"} /\ k.todo # <<>>
          BY <1>5 DEF Working
        <5>3. c[1] = "set_token" => k.at \in 1..5
          BY <5>1, SetTokenRows
        <5>4. c[1] = "create_device" => k.at \in 1..8
          BY <5>1, CreateRows
        <5>5. c[1] = "remove_device" => k.at \in 1..6
          BY <5>1, RemoveRows
        <5>6. c[1] = "update_device" => k.at \in 1..3
          BY <5>1, UpdateRows
        <5> HIDE DEF c
        <5>7. c[1] # "set_token"
          BY <2>1, <5>2, <5>3 DEF Aside, InToken, TokenRow, c
        <5>8. c[1] = "create_device" => k.at \in 1..2
          BY <2>1, <5>2, <5>4 DEF Aside, InToken, TokenRow, In, CallRow, c
        <5>9. c[1] # "remove_device"
          BY <2>1, <2>3, <5>2, <5>5 DEF Aside, In, CallRow, c
        <5>10. c[1] = "update_device" => k.at = 2
          BY <2>1, <5>2, <5>6 DEF Aside, In, CallRow, c
        <5> QED
          BY <5>2, <5>7, <5>8, <5>9, <5>10 DEF In, CallRow, c
      <4> QED
        BY <1>2, <1>4, <2>1, <3>3, <4>1, FitsMeta
    <3>4. CASE ~Onward(k, k2)
      <4>1. k2.at = 1
        BY <1>1, <3>4 DEF Moves, Leaves
      <4> QED
        BY <2>1, <3>2, <4>1, FitsStart
    <3> QED
      BY <3>3, <3>4
  <2> QED
    BY <2>2, <2>3
<1> QED
  BY <1>1, <1>9, <1>10, <1>11, <1>12, <1>13, <1>14, <1>15, <1>16 DEF DeviceEffect

\* A step keeps devices and tokens in agreement.
LEMMA EffectAgree ==
  ASSUME BaseInv, AgreeInv, NEW t \in Tasks, Effect(t)
  PROVE  AgreeInv'
<1> DEFINE k == task[t]
           k2 == task'[t]
<1>1. /\ \A s \in Tasks \ {t} : task'[s] = task[s]
      /\ UNCHANGED <<mixed, torn>>
      /\ TaskOK(k, tokens) /\ k.todo # <<>> /\ Moves(k, k2, tokens)
  BY DEF Effect, BaseInv
<1> SUFFICES ASSUME NEW ud \in UserDevices \ mixed, ud[1] \notin torn PROVE AgreeFor(ud)'
  BY <1>1 DEF AgreeInv
<1>2. AgreeFor(ud)
  BY DEF AgreeInv
<1>3. Halfway(k2) \/ Updating(k2) => Of(k2) = Of(k) /\ Working(k) /\ Onward(k, k2)
  <2> SUFFICES ASSUME Halfway(k2) \/ Updating(k2) PROVE Of(k2) = Of(k) /\ Working(k) /\ Onward(k, k2)
    OBVIOUS
  <2>1. k2.at # 1
    BY StartRow
  <2>2. Onward(k, k2)
    BY <1>1, <2>1 DEF Moves, Leaves
  <2>3. Working(k2)
    BY HalfwayWorks
  <2> QED
    BY <2>2, <2>3 DEF Onward, Of, Working
<1> HIDE DEF k, k2
<1>4. CASE Working(k) /\ Of(k) = ud
  <2>1. FitsTask(t, ud)
    BY <1>2, <1>4, AloneFits DEF k
  <2>2. FitsTask(t, ud)'
    BY <1>4, <2>1, EffectHere DEF k
  <2>3. \A s \in Tasks \ {t} : Halfway(task[s]) \/ Updating(task[s]) => Of(task[s]) # ud
    BY <1>4, Alone, HalfwayWorks DEF k
  <2>4. ASSUME NEW s \in Tasks, Halfway(task'[s]) \/ Updating(task'[s]), Of(task'[s]) = ud
        PROVE  FitsTask(s, ud)'
    BY <1>1, <2>2, <2>3, <2>4
  <2>5. ASSUME \A s \in Tasks : Halfway(task'[s]) => Of(task'[s]) # ud PROVE Agree(ud)'
    <3>1. ~Halfway(k2)
      BY <1>3, <1>4, <2>5 DEF k2
    <3> QED
      BY <2>2, <3>1 DEF FitsTask, Agree, Fits, k2
  <2> QED
    BY <2>4, <2>5 DEF AgreeFor
<1>5. CASE ~(Working(k) /\ Of(k) = ud)
  <2>1. db'["metadata"][ud] = db["metadata"][ud]
    BY <1>5, EffectMeta DEF k
  <2>2. db'["token"][ud] = db["token"][ud]
    BY <1>5, EffectToken, HalfwayWorks DEF k
  <2>3. Own(ud)' \subseteq Own(ud)
    <3> SUFFICES ASSUME NEW x \in Tokens, db'["device"][x] = ud PROVE db["device"][x] = ud
      BY DEF Own
    <3>1. ud # None
      BY AccountsAssumption
    <3> QED
      BY <1>5, <3>1, EffectDevice, HalfwayWorks DEF k
  <2>4. ASSUME NEW s \in Tasks, Halfway(task'[s]) \/ Updating(task'[s]), Of(task'[s]) = ud
        PROVE  FitsTask(s, ud)'
    <3>1. s # t
      BY <1>3, <1>5, <2>4 DEF k, k2
    <3>2. task'[s] = task[s]
      BY <1>1, <3>1
    <3>3. FitsTask(s, ud)
      BY <1>2, <2>4, <3>2 DEF AgreeFor
    <3> QED
      BY <2>1, <2>2, <2>3, <3>2, <3>3, FitsLess DEF FitsTask
  <2>5. ASSUME \A s \in Tasks : Halfway(task'[s]) => Of(task'[s]) # ud PROVE Agree(ud)'
    <3>1. \A s \in Tasks : Halfway(task[s]) => Of(task[s]) # ud
      BY <1>1, <1>5, <2>5, HalfwayWorks DEF k
    <3>2. Agree(ud)
      BY <1>2, <3>1 DEF AgreeFor
    <3> QED
      BY <2>1, <2>2, <2>3, <3>2 DEF Agree, Agrees
  <2> QED
    BY <2>4, <2>5 DEF AgreeFor
<1> QED
  BY <1>4, <1>5

-----------------------------------------------------------------------------
(* A step keeps one-time keys. *)

\* A row of the ghost of handed out keys is written.
LEMMA GivenAfter ==
  ASSUME DOMAIN given = UserDevices, \A ud \in UserDevices : DOMAIN given[ud] = OneTimeKeys,
         NEW ud \in UserDevices, NEW x \in OneTimeKeys, NEW v,
         given' = [given EXCEPT ![ud][x] = v]
  PROVE  /\ DOMAIN given' = UserDevices
         /\ \A a \in UserDevices : DOMAIN given'[a] = OneTimeKeys
         /\ given'[ud][x] = v
         /\ \A a \in UserDevices : \A y \in OneTimeKeys : a # ud \/ y # x => given'[a][y] = given[a][y]
<1>1. DOMAIN given' = UserDevices
  OBVIOUS
<1>2. \A a \in UserDevices : a # ud => given'[a] = given[a]
  OBVIOUS
<1>3. given'[ud] = [given[ud] EXCEPT ![x] = v]
  OBVIOUS
<1>4. DOMAIN given'[ud] = OneTimeKeys /\ given'[ud][x] = v
      /\ \A y \in OneTimeKeys : y # x => given'[ud][y] = given[ud][y]
  BY <1>3
<1> QED
  BY <1>1, <1>2, <1>4

\* A step keeps one-time keys in one hand.
LEMMA EffectOneTime ==
  ASSUME BaseInv, OneTimeInv, NEW t \in Tasks, Effect(t)
  PROVE  OneTimeInv'
<1> DEFINE k == task[t]
           k2 == task'[t]
           keys == db["onetimekeys"]
           keys2 == db'["onetimekeys"]
<1>1. /\ \A s \in Tasks \ {t} : task'[s] = task[s]
      /\ UNCHANGED mixed
      /\ TaskOK(k, tokens) /\ k.todo # <<>> /\ OneTimeEffect(k, k2)
      /\ DOMAIN keys = UserDevices
  BY DEF Effect, BaseInv
<1>2. /\ \A ud \in UserDevices : keys[ud] \subseteq OneTimeKeys
      /\ DOMAIN given = UserDevices /\ \A ud \in UserDevices : DOMAIN given[ud] = OneTimeKeys
      /\ \A s \in Tasks : task[s].key # None =>
           /\ In(task[s], "take_one_time_key", 4)
           /\ task[s].key \in OneTimeKeys
           /\ Of(task[s]) \notin mixed => task[s].key \in keys[Of(task[s])]
      /\ \A ud \in UserDevices \ mixed : \A x \in OneTimeKeys :
           given[ud][x] \in 0..1 /\ (x \in keys[ud] => given[ud][x] = 0)
  BY DEF OneTimeInv
<1>3. \A s \in Tasks : task[s].key # None =>
        Of(task[s]) \in UserDevices /\ Of(task[s]) \in task[s].devices
  BY <1>2, DevicePlace DEF BaseInv
<1>4. k.key # None =>
        /\ In(k, "take_one_time_key", 4) /\ k.key \in OneTimeKeys
        /\ Of(k) \in UserDevices /\ Of(k) \in k.devices
        /\ Of(k) \notin mixed => k.key \in keys[Of(k)]
  BY <1>2, <1>3
<1>5. \A s \in Tasks \ {t} : task[s].devices \cap k.devices \subseteq mixed
  BY DEF BaseInv
<1> HIDE DEF k, k2, keys, keys2
<1> SUFFICES /\ \A ud \in UserDevices : keys2[ud] \subseteq OneTimeKeys
             /\ DOMAIN given' = UserDevices /\ \A ud \in UserDevices : DOMAIN given'[ud] = OneTimeKeys
             /\ k2.key # None =>
                  /\ In(k2, "take_one_time_key", 4)
                  /\ k2.key \in OneTimeKeys
                  /\ Of(k2) \notin mixed => k2.key \in keys2[Of(k2)]
             /\ \A s \in Tasks \ {t} : task[s].key # None /\ Of(task[s]) \notin mixed =>
                  task[s].key \in keys2[Of(task[s])]
             /\ \A ud \in UserDevices \ mixed : \A x \in OneTimeKeys :
                  given'[ud][x] \in 0..1 /\ (x \in keys2[ud] => given'[ud][x] = 0)
  <2>1. ASSUME NEW s \in Tasks, task'[s].key # None
        PROVE  /\ In(task'[s], "take_one_time_key", 4)
               /\ task'[s].key \in OneTimeKeys
               /\ Of(task'[s]) \notin mixed => task'[s].key \in keys2[Of(task'[s])]
    <3>1. CASE s = t
      BY <2>1, <3>1 DEF k2
    <3>2. CASE s # t
      BY <1>1, <1>2, <2>1, <3>2
    <3> QED
      BY <3>1, <3>2
  <2> QED
    BY <1>1, <2>1 DEF OneTimeInv, keys2
<1>6. CASE KeyAdded(k, k2)
  <2> DEFINE ud == Of(k)
             x == Head(k.todo)[3]
  <2>1. ud \in UserDevices
    BY <1>1, <1>6, DevicePlace DEF KeyAdded
  <2>2. x \in OneTimeKeys
    <3>1. CallOK(Head(k.todo), k.users, k.devices, tokens)
      BY <1>1, TailOK DEF TaskOK
    <3> QED
      BY <1>6, <3>1 DEF KeyAdded, In, CallRow, CallOK
  <2>3. k2.key = None
    BY <1>4, <1>6 DEF KeyAdded, In, CallRow
  <2>4. /\ keys2 = [keys EXCEPT ![ud] = keys[ud] \cup {x}]
        /\ given' = [given EXCEPT ![ud][x] = 0]
    BY <1>6 DEF KeyAdded, keys, keys2
  <2> HIDE DEF ud, x
  <2>5. /\ DOMAIN given' = UserDevices /\ \A a \in UserDevices : DOMAIN given'[a] = OneTimeKeys
        /\ given'[ud][x] = 0
        /\ \A a \in UserDevices : \A y \in OneTimeKeys : a # ud \/ y # x => given'[a][y] = given[a][y]
    BY <1>2, <2>1, <2>2, <2>4, GivenAfter
  <2>6. keys2[ud] = keys[ud] \cup {x} /\ \A a \in UserDevices : a # ud => keys2[a] = keys[a]
    BY <1>1, <2>1, <2>4
  <2>7. \A a \in UserDevices : keys2[a] \subseteq OneTimeKeys /\ keys[a] \subseteq keys2[a]
    BY <1>2, <2>1, <2>2, <2>6
  <2>8. \A a \in UserDevices \ mixed : \A y \in OneTimeKeys :
          given'[a][y] \in 0..1 /\ (y \in keys2[a] => given'[a][y] = 0)
    BY <1>2, <2>1, <2>2, <2>5, <2>6
  <2>9. \A s \in Tasks \ {t} : task[s].key # None /\ Of(task[s]) \notin mixed =>
          task[s].key \in keys2[Of(task[s])]
    BY <1>2, <1>3, <2>7
  <2> QED
    BY <2>3, <2>5, <2>7, <2>8, <2>9
<1>7. CASE KeyFound(k, k2)
  <2> DEFINE ks == keys[Of(k)]
  <2>1. /\ In(k, "take_one_time_key", 3) /\ Onward(k, k2) /\ keys2 = keys /\ given' = given
        /\ k2.key = IF ks = {} THEN None ELSE CHOOSE x \in ks : \A j \in ks : x <= j
    BY <1>7 DEF KeyFound, Kept, keys, keys2
  <2>2. Of(k) \in UserDevices
    BY <1>1, <2>1, DevicePlace
  <2>3. ks \subseteq OneTimeKeys /\ ks \subseteq Nat
    BY <1>2, <2>2, AccountsAssumption
  <2>4. k2.key # None => k2.key \in ks
    <3> SUFFICES ASSUME ks # {} PROVE (CHOOSE x \in ks : \A j \in ks : x <= j) \in ks
      BY <2>1
    <3>1. PICK n \in ks : \A j \in ks : n <= j
      BY <2>3, LeastExists
    <3> QED
      BY <3>1
  <2>5. In(k2, "take_one_time_key", 4) /\ Of(k2) = Of(k)
    BY <2>1 DEF In, CallRow, Onward, Of
  <2> HIDE DEF ks
  <2> QED
    BY <1>2, <2>1, <2>3, <2>4, <2>5 DEF ks
<1>8. CASE KeyTaken(k, k2)
  <2>1. k2.key = None
    BY <1>8 DEF KeyTaken
  <2>2. CASE k.key = None
    <3>1. keys2 = keys /\ given' = given
      BY <1>8, <2>2 DEF KeyTaken, Kept, keys, keys2
    <3> QED
      BY <1>2, <2>1, <3>1
  <2>3. CASE k.key # None
    <3> DEFINE ud == Of(k)
               x == k.key
    <3>1. /\ ud \in UserDevices /\ x \in OneTimeKeys /\ ud \in k.devices
          /\ ud \notin mixed => x \in keys[ud]
      BY <1>4, <2>3
    <3>2. /\ keys2 = [keys EXCEPT ![ud] = keys[ud] \ {x}]
          /\ given' = [given EXCEPT ![ud][x] = given[ud][x] + 1]
      BY <1>8, <2>3 DEF KeyTaken, keys, keys2
    <3> HIDE DEF ud, x
    <3>3. /\ DOMAIN given' = UserDevices /\ \A a \in UserDevices : DOMAIN given'[a] = OneTimeKeys
          /\ given'[ud][x] = given[ud][x] + 1
          /\ \A a \in UserDevices : \A y \in OneTimeKeys : a # ud \/ y # x => given'[a][y] = given[a][y]
      BY <1>2, <3>1, <3>2, GivenAfter
    <3>4. keys2[ud] = keys[ud] \ {x} /\ \A a \in UserDevices : a # ud => keys2[a] = keys[a]
      BY <1>1, <3>1, <3>2
    <3>5. \A a \in UserDevices : keys2[a] \subseteq OneTimeKeys
      BY <1>2, <3>1, <3>4
    <3>6. ASSUME NEW a \in UserDevices \ mixed, NEW y \in OneTimeKeys
          PROVE  given'[a][y] \in 0..1 /\ (y \in keys2[a] => given'[a][y] = 0)
      <4>1. CASE a = ud /\ y = x
        <5>1. given[ud][x] = 0
          BY <1>2, <3>1, <4>1
        <5>2. given'[a][y] = 1 /\ y \notin keys2[a]
          BY <3>3, <3>4, <4>1, <5>1
        <5> QED
          BY <5>2
      <4>2. CASE ~(a = ud /\ y = x)
        <5>1. given'[a][y] = given[a][y] /\ (y \in keys2[a] => y \in keys[a])
          BY <3>3, <3>4, <4>2
        <5> QED
          BY <1>2, <5>1
      <4> QED
        BY <4>1, <4>2
    <3>7. ASSUME NEW s \in Tasks \ {t}, task[s].key # None, Of(task[s]) \notin mixed
          PROVE  task[s].key \in keys2[Of(task[s])]
      <4>1. Of(task[s]) \in UserDevices /\ Of(task[s]) \in task[s].devices
        BY <1>3, <3>7
      <4>2. Of(task[s]) # ud
        BY <1>5, <3>1, <3>7, <4>1
      <4> QED
        BY <1>2, <3>4, <3>7, <4>1, <4>2
    <3> QED
      BY <2>1, <3>3, <3>5, <3>6, <3>7
  <2> QED
    BY <2>2, <2>3
<1>9. CASE NoKey(k, k2)
  <2>1. keys2 = keys /\ given' = given /\ k2.key = None
    BY <1>4, <1>9 DEF NoKey, Kept, keys, keys2
  <2> QED
    BY <1>2, <2>1
<1> QED
  BY <1>1, <1>6, <1>7, <1>8, <1>9 DEF OneTimeEffect

-----------------------------------------------------------------------------
(* A step keeps the changes of keys announced. *)

\* A step keeps the numbers.
LEMMA EffectNumbers ==
  ASSUME BaseInv, NumbersInv, NEW t \in Tasks, Effect(t)
  PROVE  NumbersInv' /\ counter <= counter' /\ changes \subseteq changes'
<1> DEFINE k == task[t]
           k2 == task'[t]
<1>1. /\ \A s \in Tasks \ {t} : task'[s] = task[s]
      /\ Counted(k, k2) \/ Noted(k, k2) \/ KeyWritten(k, k2) \/ NoChange(k, k2)
  BY DEF Effect, ChangeEffect
<1>2. /\ counter \in Nat
      /\ \A x \in changes : x[2] \in Nat /\ x[2] <= counter
      /\ \A s \in Tasks : task[s].n \in Nat /\ task[s].n <= counter
      /\ DOMAIN fresh = Users \cup Remote
      /\ \A u \in Users \cup Remote : fresh[u] \in Nat \cup {None} /\ (fresh[u] # None => fresh[u] <= counter)
  BY DEF NumbersInv
<1>3. k.n \in Nat /\ k.n <= counter
  BY <1>2
<1> HIDE DEF k, k2
<1>4. counter' \in Nat /\ counter <= counter'
  BY <1>1, <1>2 DEF Counted, Noted, KeyWritten, NoChange
<1>5. k2.n \in Nat /\ k2.n <= counter'
  BY <1>1, <1>2, <1>3 DEF Counted, Noted, KeyWritten, NoChange
<1>6. changes' \subseteq changes \cup {<<RowNow(k)[2], k.n, RowNow(k)[3]>>} /\ changes \subseteq changes'
  BY <1>1 DEF Counted, Noted, KeyWritten, NoChange
<1>7. \A x \in changes' : x[2] \in Nat /\ x[2] <= counter'
  <2> SUFFICES ASSUME NEW x \in changes' PROVE x[2] \in Nat /\ x[2] <= counter
    BY <1>2, <1>4
  <2>1. CASE x \in changes
    BY <1>2, <2>1
  <2>2. CASE x = <<RowNow(k)[2], k.n, RowNow(k)[3]>>
    BY <1>3, <2>2
  <2> QED
    BY <1>6, <2>1, <2>2
<1>8. \A s \in Tasks : task'[s].n \in Nat /\ task'[s].n <= counter'
  <2> SUFFICES ASSUME NEW s \in Tasks PROVE task'[s].n \in Nat /\ task'[s].n <= counter'
    OBVIOUS
  <2>1. CASE s = t
    BY <1>5, <2>1 DEF k2
  <2>2. CASE s # t
    <3>1. task'[s] = task[s] /\ task[s].n \in Nat /\ task[s].n <= counter
      BY <1>1, <1>2, <2>2
    <3> QED
      BY <1>2, <1>4, <3>1
  <2> QED
    BY <2>1, <2>2
<1>9. DOMAIN fresh' = Users \cup Remote /\ \A u \in Users \cup Remote : fresh'[u] \in {fresh[u], counter}
  <2>1. CASE KeyWritten(k, k2)
    <3>1. PICK y : fresh' = [fresh EXCEPT ![y] = counter]
      BY <2>1 DEF KeyWritten
    <3> QED
      BY <1>2, <3>1
  <2>2. CASE ~KeyWritten(k, k2)
    BY <1>1, <1>2, <2>2 DEF Counted, Noted, NoChange
  <2> QED
    BY <2>1, <2>2
<1>10. \A u \in Users \cup Remote : fresh'[u] \in Nat \cup {None} /\ (fresh'[u] # None => fresh'[u] <= counter')
  BY <1>2, <1>4, <1>9
<1> QED
  BY <1>4, <1>6, <1>7, <1>8, <1>9, <1>10 DEF NumbersInv

\* A key is written: the call goes on to announce it.
LEMMA WrittenAhead ==
  ASSUME NEW k, NEW k2, TaskOK(k, tokens), k.todo # <<>>, Moves(k, k2, tokens), ChangeEffect(k, k2),
         KeyWritten(k, k2), NEW target, NEW from
  PROVE  LET u == RowNow(k)[2][1]
         IN  target \in Targets(u) => ToAnnounce(k2, target, u, from)
<1> DEFINE c == Head(k.todo)
           rows == RowsOf(c)
           u == UserOf(c)
           i == k.at
<1>1. CallOK(c, k.users, k.devices, tokens)
  BY TailOK DEF TaskOK
<1>2. Len(rows) \in Nat /\ i \in 1..Len(rows) /\ RowNow(k) = rows[i]
  BY <1>1, RowsThere DEF TaskOK, RowNow
<1> HIDE DEF rows, i
<1>3. rows[i][1] \in {"key", "sign"}
  BY <1>2 DEF KeyWritten
<1>4. KeyCall(c)
  <2>1. Placed(c, i, rows[i])
    BY <1>1, <1>2, RowPlaced DEF CallOK, rows
  <2> QED
    BY <1>3, <2>1 DEF Placed
<1>5. PICK n \in Nat :
        /\ IsSeq(rows) /\ Len(rows) > n + 1
        /\ \A j \in 1..n : KeyRow(rows[j], j, u)
        /\ MarksFrom(rows, n + 1, u)
  BY <1>1, <1>4, KeyCallRows DEF CallOK, rows
<1>6. u \in k.users
  BY <1>1, <1>4 DEF KeyCall, CallOK, UserOf, TaskOK
<1> HIDE DEF u, c
<1>7. i \in 1..n
  <2>1. i \in 1..n \/ i = n + 1 \/ i \in n + 2..Len(rows)
    BY <1>2, <1>5
  <2>2. rows[n + 1][1] = "count" /\ \A j \in n + 2..Len(rows) : rows[j][1] = "mark"
    BY <1>5 DEF MarksFrom
  <2> QED
    BY <1>3, <2>1, <2>2
<1>8. rows[i][2][1] = u
  BY <1>3, <1>5, <1>7 DEF KeyRow
<1>9. Onward(k, k2)
  <2>1. i # Len(rows)
    BY <1>2, <1>5, <1>7
  <2> QED
    BY <1>2, <1>3, <2>1 DEF ChangeEffect, rows, c, i
<1>10. k2.todo = k.todo /\ k2.at = i + 1 /\ k2.users = k.users
  BY <1>9 DEF Onward, Moves, Same, i
<1>11. ASSUME target \in Targets(u) PROVE ToAnnounce(k2, target, u, from)
  <2>1. \E j \in n + 2..Len(rows) : rows[j] = <<"mark", target, u>>
    <3>1. target = u \/ (target = Room /\ u \in InRoom)
      BY <1>11 DEF Targets
    <3> QED
      BY <1>5, <3>1 DEF MarksFrom
  <2>2. PICK j \in n + 2..Len(rows) : rows[j] = <<"mark", target, u>>
    BY <2>1
  <2>3. j \in i + 1..Len(rows) /\ n + 1 \in i + 1..j
    BY <1>2, <1>5, <1>7, <2>2
  <2>4. rows[n + 1][1] = "count"
    BY <1>5 DEF MarksFrom
  <2>5. ASSUME NEW l \in i + 1..j PROVE rows[l][1] \in {"key", "sign", "set", "count", "mark"}
    <3>1. l \in 2..n \/ l = n + 1 \/ l \in n + 2..Len(rows)
      BY <1>2, <1>5, <1>7, <2>2, <2>5
    <3>2. CASE l \in 2..n
      BY <1>5, <3>2 DEF KeyRow
    <3>3. CASE l = n + 1
      BY <2>4, <3>3
    <3>4. CASE l \in n + 2..Len(rows)
      BY <1>5, <3>4 DEF MarksFrom
    <3> QED
      BY <3>1, <3>2, <3>3, <3>4
  <2>6. Ahead(rows, i + 1, k2.n, target, u, from)
    BY <2>2, <2>3, <2>4, <2>5 DEF Ahead
  <2> QED
    BY <1>6, <1>10, <2>6 DEF ToAnnounce, rows, c
<1> QED
  BY <1>2, <1>8, <1>11 DEF rows, c, u, i

\* What is ahead is announced, or still ahead.
LEMMA StaysAhead ==
  ASSUME BaseInv, NumbersInv, NEW t \in Tasks, Effect(t), NEW target, NEW u, NEW from \in Nat,
         from <= counter, ToAnnounce(task[t], target, u, from)
  PROVE  Announced(changes', target, u, from) \/ ToAnnounce(task'[t], target, u, from)
<1> DEFINE k == task[t]
           k2 == task'[t]
           rows == RowsOf(Head(k.todo))
           i == k.at
<1>1. /\ TaskOK(k, tokens) /\ k.todo # <<>> /\ Moves(k, k2, tokens) /\ ChangeEffect(k, k2)
      /\ k.n \in Nat /\ counter \in Nat
  BY DEF Effect, BaseInv, NumbersInv
<1>2. Len(rows) \in Nat /\ i \in 1..Len(rows) /\ RowNow(k) = rows[i]
  <2>1. CallOK(Head(k.todo), k.users, k.devices, tokens)
    BY <1>1, TailOK DEF TaskOK
  <2> QED
    BY <1>1, <2>1, RowsThere DEF TaskOK, RowNow
<1>3. u \in k.users /\ Ahead(rows, i, k.n, target, u, from)
  BY DEF ToAnnounce
<1> HIDE DEF k, k2, rows, i
<1>4. PICK j \in i..Len(rows) :
        /\ rows[j] = <<"mark", target, u>>
        /\ \A l \in i..j : rows[l][1] \in {"key", "sign", "set", "count", "mark"}
        /\ from < k.n \/ \E l \in i..j : rows[l][1] = "count"
  BY <1>3 DEF Ahead
<1>5. CASE j = i
  <2>1. rows[i] = <<"mark", target, u>>
    BY <1>4, <1>5
  <2>2. Noted(k, k2)
    BY <1>1, <1>2, <2>1 DEF ChangeEffect, Counted, KeyWritten, NoChange
  <2>3. from < k.n
    <3>1. \A l \in i..j : l = i
      BY <1>2, <1>5
    <3> QED
      BY <1>4, <2>1, <3>1
  <2>4. <<target, k.n, u>> \in changes'
    BY <1>2, <2>1, <2>2 DEF Noted
  <2> QED
    BY <2>3, <2>4 DEF Announced
<1>6. CASE j # i
  <2>1. i \in i..j /\ i # Len(rows) /\ j \in i + 1..Len(rows) /\ \A l \in i + 1..j : l \in i..j
    BY <1>2, <1>4, <1>6
  <2>2. rows[i][1] \in {"key", "sign", "set", "count", "mark"}
    BY <1>4, <2>1
  <2>3. Onward(k, k2)
    BY <1>1, <1>2, <2>1, <2>2 DEF ChangeEffect, rows, i
  <2>4. k2.todo = k.todo /\ k2.at = i + 1 /\ k2.users = k.users
    BY <1>1, <2>3 DEF Onward, Moves, Same, i
  <2>5. from < k2.n \/ \E l \in i + 1..j : rows[l][1] = "count"
    <3>1. CASE Counted(k, k2)
      BY <1>1, <3>1 DEF Counted
    <3>2. CASE ~Counted(k, k2)
      <4>1. k2.n = k.n /\ rows[i][1] # "count"
        BY <1>1, <1>2, <3>2 DEF ChangeEffect, Noted, KeyWritten, NoChange
      <4>2. \A l \in i..j : l = i \/ l \in i + 1..j
        BY <1>2, <1>4
      <4> QED
        BY <1>4, <4>1, <4>2
    <3> QED
      BY <3>1, <3>2
  <2>6. Ahead(rows, i + 1, k2.n, target, u, from)
    BY <1>4, <2>1, <2>5 DEF Ahead
  <2>7. ToAnnounce(k2, target, u, from)
    BY <1>1, <1>3, <2>4, <2>6 DEF ToAnnounce, rows
  <2> QED
    BY <2>7 DEF k2
<1> QED
  BY <1>5, <1>6

\* A step keeps changes announced, or about to be.
LEMMA EffectAnnounce ==
  ASSUME BaseInv, NumbersInv, AnnounceInv, NEW t \in Tasks, Effect(t)
  PROVE  AnnounceInv'
<1> DEFINE k == task[t]
           k2 == task'[t]
<1>1. /\ \A s \in Tasks \ {t} : task'[s] = task[s]
      /\ TaskOK(k, tokens) /\ k.todo # <<>> /\ Moves(k, k2, tokens) /\ ChangeEffect(k, k2)
      /\ UNCHANGED torn
  BY DEF Effect, BaseInv
<1>2. changes \subseteq changes'
  BY EffectNumbers
<1> SUFFICES ASSUME NEW u \in (Users \cup Remote) \ torn, fresh'[u] # None, NEW target \in Targets(u)
             PROVE  \/ Announced(changes', target, u, fresh'[u])
                    \/ \E s \in Tasks : ToAnnounce(task'[s], target, u, fresh'[u])
  BY <1>1 DEF AnnounceInv
<1>3. CASE KeyWritten(k, k2) /\ RowNow(k)[2][1] = u
  <2>1. ToAnnounce(k2, target, u, fresh'[u])
    BY <1>1, <1>3, WrittenAhead
  <2> QED
    BY <2>1
<1>4. CASE ~(KeyWritten(k, k2) /\ RowNow(k)[2][1] = u)
  <2>1. fresh'[u] = fresh[u]
    <3>1. CASE KeyWritten(k, k2)
      <4>1. fresh' = [fresh EXCEPT ![RowNow(k)[2][1]] = counter] /\ RowNow(k)[2][1] # u
        BY <1>4, <3>1 DEF KeyWritten
      <4>2. u \in DOMAIN fresh
        BY DEF NumbersInv
      <4> HIDE DEF k
      <4> QED
        BY <4>1, <4>2
    <3>2. CASE ~KeyWritten(k, k2)
      BY <1>1, <3>2 DEF ChangeEffect, Counted, Noted, NoChange
    <3> QED
      BY <3>1, <3>2
  <2>2. \/ Announced(changes, target, u, fresh[u])
        \/ \E s \in Tasks : ToAnnounce(task[s], target, u, fresh[u])
    BY <2>1 DEF AnnounceInv
  <2>3. CASE Announced(changes, target, u, fresh[u])
    BY <1>2, <2>1, <2>3 DEF Announced
  <2>4. CASE \E s \in Tasks : ToAnnounce(task[s], target, u, fresh[u])
    <3>1. PICK s \in Tasks : ToAnnounce(task[s], target, u, fresh[u])
      BY <2>4
    <3>2. CASE s # t
      <4>1. task'[s] = task[s]
        BY <1>1, <3>2
      <4> QED
        BY <2>1, <3>1, <4>1
    <3>3. CASE s = t
      <4>1. fresh[u] \in Nat /\ fresh[u] <= counter
        BY <2>1 DEF NumbersInv
      <4>2. Announced(changes', target, u, fresh[u]) \/ ToAnnounce(task'[t], target, u, fresh[u])
        BY <3>1, <3>3, <4>1, StaysAhead
      <4> QED
        BY <2>1, <4>2 DEF Announced
    <3> QED
      BY <3>2, <3>3
  <2> QED
    BY <2>2, <2>3, <2>4
<1> QED
  BY <1>3, <1>4

-----------------------------------------------------------------------------
(* Requests that begin and end, and crashes. *)

\* A request at its start, or none.
AtStart(k) == k.at = 1 /\ k.old = None /\ k.key = None /\ k.n = 0

\* The trees stay, and so does every task, or it begins anew; what it had left
\* is nothing, or its users are torn.
Steady ==
  /\ UNCHANGED <<db, changes, counter, fresh, given>>
  /\ mixed \subseteq mixed' /\ torn \subseteq torn'
  /\ tokens' \in Nat /\ tokens <= tokens' /\ tokens' <= MaxOps + Cardinality(Registered)
  /\ DOMAIN task' = Tasks
  /\ \A t \in Tasks : TaskOK(task'[t], tokens')
  /\ \A s, t \in Tasks : s # t => task'[s].devices \cap task'[t].devices \subseteq mixed'
  /\ \A t \in Tasks :
       \/ task'[t] = task[t]
       \/ /\ AtStart(task'[t]) /\ TokensOf(task'[t].todo) \subseteq {tokens + 1}
          /\ task[t].todo = <<>> \/ task[t].users \subseteq torn'
  /\ \A s, t \in Tasks : s # t /\ task'[s] # task[s] /\ task'[t] # task[t] => TokensOf(task'[s].todo) = {}

\* Types.
LEMMA SteadyBase ==
  ASSUME BaseInv, Steady
  PROVE  BaseInv'
<1>1. \A ud \in UserDevices : db'["token"][ud] \in (1..tokens') \cup {None}
  BY DEF BaseInv, Steady
<1>2. \A x \in Tokens : db'["device"][x] \in UserDevices \cup {None}
  BY DEF BaseInv, Steady
<1>3. /\ DOMAIN db' = Trees
      /\ \A tree \in {"metadata", "token", "onetimekeys"} : DOMAIN db'[tree] = UserDevices
      /\ DOMAIN db'["device"] = Tokens
  BY DEF BaseInv, Steady
<1> QED
  BY <1>1, <1>2, <1>3 DEF BaseInv, Steady

\* Tokens: the one that a new request makes is new.
LEMMA SteadyFresh ==
  ASSUME BaseInv, FreshInv, Steady
  PROVE  FreshInv'
<1>1. /\ tokens \in Nat /\ \A s \in Tasks : TaskOK(task[s], tokens)
      /\ \A ud \in UserDevices : db["token"][ud] \in (1..tokens) \cup {None}
      /\ db' = db
  BY DEF BaseInv, Steady
<1>2. tokens + 1 \notin (1..tokens) \cup {None} /\ \A y \in 1..tokens : y # None
  <2>1. tokens + 1 \in 1..(tokens + 1) /\ tokens + 1 \in Nat /\ tokens + 1 \notin 1..tokens
    BY <1>1
  <2> QED
    BY <1>1, <2>1, NoneApart
<1>3. \A s \in Tasks : TokensOf(task[s].todo) \subseteq 1..tokens
  BY <1>1, TokensMade DEF TaskOK
<1>4. \A s \in Tasks : task[s].old \in (1..tokens) \cup {None}
  BY <1>1 DEF TaskOK
<1>5. \A s \in Tasks : \/ task'[s] = task[s]
                       \/ task'[s].old = None /\ TokensOf(task'[s].todo) \subseteq {tokens + 1}
  BY DEF Steady, AtStart
<1>6. \A r, s \in Tasks : r # s /\ task'[r] # task[r] /\ task'[s] # task[s] => TokensOf(task'[r].todo) = {}
  BY DEF Steady
<1> SUFFICES ASSUME NEW s \in Tasks, NEW y \in TokensOf(task'[s].todo)
             PROVE  /\ \A r \in Tasks \ {s} : y \notin TokensOf(task'[r].todo)
                    /\ \/ InToken(task'[s], 5)
                       \/ /\ \A ud \in UserDevices : db'["token"][ud] # y
                          /\ \A r \in Tasks : task'[r].old # y
  BY DEF FreshInv
<1>7. CASE task'[s] = task[s]
  <2>1. /\ y \in 1..tokens
        /\ \A r \in Tasks \ {s} : y \notin TokensOf(task[r].todo)
        /\ \/ InToken(task[s], 5)
           \/ /\ \A ud \in UserDevices : db["token"][ud] # y
              /\ \A r \in Tasks : task[r].old # y
    BY <1>3, <1>7 DEF FreshInv
  <2>2. \A r \in Tasks \ {s} : y \notin TokensOf(task'[r].todo)
    BY <1>2, <1>5, <2>1
  <2>3. (\A r \in Tasks : task[r].old # y) => \A r \in Tasks : task'[r].old # y
    BY <1>2, <1>5, <2>1
  <2> QED
    BY <1>1, <1>7, <2>1, <2>2, <2>3
<1>8. CASE task'[s] # task[s]
  <2>1. y = tokens + 1
    BY <1>5, <1>8
  <2>2. \A r \in Tasks \ {s} : y \notin TokensOf(task'[r].todo)
    <3> SUFFICES ASSUME NEW r \in Tasks \ {s} PROVE y \notin TokensOf(task'[r].todo)
      OBVIOUS
    <3>1. CASE task'[r] = task[r]
      BY <1>2, <1>3, <2>1, <3>1
    <3>2. CASE task'[r] # task[r]
      BY <1>6, <1>8, <3>2
    <3> QED
      BY <3>1, <3>2
  <2>3. \A ud \in UserDevices : db'["token"][ud] # y
    BY <1>1, <1>2, <2>1
  <2>4. \A r \in Tasks : task'[r].old # y
    BY <1>2, <1>4, <1>5, <2>1
  <2> QED
    BY <2>2, <2>3, <2>4
<1> QED
  BY <1>7, <1>8

\* Owners, and tokens that work.
LEMMA SteadyWorks ==
  ASSUME BaseInv, OwnInv, WorksInv, Steady
  PROVE  OwnInv' /\ WorksInv'
<1>1. db' = db /\ torn \subseteq torn' /\ \A s \in Tasks : TaskOK(task[s], tokens)
  BY DEF BaseInv, Steady
<1>2. \A s \in Tasks : \/ task'[s] = task[s]
                       \/ /\ task'[s].old = None /\ ~InToken(task'[s], 5)
                          /\ task[s].todo = <<>> \/ task[s].users \subseteq torn'
  <2>1. \A s \in Tasks : task'[s].at = 1 => ~InToken(task'[s], 5)
    BY StartRow
  <2> QED
    BY <2>1 DEF Steady, AtStart
<1>3. ASSUME NEW s \in Tasks
      PROVE  /\ task'[s].old # None => \/ InToken(task'[s], 3) \/ In(task'[s], "remove_device", 2)
                                       \/ In(task'[s], "remove_device", 3)
             /\ \A ud \in UserDevices :
                  /\ InToken(task'[s], 5) /\ db'["token"][ud] = TokenOf(task'[s]) => ud = Of(task'[s])
                  /\ task'[s].old # None /\ db'["token"][ud] = task'[s].old
                       => ud = Of(task'[s]) /\ ~In(task'[s], "remove_device", 3)
  <2>1. CASE task'[s] = task[s]
    BY <1>1, <2>1 DEF OwnInv
  <2>2. CASE task'[s] # task[s]
    BY <1>2, <2>2
  <2> QED
    BY <2>1, <2>2
<1>4. OwnInv'
  <2>1. \A a, b \in UserDevices : db'["token"][a] # None /\ db'["token"][a] = db'["token"][b] => a = b
    BY <1>1 DEF OwnInv
  <2> QED
    BY <1>3, <2>1 DEF OwnInv
<1>5. ASSUME NEW ud \in UserDevices, ud[1] \notin torn', db["token"][ud] # None
      PROVE  \/ db["device"][db["token"][ud]] = ud
             \/ \E s \in Tasks : InToken(task'[s], 4) /\ Of(task'[s]) = ud
             \/ \E s \in Tasks : InToken(task'[s], 5) /\ Of(task'[s]) = ud
                                 /\ TokenOf(task'[s]) = db["token"][ud]
  <2>1. ASSUME NEW s \in Tasks, InToken(task[s], 4) \/ InToken(task[s], 5), Of(task[s]) = ud
        PROVE  task'[s] = task[s]
    <3>1. task[s].todo # <<>> /\ ud[1] \in task[s].users
      BY <1>1, <2>1, TokenPlace DEF InToken
    <3> QED
      BY <1>2, <1>5, <3>1
  <2>2. \/ db["device"][db["token"][ud]] = ud
        \/ \E s \in Tasks : InToken(task[s], 4) /\ Of(task[s]) = ud
        \/ \E s \in Tasks : InToken(task[s], 5) /\ Of(task[s]) = ud /\ TokenOf(task[s]) = db["token"][ud]
    BY <1>1, <1>5 DEF WorksInv
  <2> QED
    BY <2>1, <2>2
<1>6. WorksInv'
  BY <1>1, <1>5 DEF WorksInv
<1> QED
  BY <1>4, <1>6

\* Devices and tokens agree.
LEMMA SteadyAgree ==
  ASSUME BaseInv, AgreeInv, Steady
  PROVE  AgreeInv'
<1>1. /\ db' = db /\ torn \subseteq torn' /\ mixed \subseteq mixed'
      /\ \A s \in Tasks : TaskOK(task[s], tokens)
  BY DEF BaseInv, Steady
<1>2. \A s \in Tasks : \/ task'[s] = task[s]
                       \/ /\ ~Halfway(task'[s]) /\ ~Updating(task'[s])
                          /\ task[s].todo = <<>> \/ task[s].users \subseteq torn'
  <2>1. \A s \in Tasks : task'[s].at = 1 => ~Halfway(task'[s]) /\ ~Updating(task'[s])
    BY StartRow
  <2> QED
    BY <2>1 DEF Steady, AtStart
<1> SUFFICES ASSUME NEW ud \in UserDevices \ mixed', ud[1] \notin torn' PROVE AgreeFor(ud)'
  BY DEF AgreeInv
<1>3. AgreeFor(ud)
  BY <1>1 DEF AgreeInv
<1>4. Agree(ud)' <=> Agree(ud)
  BY <1>1 DEF Agree, Own
<1>5. \A s \in Tasks : task'[s] = task[s] => (FitsTask(s, ud)' <=> FitsTask(s, ud))
  BY <1>1 DEF FitsTask, Own
<1>6. ASSUME \A s \in Tasks : Halfway(task'[s]) => Of(task'[s]) # ud PROVE Agree(ud)'
  <2>1. ASSUME NEW s \in Tasks, Halfway(task[s]), Of(task[s]) = ud PROVE FALSE
    <3>1. Working(task[s])
      BY <2>1, HalfwayWorks
    <3>2. task[s].todo # <<>> /\ ud[1] \in task[s].users
      BY <1>1, <2>1, <3>1, DeviceOf DEF Working
    <3>3. task'[s] = task[s]
      BY <1>2, <3>2
    <3> QED
      BY <1>6, <2>1, <3>3
  <2> QED
    BY <1>3, <1>4, <2>1 DEF AgreeFor
<1>7. ASSUME NEW s \in Tasks, Halfway(task'[s]) \/ Updating(task'[s]), Of(task'[s]) = ud
      PROVE  FitsTask(s, ud)'
  <2>1. task'[s] = task[s]
    BY <1>2, <1>7
  <2> QED
    BY <1>3, <1>5, <1>7, <2>1 DEF AgreeFor
<1> QED
  BY <1>6, <1>7 DEF AgreeFor

\* One-time keys, and changes of keys.
LEMMA SteadyKeys ==
  ASSUME BaseInv, OneTimeInv, NumbersInv, AnnounceInv, Steady
  PROVE  OneTimeInv' /\ NumbersInv' /\ AnnounceInv'
<1>1. /\ UNCHANGED <<db, changes, counter, fresh, given>>
      /\ torn \subseteq torn' /\ mixed \subseteq mixed'
  BY DEF Steady
<1>2. \A s \in Tasks : \/ task'[s] = task[s]
                       \/ /\ task'[s].key = None /\ task'[s].n = 0
                          /\ task[s].todo = <<>> \/ task[s].users \subseteq torn'
  BY DEF Steady, AtStart
<1>3. OneTimeInv'
  <2>1. ASSUME NEW s \in Tasks, task'[s].key # None
        PROVE  /\ In(task'[s], "take_one_time_key", 4)
               /\ task'[s].key \in OneTimeKeys
               /\ Of(task'[s]) \notin mixed' => task'[s].key \in db'["onetimekeys"][Of(task'[s])]
    <3>1. task'[s] = task[s]
      BY <1>2, <2>1
    <3> QED
      BY <1>1, <2>1, <3>1 DEF OneTimeInv
  <2>2. \A ud \in UserDevices \ mixed' : \A x \in OneTimeKeys :
          given'[ud][x] \in 0..1 /\ (x \in db'["onetimekeys"][ud] => given'[ud][x] = 0)
    BY <1>1 DEF OneTimeInv
  <2>3. /\ \A ud \in UserDevices : db'["onetimekeys"][ud] \subseteq OneTimeKeys
        /\ DOMAIN given' = UserDevices /\ \A ud \in UserDevices : DOMAIN given'[ud] = OneTimeKeys
    BY <1>1 DEF OneTimeInv
  <2> QED
    BY <2>1, <2>2, <2>3 DEF OneTimeInv
<1>4. NumbersInv'
  <2>1. \A s \in Tasks : task'[s].n \in Nat /\ task'[s].n <= counter
    BY <1>2 DEF NumbersInv
  <2> QED
    BY <1>1, <2>1 DEF NumbersInv
<1>5. AnnounceInv'
  <2> SUFFICES ASSUME NEW u \in (Users \cup Remote) \ torn', fresh'[u] # None, NEW target \in Targets(u)
               PROVE  \/ Announced(changes', target, u, fresh'[u])
                      \/ \E s \in Tasks : ToAnnounce(task'[s], target, u, fresh'[u])
    BY DEF AnnounceInv
  <2>1. \/ Announced(changes, target, u, fresh[u])
        \/ \E s \in Tasks : ToAnnounce(task[s], target, u, fresh[u])
    BY <1>1 DEF AnnounceInv
  <2>2. ASSUME NEW s \in Tasks, ToAnnounce(task[s], target, u, fresh[u]) PROVE task'[s] = task[s]
    BY <1>2, <2>2 DEF ToAnnounce
  <2> QED
    BY <1>1, <2>1, <2>2
<1> QED
  BY <1>3, <1>4, <1>5

\* All of it.
LEMMA SteadyKeeps ==
  ASSUME IInv, Steady
  PROVE  IInv'
  BY SteadyBase, SteadyFresh, SteadyWorks, SteadyAgree, SteadyKeys DEF IInv

\* More tokens are made.
LEMMA MoreTokens ==
  ASSUME NEW k, NEW m \in Nat, NEW n \in Nat, m <= n, TaskOK(k, m)
  PROVE  TaskOK(k, n)
<1>1. \A x \in 1..m : x \in 1..n
  OBVIOUS
<1>2. \A c : CallOK(c, k.users, k.devices, m) => CallOK(c, k.users, k.devices, n)
  BY <1>1 DEF CallOK
<1>3. TodoOK(k.todo, k.users, k.devices, n)
  BY <1>2 DEF TaskOK, TodoOK
<1>4. k.old \in (1..n) \cup {None}
  BY <1>1 DEF TaskOK
<1> QED
  BY <1>3, <1>4 DEF TaskOK

\* The record of a new request.
NewRequest(us, p, ds) == [Idle EXCEPT !.run = TRUE, !.users = us, !.todo = p, !.devices = ds]

\* It is as it should be.
LEMMA NewTask ==
  ASSUME NEW us, NEW p, NEW ds, us \subseteq Users \cup Remote, ds \subseteq UserDevices,
         \A ud \in ds : ud[1] \in us, NEW made, TodoOK(p, us, ds, made), OneTok(p)
  PROVE  LET k == NewRequest(us, p, ds)
         IN  TaskOK(k, made) /\ AtStart(k) /\ k.todo = p /\ k.devices = ds
<1> DEFINE k == NewRequest(us, p, ds)
<1>1. /\ DOMAIN k = Fields /\ k.run = TRUE /\ k.users = us /\ k.todo = p /\ k.devices = ds
      /\ k.at = 1 /\ k.old = None /\ k.key = None /\ k.n = 0
  BY DEF Idle, Fields, NewRequest
<1> HIDE DEF k
<1>2. p # <<>> => 1 \in 1..Len(RowsOf(Head(p)))
  <2> SUFFICES ASSUME p # <<>> PROVE 1 \in 1..Len(RowsOf(Head(p)))
    OBVIOUS
  <2>1. CallOK(Head(p), us, ds, made)
    BY TailOK
  <2>2. Len(RowsOf(Head(p))) \in Nat /\ Len(RowsOf(Head(p))) >= 1
    BY <2>1, RowsThere
  <2> QED
    BY <2>2
<1>3. TaskOK(k, made)
  BY <1>1, <1>2 DEF TaskOK
<1> QED
  BY <1>1, <1>3 DEF AtStart, k

\* A request begins.
LEMMA BeginSteady ==
  ASSUME BaseInv, NEW t \in Tasks, NEW us, NEW p, NEW ds, Begin(t, us, p, ds),
         us \subseteq Users \cup Remote, ds \subseteq UserDevices, \A ud \in ds : ud[1] \in us,
         NEW made \in Nat, tokens' = made, tokens <= made, made <= MaxOps + Cardinality(Registered),
         TodoOK(p, us, ds, made), OneTok(p), TokensOf(p) \subseteq {tokens + 1}
  PROVE  Steady
<1> DEFINE k == NewRequest(us, p, ds)
<1>1. /\ ~task[t].run /\ task' = [task EXCEPT ![t] = k]
      /\ mixed' = mixed \cup UNION {ds \cap task[s].devices : s \in Tasks \ {t}}
      /\ UNCHANGED <<db, changes, counter, fresh, given, torn>>
  BY DEF Begin, Running, NewRequest
<1>2. TaskOK(k, made) /\ AtStart(k) /\ k.todo = p /\ k.devices = ds
  <2>1. TaskOK(k, made) /\ AtStart(k)
    BY NewTask
  <2>2. k.todo = p /\ k.devices = ds
    BY NewTask
  <2> QED
    BY <2>1, <2>2
<1> HIDE DEF k
<1>3. /\ tokens \in Nat /\ DOMAIN task = Tasks /\ \A s \in Tasks : TaskOK(task[s], tokens)
      /\ \A r, s \in Tasks : r # s => task[r].devices \cap task[s].devices \subseteq mixed
  BY DEF BaseInv
<1>4. DOMAIN task' = Tasks /\ task'[t] = k /\ \A s \in Tasks \ {t} : task'[s] = task[s]
  BY <1>1, <1>3
<1>5. task[t].todo = <<>>
  BY <1>1, <1>3 DEF TaskOK
<1>6. \A s \in Tasks : TaskOK(task'[s], made)
  <2> SUFFICES ASSUME NEW s \in Tasks PROVE TaskOK(task'[s], made)
    OBVIOUS
  <2>1. CASE s = t
    BY <1>2, <1>4, <2>1
  <2>2. CASE s # t
    BY <1>3, <1>4, <2>2, MoreTokens
  <2> QED
    BY <2>1, <2>2
<1>7. ASSUME NEW r \in Tasks, NEW s \in Tasks, r # s
      PROVE  task'[r].devices \cap task'[s].devices \subseteq mixed'
  <2>1. \A q \in Tasks \ {t} : ds \cap task[q].devices \subseteq mixed'
    BY <1>1
  <2>2. CASE r = t
    BY <1>2, <1>4, <1>7, <2>1, <2>2
  <2>3. CASE s = t
    BY <1>2, <1>4, <1>7, <2>1, <2>3
  <2>4. CASE r # t /\ s # t
    BY <1>1, <1>3, <1>4, <1>7, <2>4
  <2> QED
    BY <2>2, <2>3, <2>4
<1>8. \A s \in Tasks : \/ task'[s] = task[s]
                       \/ /\ AtStart(task'[s]) /\ TokensOf(task'[s].todo) \subseteq {tokens + 1}
                          /\ task[s].todo = <<>>
  BY <1>2, <1>4, <1>5
<1>9. \A r, s \in Tasks : r # s /\ task'[r] # task[r] /\ task'[s] # task[s] => TokensOf(task'[r].todo) = {}
  BY <1>4
<1>10. mixed \subseteq mixed' /\ torn \subseteq torn' /\ UNCHANGED <<db, changes, counter, fresh, given>>
  BY <1>1
<1> QED
  BY <1>4, <1>6, <1>7, <1>8, <1>9, <1>10 DEF Steady

\* A request begins that makes no token.
LEMMA PlainSteady ==
  ASSUME BaseInv, NEW t \in Tasks, NEW us, NEW p, NEW ds, BeginPlain(t, us, p, ds),
         us \subseteq Users \cup Remote, ds \subseteq UserDevices, \A ud \in ds : ud[1] \in us,
         TodoOK(p, us, ds, tokens), Tokless(p)
  PROVE  Steady
<1>1. Begin(t, us, p, ds) /\ tokens' = tokens
  BY DEF BeginPlain
<1>2. TokensOf(p) = {} /\ OneTok(p)
  BY ToklessTokens
<1>3. tokens \in Nat /\ tokens <= MaxOps + Cardinality(Registered)
  BY DEF BaseInv
<1> QED
  BY <1>1, <1>2, <1>3, BeginSteady

\* Access tokens lead to devices of users.
LEMMA AuthenticatedIsDevice ==
  ASSUME BaseInv, NEW ud \in Authenticated
  PROVE  ud \in UserDevices
  BY DEF BaseInv, Authenticated, FindFromToken

\* A device is a pair of a user and a name.
LEMMA DeviceIsPair ==
  ASSUME NEW ud \in UserDevices
  PROVE  ud[1] \in Users /\ ud[2] \in Devices /\ ud = <<ud[1], ud[2]>>
  BY DEF UserDevices

\* All devices of users.
LEMMA AllDevices ==
  ASSUME NEW us \in SUBSET Users
  PROVE  /\ us \X Devices \subseteq UserDevices
         /\ \A ud \in us \X Devices : ud[1] \in us
         /\ \A u \in us, d \in Devices : <<u, d>> \in us \X Devices
  BY DEF UserDevices

\* Two or three calls, none of which makes a token.
LEMMA CallOf ==
  ASSUME NEW c, NEW us, NEW ds, NEW made, TodoOK(<<c>>, us, ds, made), Tokless(<<c>>)
  PROVE  CallOK(c, us, ds, made) /\ ~Tok(c)
<1> DEFINE p == <<c>>
<1>1. Len(p) = 1 /\ p[1] = c
  BY SingleIsSeq
<1>2. TodoOK(p, us, ds, made) /\ Tokless(p)
  OBVIOUS
<1> HIDE DEF p
<1>3. 1 \in 1..Len(p)
  BY <1>1
<1> QED
  BY <1>1, <1>2, <1>3 DEF TodoOK, Tokless

\* Two.
LEMMA PairOK ==
  ASSUME NEW a, NEW b, NEW us, NEW ds, NEW made,
         TodoOK(<<a>>, us, ds, made), Tokless(<<a>>), TodoOK(<<b>>, us, ds, made), Tokless(<<b>>)
  PROVE  TodoOK(<<a, b>>, us, ds, made) /\ Tokless(<<a, b>>)
<1> DEFINE p == <<a, b>>
<1>1. IsSeq(p) /\ Len(p) = 2 /\ p[1] = a /\ p[2] = b
  BY PairIsSeq, Zenon
<1>2. CallOK(a, us, ds, made) /\ ~Tok(a) /\ CallOK(b, us, ds, made) /\ ~Tok(b)
  BY CallOf
<1> HIDE DEF p
<1>3. \A i \in 1..Len(p) : p[i] = a \/ p[i] = b
  BY <1>1
<1>4. TodoOK(p, us, ds, made) /\ Tokless(p)
  BY <1>1, <1>2, <1>3 DEF TodoOK, Tokless
<1> QED
  BY <1>4 DEF p

\* Three.
LEMMA TripleOK ==
  ASSUME NEW a, NEW b, NEW c, NEW us, NEW ds, NEW made,
         TodoOK(<<a>>, us, ds, made), Tokless(<<a>>), TodoOK(<<b>>, us, ds, made), Tokless(<<b>>),
         TodoOK(<<c>>, us, ds, made), Tokless(<<c>>)
  PROVE  TodoOK(<<a, b, c>>, us, ds, made) /\ Tokless(<<a, b, c>>)
<1> DEFINE p == <<a, b, c>>
<1>1. IsSeq(p) /\ Len(p) = 3 /\ p[1] = a /\ p[2] = b /\ p[3] = c
  BY TripleIsSeq, Zenon
<1>2. /\ CallOK(a, us, ds, made) /\ ~Tok(a) /\ CallOK(b, us, ds, made) /\ ~Tok(b)
      /\ CallOK(c, us, ds, made) /\ ~Tok(c)
  BY CallOf
<1> HIDE DEF p
<1>3. \A i \in 1..Len(p) : p[i] = a \/ p[i] = b \/ p[i] = c
  BY <1>1
<1>4. TodoOK(p, us, ds, made) /\ Tokless(p)
  BY <1>1, <1>2, <1>3 DEF TodoOK, Tokless
<1> QED
  BY <1>4 DEF p

\* The rows of interactive authentication and of accounts.
LEMMA AccountOK ==
  ASSUME NEW us, NEW ds, NEW made
  PROVE  /\ \A ud : TodoOK(TryAuth(ud), us, ds, made) /\ Tokless(TryAuth(ud))
         /\ \A u, hash : TodoOK(SetPassword(u, hash), us, ds, made) /\ Tokless(SetPassword(u, hash))
         /\ \A u, hash : TodoOK(CreateUser(u, hash), us, ds, made) /\ Tokless(CreateUser(u, hash))
<1>1. \A ud : TodoOK(TryAuth(ud), us, ds, made) /\ Tokless(TryAuth(ud))
  BY SetOK DEF TryAuth
<1>2. \A u, hash : TodoOK(SetPassword(u, hash), us, ds, made) /\ Tokless(SetPassword(u, hash))
  BY SetOK DEF SetPassword
<1>3. ASSUME NEW u, NEW hash
      PROVE  TodoOK(CreateUser(u, hash), us, ds, made) /\ Tokless(CreateUser(u, hash))
  <2> DEFINE a == Set("password", u, hash)
             b == Set("profile", u, "name")
             c == Set("pushrules", u, "default")
  <2>1. /\ TodoOK(<<a>>, us, ds, made) /\ Tokless(<<a>>)
        /\ TodoOK(<<b>>, us, ds, made) /\ Tokless(<<b>>)
        /\ TodoOK(<<c>>, us, ds, made) /\ Tokless(<<c>>)
    BY SetOK
  <2>2. CreateUser(u, hash) = <<a, b, c>>
    BY DEF CreateUser
  <2> HIDE DEF a, b, c
  <2> QED
    BY <2>1, <2>2, TripleOK
<1> QED
  BY <1>1, <1>2, <1>3

\* Sessions of interactive authentication.
LEMMA UiaaSteady ==
  ASSUME BaseInv, NEW t \in Tasks, UiaaCreate(t) \/ TryAuthIncomplete(t)
  PROVE  Steady
<1>1. CASE UiaaCreate(t)
  <2>1. PICK ud : BeginPlain(t, {}, << <<"request", ud>>, Set("sessions", ud, "session")>>, {})
    BY <1>1 DEF UiaaCreate
  <2> DEFINE a == <<"request", ud>>
             b == Set("sessions", ud, "session")
  <2>2. a[1] = "request"
    OBVIOUS
  <2>3. TodoOK(<<b>>, {}, {}, tokens) /\ Tokless(<<b>>)
    BY SetOK
  <2> HIDE DEF a, b
  <2>4. TodoOK(<<a>>, {}, {}, tokens) /\ Tokless(<<a>>)
    BY <2>2, PlainOK
  <2>5. TodoOK(<<a, b>>, {}, {}, tokens) /\ Tokless(<<a, b>>)
    BY <2>3, <2>4, PairOK
  <2>6. BeginPlain(t, {}, <<a, b>>, {})
    BY <2>1 DEF a, b
  <2> QED
    BY <2>5, <2>6, PlainSteady
<1>2. CASE TryAuthIncomplete(t)
  <2>1. PICK ud : BeginPlain(t, {}, <<Set("sessions", ud, "session")>>, {})
    BY <1>2 DEF TryAuthIncomplete
  <2> DEFINE p == <<Set("sessions", ud, "session")>>
  <2>2. TodoOK(p, {}, {}, tokens) /\ Tokless(p)
    BY SetOK
  <2> HIDE DEF p
  <2>3. BeginPlain(t, {}, p, {})
    BY <2>1 DEF p
  <2> QED
    BY <2>2, <2>3, PlainSteady
<1> QED
  BY <1>1, <1>2

\* A request with one token or none, of one user.
LEMMA OneSteady ==
  ASSUME BaseInv, NEW t \in Tasks, NEW u \in Users, NEW d \in Devices, NEW p,
         tokens + 1 \in Tokens, tokens' = tokens + 1, Begin(t, {u}, p, {<<u, d>>}),
         TodoOK(p, {u}, {<<u, d>>}, tokens + 1), OneTok(p), TokensOf(p) \subseteq {tokens + 1}
  PROVE  Steady
<1>1. {<<u, d>>} \subseteq UserDevices /\ \A ud \in {<<u, d>>} : ud[1] \in {u}
  BY DEF UserDevices
<1>2. tokens \in Nat
  BY DEF BaseInv
<1>3. tokens + 1 \in Nat /\ tokens <= tokens + 1 /\ tokens + 1 <= MaxOps + Cardinality(Registered)
  BY <1>2 DEF Tokens
<1>4. {u} \subseteq Users \cup Remote
  OBVIOUS
<1> QED
  BY <1>1, <1>3, <1>4, BeginSteady

\* Logins.
LEMMA LoginSteady ==
  ASSUME BaseInv, NEW t \in Tasks, LoginRoute(t)
  PROVE  Steady
<1>1. PICK u \in Users, d \in Devices : \E kind \in {"set_token", "create_device"} :
        /\ tokens + 1 \in Tokens /\ tokens' = tokens + 1
        /\ Begin(t, {u}, << <<kind, <<u, d>>, tokens + 1>> >>, {<<u, d>>})
  BY DEF LoginRoute
<1>2. PICK kind \in {"set_token", "create_device"} :
        /\ tokens + 1 \in Tokens /\ tokens' = tokens + 1
        /\ Begin(t, {u}, << <<kind, <<u, d>>, tokens + 1>> >>, {<<u, d>>})
  BY <1>1
<1> DEFINE c == <<kind, <<u, d>>, tokens + 1>>
<1>3. c[1] = kind /\ c[2] = <<u, d>> /\ c[3] = tokens + 1
  OBVIOUS
<1>4. Begin(t, {u}, <<c>>, {<<u, d>>})
  BY <1>2
<1> HIDE DEF c
<1>5. tokens \in Nat /\ tokens + 1 \in 1..(tokens + 1)
  BY DEF BaseInv
<1>6. CallOK(c, {u}, {<<u, d>>}, tokens + 1)
  BY <1>3, <1>5 DEF CallOK, CallKinds, Tok
<1>7. TodoOK(<<c>>, {u}, {<<u, d>>}, tokens + 1) /\ OneTok(<<c>>) /\ TokensOf(<<c>>) \subseteq {tokens + 1}
  BY <1>3, <1>6, SingleOK
<1> QED
  BY <1>2, <1>4, <1>7, OneSteady

\* Registrations.
LEMMA RegisterSteady ==
  ASSUME BaseInv, NEW t \in Tasks, RegisterRoute(t)
  PROVE  Steady
<1>1. PICK u \in Users, d \in Devices, guest \in BOOLEAN, inhibit \in BOOLEAN :
        /\ tokens + 1 \in Tokens /\ tokens' = tokens + 1
        /\ Begin(t, {u},
             (IF u \in Bridged THEN <<>> ELSE TryAuth(None))
             \o CreateUser(u, IF guest THEN "empty" ELSE "hash")
             \o (IF ~guest /\ inhibit THEN <<>>
                 ELSE << <<"create_device", <<u, d>>, tokens + 1>> >>)
             \o (IF guest \/ inhibit THEN <<>> ELSE << <<"first", u>> >>),
             {<<u, d>>})
  BY ZenonT(60) DEF RegisterRoute
<1> DEFINE us == {u}
           ds == {<<u, d>>}
           made == tokens + 1
           c == <<"create_device", <<u, d>>, tokens + 1>>
           f == <<"first", u>>
           p == IF u \in Bridged THEN <<>> ELSE TryAuth(None)
           q == CreateUser(u, IF guest THEN "empty" ELSE "hash")
           v == IF ~guest /\ inhibit THEN <<>> ELSE <<c>>
           w == IF guest \/ inhibit THEN <<>> ELSE <<f>>
<1>2. Begin(t, us, p \o q \o v \o w, ds)
  BY <1>1, Zenon
<1>3. TodoOK(p, us, ds, made) /\ Tokless(p)
  BY AccountOK, NoCalls
<1>4. TodoOK(q, us, ds, made) /\ Tokless(q)
  BY AccountOK
<1>5. tokens \in Nat /\ made \in 1..made
  BY DEF BaseInv
<1>6. c[1] = "create_device" /\ c[2] \in ds /\ c[3] = made /\ f[1] = "first"
  OBVIOUS
<1> HIDE DEF us, ds, made, c, f
<1>7. CallOK(c, us, ds, made)
  BY <1>5, <1>6 DEF CallOK, CallKinds, Tok
<1>8. TodoOK(<<c>>, us, ds, made) /\ OneTok(<<c>>) /\ TokensOf(<<c>>) \subseteq {made}
  BY <1>6, <1>7, SingleOK
<1>9. TodoOK(<<f>>, us, ds, made) /\ Tokless(<<f>>)
  BY <1>6, PlainOK
<1>10. TodoOK(<<>>, us, ds, made) /\ OneTok(<<>>) /\ Tokless(<<>>) /\ TokensOf(<<>>) = {}
  BY NoCalls, ToklessTokens
<1>11. TodoOK(v, us, ds, made) /\ OneTok(v) /\ TokensOf(v) \subseteq {made}
  BY <1>8, <1>10
<1>12. TodoOK(w, us, ds, made) /\ Tokless(w)
  BY <1>9, <1>10
<1> HIDE DEF p, q, v, w
<1>13. TodoOK(p \o q, us, ds, made) /\ Tokless(p \o q) /\ TokensOf(p \o q) = {}
  BY <1>3, <1>4, ThenOK, ToklessTokens
<1>14. /\ TodoOK(p \o q \o v, us, ds, made) /\ OneTok(p \o q \o v)
       /\ TokensOf(p \o q \o v) \subseteq TokensOf(p \o q) \cup TokensOf(v)
  BY <1>11, <1>13, ConcatOK
<1>15. /\ TodoOK(p \o q \o v \o w, us, ds, made) /\ OneTok(p \o q \o v \o w)
       /\ TokensOf(p \o q \o v \o w) \subseteq TokensOf(p \o q \o v) \cup TokensOf(w)
  BY <1>12, <1>14, ConcatOK
<1>16. TokensOf(p \o q \o v \o w) \subseteq {made}
  BY <1>11, <1>12, <1>13, <1>14, <1>15, ToklessTokens
<1> QED
  BY <1>1, <1>2, <1>15, <1>16, OneSteady DEF us, ds, made

\* A request about one device.
LEMMA DeviceSteady ==
  ASSUME BaseInv, NEW t \in Tasks, NEW ud \in UserDevices, NEW p,
         BeginPlain(t, {ud[1]}, p, {ud}), TodoOK(p, {ud[1]}, {ud}, tokens), Tokless(p)
  PROVE  Steady
<1>1. {ud[1]} \subseteq Users \cup Remote /\ {ud} \subseteq UserDevices /\ \A x \in {ud} : x[1] \in {ud[1]}
  BY DEF UserDevices
<1> QED
  BY <1>1, PlainSteady

\* A request about all devices of some users.
LEMMA UsersSteady ==
  ASSUME BaseInv, NEW t \in Tasks, NEW us \in SUBSET Users, NEW p,
         BeginPlain(t, us, p, us \X Devices), TodoOK(p, us, us \X Devices, tokens), Tokless(p)
  PROVE  Steady
<1>1. /\ us \subseteq Users \cup Remote /\ us \X Devices \subseteq UserDevices
      /\ \A x \in us \X Devices : x[1] \in us
  BY AllDevices
<1> QED
  BY <1>1, PlainSteady

\* A request about no device.
LEMMA UserSteady ==
  ASSUME BaseInv, NEW t \in Tasks, NEW u \in Users \cup Remote, NEW p,
         BeginPlain(t, {u}, p, {}), TodoOK(p, {u}, {}, tokens), Tokless(p)
  PROVE  Steady
<1>1. {u} \subseteq Users \cup Remote /\ {} \subseteq UserDevices /\ \A x \in {} : x[1] \in {u}
  OBVIOUS
<1> QED
  BY <1>1, PlainSteady

\* Devices: logout, updates, removals, events, one-time keys.
LEMMA DeviceRoutesSteady ==
  ASSUME BaseInv, NEW t \in Tasks,
         LogoutRoute(t) \/ UpdateDeviceRoute(t) \/ DeleteDeviceRoute(t) \/ SendToDevice(t) \/ ClaimKeys(t)
  PROVE  Steady
<1>1. ASSUME NEW ud \in UserDevices, NEW kind \in {"remove_device", "update_device", "take_one_time_key"}
      PROVE  TodoOK(<< <<kind, ud>> >>, {ud[1]}, {ud}, tokens) /\ Tokless(<< <<kind, ud>> >>)
  <2> DEFINE c == <<kind, ud>>
  <2>1. c[1] = kind /\ c[2] \in {ud}
    OBVIOUS
  <2> HIDE DEF c
  <2>2. TodoOK(<<c>>, {ud[1]}, {ud}, tokens) /\ Tokless(<<c>>)
    BY <2>1, OnDeviceOK
  <2> QED
    BY <2>2 DEF c
<1>2. CASE LogoutRoute(t)
  <2>1. PICK ud \in UserDevices : BeginPlain(t, {ud[1]}, << <<"remove_device", ud>> >>, {ud})
    BY <1>2, AuthenticatedIsDevice DEF LogoutRoute
  <2> QED
    BY <1>1, <2>1, DeviceSteady
<1>3. CASE ClaimKeys(t)
  <2>1. PICK ud \in UserDevices : BeginPlain(t, {ud[1]}, << <<"take_one_time_key", ud>> >>, {ud})
    BY <1>3 DEF ClaimKeys
  <2> QED
    BY <1>1, <2>1, DeviceSteady
<1>4. CASE SendToDevice(t)
  <2>1. PICK ud \in UserDevices : BeginPlain(t, {ud[1]}, <<Set("todevice", ud, "events")>>, {ud})
    BY <1>4 DEF SendToDevice
  <2>2. TodoOK(<<Set("todevice", ud, "events")>>, {ud[1]}, {ud}, tokens)
        /\ Tokless(<<Set("todevice", ud, "events")>>)
    BY SetOK
  <2> QED
    BY <2>1, <2>2, DeviceSteady
<1>5. CASE UpdateDeviceRoute(t)
  <2>1. PICK ud \in UserDevices, d \in Devices :
          BeginPlain(t, {ud[1]}, << <<"update_device", <<ud[1], d>> >> >>, {<<ud[1], d>>})
    BY <1>5, AuthenticatedIsDevice DEF UpdateDeviceRoute
  <2> DEFINE x == <<ud[1], d>>
  <2>2. x \in UserDevices /\ x[1] = ud[1]
    BY DeviceIsPair DEF UserDevices
  <2>3. BeginPlain(t, {ud[1]}, << <<"update_device", x>> >>, {x})
    BY <2>1
  <2> HIDE DEF x
  <2> QED
    BY <1>1, <2>2, <2>3, DeviceSteady
<1>6. CASE DeleteDeviceRoute(t)
  <2>1. PICK ud \in UserDevices, d \in Devices :
          BeginPlain(t, {ud[1]}, TryAuth(ud) \o << <<"remove_device", <<ud[1], d>> >> >>, {<<ud[1], d>>})
    BY <1>6, AuthenticatedIsDevice DEF DeleteDeviceRoute
  <2> DEFINE x == <<ud[1], d>>
             p == TryAuth(ud)
             q == << <<"remove_device", x>> >>
  <2>2. x \in UserDevices /\ x[1] = ud[1]
    BY DeviceIsPair DEF UserDevices
  <2>3. BeginPlain(t, {ud[1]}, p \o q, {x})
    BY <2>1
  <2>4. TodoOK(p, {ud[1]}, {x}, tokens) /\ Tokless(p)
    BY AccountOK
  <2> HIDE DEF x, p
  <2>5. TodoOK(q, {ud[1]}, {x}, tokens) /\ Tokless(q)
    BY <1>1, <2>2
  <2> HIDE DEF q
  <2>6. TodoOK(p \o q, {ud[1]}, {x}, tokens) /\ Tokless(p \o q)
    BY <2>4, <2>5, ThenOK
  <2> QED
    BY <2>2, <2>3, <2>6, DeviceSteady
<1> QED
  BY <1>2, <1>3, <1>4, <1>5, <1>6

\* Key uploads.
LEMMA UploadSteady ==
  ASSUME BaseInv, NEW t \in Tasks, UploadKeysRoute(t)
  PROVE  Steady
<1>1. PICK ud \in UserDevices, ks \in SUBSET OneTimeKeys, deviceKeys \in BOOLEAN :
        BeginPlain(t, {ud[1]},
          <<For("upload", ud, ks)>>
          \o (IF deviceKeys THEN << <<"nokeys", ud>>, <<"add_device_keys", ud>> >> ELSE <<>>), {ud})
  BY AuthenticatedIsDevice DEF UploadKeysRoute
<1> DEFINE a == <<"nokeys", ud>>
           b == <<"add_device_keys", ud>>
           us == {ud[1]}
           p == <<For("upload", ud, ks)>>
           q == IF deviceKeys THEN <<a, b>> ELSE <<>>
<1>2. BeginPlain(t, us, p \o q, {ud})
  BY <1>1
<1>3. a[1] = "nokeys" /\ b[1] = "add_device_keys" /\ b[2] \in {ud}
  OBVIOUS
<1>4. LoopOK(For("upload", ud, ks), {ud})
  BY DEF LoopOK, For
<1>5. TodoOK(p, us, {ud}, tokens) /\ Tokless(p)
  BY <1>4, ForOK
<1> HIDE DEF a, b, us
<1>6. TodoOK(<<a>>, us, {ud}, tokens) /\ Tokless(<<a>>)
  BY <1>3, PlainOK
<1>7. TodoOK(<<b>>, us, {ud}, tokens) /\ Tokless(<<b>>)
  BY <1>3, OnDeviceOK
<1>8. TodoOK(<<a, b>>, us, {ud}, tokens) /\ Tokless(<<a, b>>)
  BY <1>6, <1>7, PairOK
<1>9. TodoOK(q, us, {ud}, tokens) /\ Tokless(q)
  BY <1>8, NoCalls
<1> HIDE DEF p, q
<1>10. TodoOK(p \o q, us, {ud}, tokens) /\ Tokless(p \o q)
  BY <1>5, <1>9, ThenOK
<1> QED
  BY <1>2, <1>10, DeviceSteady DEF us

\* Removals of all devices.
LEMMA AllRoutesSteady ==
  ASSUME BaseInv, NEW t \in Tasks,
         LogoutAllRoute(t) \/ DeleteDevicesRoute(t) \/ DeactivateRoute(t) \/ AdminDeactivateUser(t)
  PROVE  Steady
<1>1. ASSUME NEW u \in Users
      PROVE  {u} \in SUBSET Users /\ AllOf(u) = {u} \X Devices /\ \A d \in Devices : <<u, d>> \in {u} \X Devices
  BY DEF AllOf
<1>2. CASE LogoutAllRoute(t)
  <2>1. PICK u \in Users : BeginPlain(t, {u}, RemoveAllDevices(u, None), {u} \X Devices)
    BY <1>2, AccountsAssumption DEF LogoutAllRoute, AllOf
  <2>2. TodoOK(RemoveAllDevices(u, None), {u}, {u} \X Devices, tokens) /\ Tokless(RemoveAllDevices(u, None))
    BY <1>1, RemoveAllOK
  <2> QED
    BY <1>1, <2>1, <2>2, UsersSteady
<1>3. CASE DeleteDevicesRoute(t)
  <2>1. PICK ud \in UserDevices :
          BeginPlain(t, {ud[1]}, TryAuth(ud) \o <<For("remove", ud[1], Devices)>>, AllOf(ud[1]))
    BY <1>3, AuthenticatedIsDevice DEF DeleteDevicesRoute
  <2> DEFINE u == ud[1]
             ds == {u} \X Devices
             p == TryAuth(ud)
             q == <<For("remove", u, Devices)>>
  <2>2. u \in Users
    BY DeviceIsPair
  <2>3. BeginPlain(t, {u}, p \o q, ds)
    BY <2>1 DEF AllOf
  <2>4. LoopOK(For("remove", u, Devices), ds)
    BY DEF LoopOK, For
  <2>5. TodoOK(p, {u}, ds, tokens) /\ Tokless(p) /\ TodoOK(q, {u}, ds, tokens) /\ Tokless(q)
    BY <2>4, AccountOK, ForOK
  <2> HIDE DEF u, p, q
  <2>6. TodoOK(p \o q, {u}, ds, tokens) /\ Tokless(p \o q)
    BY <2>5, ThenOK
  <2> QED
    BY <1>1, <2>2, <2>3, <2>6, UsersSteady
<1>4. CASE DeactivateRoute(t)
  <2>1. PICK ud \in UserDevices :
          BeginPlain(t, {ud[1]}, TryAuth(ud) \o << <<"leave", ud[1]>> >> \o DeactivateAccount(ud[1]),
                     AllOf(ud[1]))
    BY <1>4, AuthenticatedIsDevice DEF DeactivateRoute
  <2> DEFINE u == ud[1]
             ds == {u} \X Devices
             c == <<"leave", u>>
             p == TryAuth(ud)
             q == DeactivateAccount(u)
  <2>2. u \in Users /\ c[1] = "leave"
    BY DeviceIsPair
  <2>3. BeginPlain(t, {u}, p \o <<c>> \o q, ds)
    BY <2>1 DEF AllOf
  <2>4. TodoOK(p, {u}, ds, tokens) /\ Tokless(p)
    BY AccountOK
  <2>5. TodoOK(q, {u}, ds, tokens) /\ Tokless(q)
    BY <1>1, <2>2, DeactivateOK
  <2> HIDE DEF u, p, q, c
  <2>6. TodoOK(<<c>>, {u}, ds, tokens) /\ Tokless(<<c>>)
    BY <2>2, PlainOK
  <2>7. TodoOK(p \o <<c>>, {u}, ds, tokens) /\ Tokless(p \o <<c>>)
    BY <2>4, <2>6, ThenOK
  <2>8. TodoOK(p \o <<c>> \o q, {u}, ds, tokens) /\ Tokless(p \o <<c>> \o q)
    BY <2>5, <2>7, ThenOK
  <2> QED
    BY <1>1, <2>2, <2>3, <2>8, UsersSteady
<1>5. CASE AdminDeactivateUser(t)
  <2>1. PICK u \in Users, leave \in BOOLEAN :
          BeginPlain(t, {u}, DeactivateAccount(u) \o (IF leave THEN << <<"leave", u>> >> ELSE <<>>), AllOf(u))
    BY <1>5 DEF AdminDeactivateUser
  <2> DEFINE ds == {u} \X Devices
             c == <<"leave", u>>
             p == DeactivateAccount(u)
             q == IF leave THEN <<c>> ELSE <<>>
  <2>2. c[1] = "leave"
    OBVIOUS
  <2>3. BeginPlain(t, {u}, p \o q, ds)
    BY <2>1 DEF AllOf
  <2>4. TodoOK(p, {u}, ds, tokens) /\ Tokless(p)
    BY <1>1, DeactivateOK
  <2> HIDE DEF p, c
  <2>5. TodoOK(<<c>>, {u}, ds, tokens) /\ Tokless(<<c>>)
    BY <2>2, PlainOK
  <2>6. TodoOK(q, {u}, ds, tokens) /\ Tokless(q)
    BY <2>5, NoCalls
  <2> HIDE DEF q
  <2>7. TodoOK(p \o q, {u}, ds, tokens) /\ Tokless(p \o q)
    BY <2>4, <2>6, ThenOK
  <2> QED
    BY <1>1, <2>3, <2>7, UsersSteady
<1> QED
  BY <1>2, <1>3, <1>4, <1>5

\* Deactivation of several users.
LEMMA DeactivateAllSteady ==
  ASSUME BaseInv, NEW t \in Tasks, AdminDeactivateAll(t)
  PROVE  Steady
<1>1. PICK named \in SUBSET Users : \E us \in SUBSET named :
        BeginPlain(t, named, <<For("deactivate", None, us), For("leave", None, us)>>, named \X Devices)
  BY DEF AdminDeactivateAll
<1>2. PICK us \in SUBSET named :
        BeginPlain(t, named, <<For("deactivate", None, us), For("leave", None, us)>>, named \X Devices)
  BY <1>1
<1> DEFINE a == For("deactivate", None, us)
           b == For("leave", None, us)
           ds == named \X Devices
<1>3. LoopOK(a, ds) /\ LoopOK(b, ds)
  BY DEF LoopOK, For
<1>4. TodoOK(<<a>>, named, ds, tokens) /\ Tokless(<<a>>) /\ TodoOK(<<b>>, named, ds, tokens) /\ Tokless(<<b>>)
  BY <1>3, ForOK
<1>5. BeginPlain(t, named, <<a, b>>, ds)
  BY <1>2
<1> HIDE DEF a, b
<1>6. TodoOK(<<a, b>>, named, ds, tokens) /\ Tokless(<<a, b>>)
  BY <1>4, PairOK
<1> QED
  BY <1>5, <1>6, UsersSteady

\* Passwords.
LEMMA PasswordSteady ==
  ASSUME BaseInv, NEW t \in Tasks,
         ChangePasswordRoute(t) \/ AdminResetPassword(t) \/ AdminCreateUser(t)
  PROVE  Steady
<1>1. CASE AdminResetPassword(t) \/ AdminCreateUser(t)
  <2>1. PICK u \in Users : BeginPlain(t, {u}, SetPassword(u, "hash"), {}) \/ BeginPlain(t, {u}, CreateUser(u, "hash"), {})
    BY <1>1 DEF AdminResetPassword, AdminCreateUser
  <2> QED
    BY <2>1, AccountOK, UserSteady
<1>2. CASE ChangePasswordRoute(t)
  <2>1. PICK ud \in UserDevices, logout \in BOOLEAN :
          BeginPlain(t, {ud[1]},
            TryAuth(ud) \o SetPassword(ud[1], "hash")
            \o (IF logout THEN RemoveAllDevices(ud[1], ud[2]) ELSE <<>>),
            IF logout THEN AllOf(ud[1]) ELSE {})
    BY <1>2, AuthenticatedIsDevice DEF ChangePasswordRoute
  <2> DEFINE u == ud[1]
             ds == IF logout THEN {u} \X Devices ELSE {}
             p == TryAuth(ud)
             q == SetPassword(u, "hash")
             r == IF logout THEN RemoveAllDevices(u, ud[2]) ELSE <<>>
  <2>2. u \in Users
    BY DeviceIsPair
  <2>3. BeginPlain(t, {u}, p \o q \o r, ds)
    BY <2>1, Zenon DEF AllOf
  <2>4. TodoOK(p, {u}, ds, tokens) /\ Tokless(p) /\ TodoOK(q, {u}, ds, tokens) /\ Tokless(q)
    BY AccountOK
  <2>5. TodoOK(r, {u}, ds, tokens) /\ Tokless(r)
    <3>1. CASE logout
      <4>1. \A d \in Devices : <<u, d>> \in ds
        BY <3>1
      <4>2. r = RemoveAllDevices(u, ud[2])
        BY <3>1
      <4> HIDE DEF u, r, ds
      <4> QED
        BY <4>1, <4>2, RemoveAllOK
    <3>2. CASE ~logout
      BY <3>2, NoCalls
    <3> QED
      BY <3>1, <3>2
  <2>6. {u} \subseteq Users \cup Remote /\ ds \subseteq UserDevices /\ \A x \in ds : x[1] \in {u}
    BY <2>2 DEF UserDevices
  <2> HIDE DEF u, p, q, r, ds
  <2>7. TodoOK(p \o q, {u}, ds, tokens) /\ Tokless(p \o q)
    BY <2>4, ThenOK
  <2>8. TodoOK(p \o q \o r, {u}, ds, tokens) /\ Tokless(p \o q \o r)
    BY <2>5, <2>7, ThenOK
  <2> QED
    BY <2>3, <2>6, <2>8, PlainSteady
<1> QED
  BY <1>1, <1>2

\* The calls of an upload of signing keys.
LEMMA CrossSigningOK ==
  ASSUME NEW u, NEW others, NEW c \in CrossSigningCall(u, others), NEW made
  PROVE  CallOK(c, {u}, {}, made) /\ ~Tok(c)
<1>1. \/ c = <<"add_cross_signing_keys", u, others>>
      \/ \E b \in BOOLEAN : c = <<"refuse_cross_signing_keys", u, b>>
  BY Zenon DEF CrossSigningCall
<1>2. CASE c = <<"add_cross_signing_keys", u, others>>
  <2>1. c[1] = "add_cross_signing_keys" /\ c[2] = u
    BY <1>2
  <2> QED
    BY <2>1 DEF CallOK, CallKinds, Tok
<1>3. ASSUME NEW b \in BOOLEAN, c = <<"refuse_cross_signing_keys", u, b>>
      PROVE  CallOK(c, {u}, {}, made) /\ ~Tok(c)
  <2>1. c[1] = "refuse_cross_signing_keys" /\ c[3] = b
    BY <1>3
  <2>2. c[3] \in BOOLEAN
    BY <2>1
  <2> QED
    BY <2>1, <2>2 DEF CallOK, CallKinds, Tok
<1> QED
  BY <1>1, <1>2, <1>3

\* Signing keys, signatures and queries.
LEMMA KeyRoutesSteady ==
  ASSUME BaseInv, NEW t \in Tasks,
         \/ UploadSigningKeysRoute(t) \/ SigningKeyUpdate(t) \/ UploadSignaturesRoute(t)
         \/ QueryLocalKeys(t) \/ QueryRemoteKeys(t)
  PROVE  Steady
<1>1. CASE UploadSigningKeysRoute(t)
  <2>0. PICK ud \in UserDevices, others \in SUBSET {"self", "user"} :
          \E c \in CrossSigningCall(ud[1], others) : BeginPlain(t, {ud[1]}, TryAuth(ud) \o <<c>>, {})
    BY <1>1, AuthenticatedIsDevice DEF UploadSigningKeysRoute
  <2>1. PICK c \in CrossSigningCall(ud[1], others) : BeginPlain(t, {ud[1]}, TryAuth(ud) \o <<c>>, {})
    BY <2>0
  <2> DEFINE u == ud[1]
             p == TryAuth(ud)
  <2>2. u \in Users
    BY DeviceIsPair
  <2>3. BeginPlain(t, {u}, p \o <<c>>, {})
    BY <2>1
  <2>4. TodoOK(p, {u}, {}, tokens) /\ Tokless(p)
    BY AccountOK
  <2>5. CallOK(c, {u}, {}, tokens) /\ ~Tok(c)
    BY <2>1, CrossSigningOK
  <2> HIDE DEF u, p
  <2>6. TodoOK(p \o <<c>>, {u}, {}, tokens) /\ Tokless(p \o <<c>>)
    BY <2>4, <2>5, SingleOK, ThenOK
  <2> QED
    BY <2>2, <2>3, <2>6, UserSteady
<1>5. CASE SigningKeyUpdate(t)
  <2>0. PICK u \in Remote, others \in SUBSET {"self"} :
          \E c \in CrossSigningCall(u, others) : BeginPlain(t, {u}, <<c>>, {})
    BY <1>5 DEF SigningKeyUpdate
  <2>1. PICK c \in CrossSigningCall(u, others) : BeginPlain(t, {u}, <<c>>, {})
    BY <2>0
  <2>2. CallOK(c, {u}, {}, tokens) /\ ~Tok(c)
    BY <2>1, CrossSigningOK
  <2>3. TodoOK(<<c>>, {u}, {}, tokens) /\ Tokless(<<c>>)
    BY <2>2, SingleOK
  <2> QED
    BY <2>1, <2>3, UserSteady
<1>2. CASE UploadSignaturesRoute(t)
  <2>1. PICK id \in KeyIds : \E by : BeginPlain(t, {id[1]}, << <<"sign_key", id, by>> >>, {})
    BY <1>2 DEF UploadSignaturesRoute
  <2>2. PICK by : BeginPlain(t, {id[1]}, << <<"sign_key", id, by>> >>, {})
    BY <2>1
  <2> DEFINE c == <<"sign_key", id, by>>
  <2>3. c[1] = "sign_key" /\ c[2] = id /\ id[1] \in Users \cup Remote
    BY DEF KeyIds, UserDevices
  <2>4. BeginPlain(t, {id[1]}, <<c>>, {})
    BY <2>2
  <2> HIDE DEF c
  <2>5. CallOK(c, {id[1]}, {}, tokens) /\ ~Tok(c)
    BY <2>3 DEF CallOK, CallKinds, Tok
  <2> QED
    BY <2>3, <2>4, <2>5, SingleOK, UserSteady
<1>3. CASE QueryLocalKeys(t)
  <2>1. PICK u \in Users : BeginPlain(t, {u}, << <<"query", u>> >>, {})
    BY <1>3 DEF QueryLocalKeys
  <2> DEFINE c == <<"query", u>>
  <2>2. c[1] = "query" /\ BeginPlain(t, {u}, <<c>>, {})
    BY <2>1
  <2> HIDE DEF c
  <2> QED
    BY <2>2, PlainOK, UserSteady
<1>4. CASE QueryRemoteKeys(t)
  <2>1. PICK u \in Users : \E b : BeginPlain(t, {u}, << <<"store_remote_key", <<b, "master">>, u>> >>, {})
    BY <1>4, AuthenticatedIsDevice, DeviceIsPair DEF QueryRemoteKeys
  <2>2. PICK b : BeginPlain(t, {u}, << <<"store_remote_key", <<b, "master">>, u>> >>, {})
    BY <2>1
  <2> DEFINE c == <<"store_remote_key", <<b, "master">>, u>>
  <2>3. c[1] = "store_remote_key" /\ BeginPlain(t, {u}, <<c>>, {})
    BY <2>2
  <2> HIDE DEF c
  <2>4. CallOK(c, {u}, {}, tokens) /\ ~Tok(c)
    BY <2>3 DEF CallOK, CallKinds, Tok
  <2> QED
    BY <2>3, <2>4, SingleOK, UserSteady
<1> QED
  BY <1>1, <1>2, <1>3, <1>4, <1>5

\* No request.
LEMMA IdleTask ==
  ASSUME NEW n \in Nat
  PROVE  TaskOK(Idle, n) /\ AtStart(Idle) /\ Idle.todo = <<>> /\ Idle.devices = {}
<1>1. /\ DOMAIN Idle = Fields /\ Idle.run = FALSE /\ Idle.users = {} /\ Idle.todo = <<>> /\ Idle.devices = {}
      /\ Idle.at = 1 /\ Idle.old = None /\ Idle.key = None /\ Idle.n = 0
  BY DEF Idle, Fields
<1>2. TodoOK(<<>>, {}, {}, n) /\ OneTok(<<>>)
  BY NoCalls
<1>3. TaskOK(Idle, n)
  BY <1>1, <1>2 DEF TaskOK
<1> QED
  BY <1>1, <1>3 DEF AtStart

\* A request ends, the server crashes, or nothing of this changes.
LEMMA EndSteady ==
  ASSUME BaseInv, (\E t \in Tasks : Finish(t) \/ QueryFails(t)) \/ Crash \/ UNCHANGED vars
  PROVE  Steady
<1>1. /\ tokens \in Nat /\ tokens <= MaxOps + Cardinality(Registered) /\ DOMAIN task = Tasks
      /\ \A s \in Tasks : TaskOK(task[s], tokens)
      /\ \A r, s \in Tasks : r # s => task[r].devices \cap task[s].devices \subseteq mixed
  BY DEF BaseInv
<1>2. TaskOK(Idle, tokens) /\ AtStart(Idle) /\ Idle.todo = <<>> /\ Idle.devices = {}
  BY <1>1, IdleTask
<1>3. TokensOf(Idle.todo) = {}
  BY <1>2, NoCalls, ToklessTokens
<1>4. tokens' = tokens /\ UNCHANGED <<db, changes, counter, fresh, given, mixed>> /\ torn \subseteq torn'
  BY DEF Finish, QueryFails, Crash, vars
<1>5. /\ DOMAIN task' = Tasks
      /\ \A s \in Tasks : \/ task'[s] = task[s]
                          \/ task'[s] = Idle /\ (task[s].todo = <<>> \/ task[s].users \subseteq torn')
  <2>1. CASE \E t \in Tasks : Finish(t)
    BY <1>1, <2>1 DEF Finish, Todo
  <2>2. CASE Crash
    <3>1. /\ task' = [t \in Tasks |-> Idle] /\ torn' = torn \cup UNION {task[t].users : t \in Tasks}
      BY <2>2 DEF Crash
    <3>2. \A s \in Tasks : task[s].users \subseteq torn'
      BY <3>1
    <3> QED
      BY <3>1, <3>2
  <2>3. CASE (\E t \in Tasks : QueryFails(t)) \/ UNCHANGED vars
    BY <1>1, <2>3 DEF QueryFails, vars
  <2> QED
    BY <2>1, <2>2, <2>3
<1> HIDE DEF Idle
<1>6. \A s \in Tasks : TaskOK(task'[s], tokens)
  BY <1>1, <1>2, <1>5
<1>7. \A s \in Tasks : task'[s].devices \subseteq task[s].devices
  BY <1>2, <1>5
<1>8. \A r, s \in Tasks : r # s => task'[r].devices \cap task'[s].devices \subseteq mixed
  BY <1>1, <1>7
<1>9. \A s \in Tasks : \/ task'[s] = task[s]
                       \/ /\ AtStart(task'[s]) /\ TokensOf(task'[s].todo) = {}
                          /\ task[s].todo = <<>> \/ task[s].users \subseteq torn'
  BY <1>2, <1>3, <1>5
<1>10. \A s \in Tasks : \/ task'[s] = task[s]
                        \/ /\ AtStart(task'[s]) /\ TokensOf(task'[s].todo) \subseteq {tokens + 1}
                           /\ task[s].todo = <<>> \/ task[s].users \subseteq torn'
  BY <1>9
<1>11. \A r, s \in Tasks : r # s /\ task'[r] # task[r] /\ task'[s] # task[s] => TokensOf(task'[r].todo) = {}
  BY <1>9
<1>12. mixed \subseteq mixed' /\ mixed' = mixed /\ tokens' \in Nat /\ tokens <= tokens'
       /\ tokens' <= MaxOps + Cardinality(Registered)
  BY <1>1, <1>4
<1>13. \A s \in Tasks : TaskOK(task'[s], tokens')
  BY <1>4, <1>6
<1>14. \A r, s \in Tasks : r # s => task'[r].devices \cap task'[s].devices \subseteq mixed'
  BY <1>8, <1>12
<1> QED
  BY <1>4, <1>5, <1>10, <1>11, <1>12, <1>13, <1>14 DEF Steady

\* A step keeps everything.
LEMMA StepKeeps ==
  ASSUME IInv, NEW t \in Tasks, Step(t)
  PROVE  IInv'
<1>1. Effect(t)
  BY StepEffect DEF IInv
<1> QED
  BY <1>1, EffectBase, EffectFresh, EffectOwn, EffectWorks, EffectAgree, EffectOneTime, EffectNumbers,
     EffectAnnounce DEF IInv

\* The next-state relation keeps the invariant.
LEMMA NextKeeps ==
  ASSUME IInv, [Next]_vars
  PROVE  IInv'
<1>1. BaseInv
  BY DEF IInv
<1>2. CASE \E t \in Tasks : Step(t)
  BY <1>2, StepKeeps
<1>3. CASE (\E t \in Tasks : Finish(t) \/ QueryFails(t)) \/ Crash \/ UNCHANGED vars
  BY <1>1, <1>3, EndSteady, SteadyKeeps
<1>4. ASSUME NEW t \in Tasks,
             \/ LoginRoute(t) \/ LogoutRoute(t) \/ LogoutAllRoute(t)
             \/ RegisterRoute(t) \/ ChangePasswordRoute(t) \/ DeactivateRoute(t)
             \/ AdminDeactivateUser(t) \/ AdminDeactivateAll(t)
             \/ AdminResetPassword(t) \/ AdminCreateUser(t)
             \/ UpdateDeviceRoute(t) \/ DeleteDeviceRoute(t) \/ DeleteDevicesRoute(t)
             \/ SendToDevice(t) \/ UploadKeysRoute(t) \/ ClaimKeys(t)
             \/ UploadSigningKeysRoute(t) \/ SigningKeyUpdate(t) \/ UploadSignaturesRoute(t)
             \/ QueryLocalKeys(t) \/ QueryRemoteKeys(t)
             \/ UiaaCreate(t) \/ TryAuthIncomplete(t)
      PROVE  IInv'
  <2>1. Steady
    BY <1>1, <1>4, LoginSteady, RegisterSteady, UiaaSteady, DeviceRoutesSteady, UploadSteady,
       AllRoutesSteady, DeactivateAllSteady, PasswordSteady, KeyRoutesSteady
  <2> QED
    BY <2>1, SteadyKeeps
<1> QED
  BY <1>2, <1>3, <1>4 DEF Next

-----------------------------------------------------------------------------
(* The first state. *)

\* The trees of the first state.
LEMMA FirstTrees ==
  ASSUME NEW first, InitDb(first)
  PROVE  /\ DOMAIN db = Trees
         /\ db["metadata"] = [ud \in UserDevices |-> IF ud \in Home THEN "device" ELSE None]
         /\ db["token"] = [ud \in UserDevices |-> IF ud \in Home THEN first[ud] ELSE None]
         /\ db["device"] = [n \in Tokens |-> IF \E ud \in Home : first[ud] = n
                                             THEN CHOOSE ud \in Home : first[ud] = n
                                             ELSE None]
         /\ db["onetimekeys"] = [ud \in UserDevices |-> IF ud \in Home THEN OneTimeKeys ELSE {}]
<1>1. DOMAIN db = Trees
  BY DEF InitDb
<1>2. db["metadata"] = [ud \in UserDevices |-> IF ud \in Home THEN "device" ELSE None]
  BY DEF InitDb, Trees
<1>3. db["token"] = [ud \in UserDevices |-> IF ud \in Home THEN first[ud] ELSE None]
  BY DEF InitDb, Trees
<1>4. db["device"] = [n \in Tokens |-> IF \E ud \in Home : first[ud] = n
                                       THEN CHOOSE ud \in Home : first[ud] = n
                                       ELSE None]
  BY DEF InitDb, Trees
<1>5. db["onetimekeys"] = [ud \in UserDevices |-> IF ud \in Home THEN OneTimeKeys ELSE {}]
  BY DEF InitDb, Trees
<1> QED
  BY <1>1, <1>2, <1>3, <1>4, <1>5

\* The first state has all of it.
LEMMA InitHas ==
  ASSUME Init
  PROVE  IInv
<1> DEFINE n == Cardinality(Registered)
<1>1. n \in Nat /\ MaxOps \in Nat
  <2>1. IsFiniteSet(Registered)
    BY FS_Subset, AccountsAssumption
  <2> QED
    BY <2>1, FS_CardinalityType, AccountsAssumption
<1>2. PICK first \in [Home -> 1..n] : (\A a, b \in Home : first[a] = first[b] => a = b) /\ InitDb(first)
  BY DEF Init
<1>3. /\ DOMAIN db = Trees
      /\ db["metadata"] = [ud \in UserDevices |-> IF ud \in Home THEN "device" ELSE None]
      /\ db["token"] = [ud \in UserDevices |-> IF ud \in Home THEN first[ud] ELSE None]
      /\ db["device"] = [x \in Tokens |-> IF \E ud \in Home : first[ud] = x
                                          THEN CHOOSE ud \in Home : first[ud] = x
                                          ELSE None]
      /\ db["onetimekeys"] = [ud \in UserDevices |-> IF ud \in Home THEN OneTimeKeys ELSE {}]
  BY <1>2, FirstTrees, Zenon
<1>4. /\ tokens = n /\ changes = {} /\ counter = 0 /\ mixed = {} /\ torn = {}
      /\ task = [t \in Tasks |-> Idle]
      /\ fresh = [u \in Users \cup Remote |-> None]
      /\ given = [ud \in UserDevices |-> [x \in OneTimeKeys |-> 0]]
  BY DEF Init
<1> HIDE DEF n
<1>5. /\ TaskOK(Idle, n) /\ AtStart(Idle) /\ Idle.todo = <<>> /\ Idle.devices = {}
      /\ TokensOf(Idle.todo) = {}
  BY <1>1, IdleTask, NoCalls, ToklessTokens
<1>6. DOMAIN task = Tasks /\ \A t \in Tasks : task[t] = Idle
  BY <1>4
<1>7. Home \subseteq UserDevices /\ 1..n \subseteq Tokens /\ \A x \in 1..n : x # None
  <2>1. Home \subseteq UserDevices
    BY AccountsAssumption DEF Home, UserDevices
  <2>2. 1..n \subseteq Tokens
    BY <1>1 DEF Tokens, n
  <2>3. \A x \in 1..n : x # None
    BY <1>1, NoneApart
  <2> QED
    BY <2>1, <2>2, <2>3
<1>8. \A ud \in Home : first[ud] \in 1..n /\ first[ud] \in Tokens /\ first[ud] # None
  BY <1>2, <1>7
<1>9. \A ud \in UserDevices : db["token"][ud] = IF ud \in Home THEN first[ud] ELSE None
  BY <1>3
<1>10. \A ud \in UserDevices : db["metadata"][ud] = IF ud \in Home THEN "device" ELSE None
  BY <1>3
<1>11. \A x \in Tokens : \/ db["device"][x] = None
                         \/ db["device"][x] \in Home /\ first[db["device"][x]] = x
  <2> SUFFICES ASSUME NEW x \in Tokens
               PROVE  db["device"][x] = None \/ (db["device"][x] \in Home /\ first[db["device"][x]] = x)
    OBVIOUS
  <2>1. db["device"][x] = IF \E ud \in Home : first[ud] = x THEN CHOOSE ud \in Home : first[ud] = x ELSE None
    BY <1>3
  <2> QED
    BY <2>1
<1>12. \A ud \in Home : db["device"][first[ud]] = ud
  <2> SUFFICES ASSUME NEW ud \in Home PROVE db["device"][first[ud]] = ud
    OBVIOUS
  <2> DEFINE x == first[ud]
             v == CHOOSE a \in Home : first[a] = x
  <2>1. x \in Tokens /\ \E a \in Home : first[a] = x
    BY <1>8
  <2>2. db["device"][x] = v
    BY <1>3, <2>1
  <2>3. v \in Home /\ first[v] = x
    BY <2>1
  <2> HIDE DEF v
  <2> QED
    BY <1>2, <2>2, <2>3
<1>13. \A t \in Tasks : ~Halfway(Idle) /\ ~Updating(Idle) /\ ~InToken(Idle, 5)
  BY <1>5, StartRow DEF AtStart
<1> HIDE DEF Idle
<1>14. BaseInv
  <2>1. \A ud \in UserDevices : db["token"][ud] \in (1..tokens) \cup {None}
    BY <1>4, <1>8, <1>9
  <2>2. \A x \in Tokens : db["device"][x] \in UserDevices \cup {None}
    BY <1>7, <1>11
  <2>3. \A t \in Tasks : TaskOK(task[t], tokens)
    BY <1>4, <1>5, <1>6
  <2>4. \A s, t \in Tasks : s # t => task[s].devices \cap task[t].devices \subseteq mixed
    BY <1>5, <1>6
  <2>5. tokens \in Nat /\ tokens <= MaxOps + Cardinality(Registered)
    BY <1>1, <1>4 DEF n
  <2>6. /\ \A tree \in {"metadata", "token", "onetimekeys"} : DOMAIN db[tree] = UserDevices
        /\ DOMAIN db["device"] = Tokens
    BY <1>3
  <2> QED
    BY <1>3, <1>6, <2>1, <2>2, <2>3, <2>4, <2>5, <2>6 DEF BaseInv
<1>15. FreshInv
  BY <1>5, <1>6 DEF FreshInv
<1>16. OwnInv
  <2>1. \A a, b \in UserDevices : db["token"][a] # None /\ db["token"][a] = db["token"][b] => a = b
    BY <1>2, <1>8, <1>9
  <2>2. \A t \in Tasks : task[t].old = None /\ ~InToken(task[t], 5)
    BY <1>5, <1>6, <1>13 DEF AtStart
  <2> QED
    BY <2>1, <2>2 DEF OwnInv
<1>17. WorksInv
  BY <1>9, <1>12 DEF WorksInv
<1>18. AgreeInv
  <2> SUFFICES ASSUME NEW ud \in UserDevices PROVE AgreeFor(ud)
    BY DEF AgreeInv
  <2>1. db["metadata"][ud] # None <=> db["token"][ud] # None
    BY <1>8, <1>9, <1>10, NoneApart, <1>1
  <2>2. Own(ud) \subseteq {db["token"][ud]}
    <3> SUFFICES ASSUME NEW x \in Tokens, db["device"][x] = ud PROVE x = db["token"][ud]
      BY DEF Own
    <3>1. ud # None
      BY <1>1, NoneApart
    <3> QED
      BY <1>9, <1>11, <3>1
  <2> QED
    BY <1>6, <1>13, <2>1, <2>2 DEF AgreeFor, Agree, Agrees
<1>19. OneTimeInv
  <2>1. \A t \in Tasks : task[t].key = None
    BY <1>5, <1>6 DEF AtStart
  <2>2. /\ DOMAIN given = UserDevices /\ \A ud \in UserDevices : DOMAIN given[ud] = OneTimeKeys
        /\ \A ud \in UserDevices : \A x \in OneTimeKeys : given[ud][x] = 0
    BY <1>4
  <2>3. \A ud \in UserDevices : db["onetimekeys"][ud] \subseteq OneTimeKeys
    BY <1>3
  <2> QED
    BY <2>1, <2>2, <2>3 DEF OneTimeInv
<1>20. NumbersInv
  <2>1. \A t \in Tasks : task[t].n = 0
    BY <1>5, <1>6 DEF AtStart
  <2> QED
    BY <1>4, <2>1 DEF NumbersInv
<1>21. AnnounceInv
  BY <1>4 DEF AnnounceInv
<1> QED
  BY <1>14, <1>15, <1>16, <1>17, <1>18, <1>19, <1>20, <1>21 DEF IInv

-----------------------------------------------------------------------------
(* The theorems. *)

\* Whatever requests, crashes and interleavings there are, the trees, the
\* requests and the numbers are as the invariant says.
THEOREM AccountsInductive == Spec => []IInv
<1>1. Init => IInv
  BY InitHas
<1>2. IInv /\ [Next]_vars => IInv'
  BY NextKeeps
<1> QED
  BY <1>1, <1>2, PTL DEF Spec

\* At rest nothing is left to do.
LEMMA RestIsEmpty ==
  ASSUME BaseInv, AtRest, NEW t \in Tasks
  PROVE  task[t].todo = <<>> /\ ~Halfway(task[t]) /\ \A i \in 1..5 : ~InToken(task[t], i)
<1>1. TaskOK(task[t], tokens) /\ ~task[t].run
  BY DEF BaseInv, AtRest, Running
<1>2. task[t].todo = <<>>
  BY <1>1 DEF TaskOK
<1> QED
  BY <1>2 DEF Halfway, Created, In, InToken

\* The token that a device points to at rest authenticates as this device, in
\* any order of the rows that logins, logouts and removals write.
THEOREM TokenWorks == Spec => []TokenOfADeviceWorks
<1>1. IInv => TokenOfADeviceWorks
  <2> SUFFICES ASSUME IInv, AtRest, NEW ud \in UserDevices, ud[1] \notin torn, db["token"][ud] # None
               PROVE  db["device"][db["token"][ud]] = ud
    BY DEF TokenOfADeviceWorks, FindFromToken
  <2>1. \A t \in Tasks : ~InToken(task[t], 4) /\ ~InToken(task[t], 5)
    BY RestIsEmpty DEF IInv
  <2> QED
    BY <2>1 DEF IInv, WorksInv
<1> QED
  BY <1>1, AccountsInductive, PTL

\* A device that no two requests were about at once exists at rest if and only
\* if it has a token, and no other token leads to it.
THEOREM TokensDevices == Spec => []TokensAndDevicesAgree
<1>1. IInv => TokensAndDevicesAgree
  <2> SUFFICES ASSUME IInv, AtRest, NEW ud \in UserDevices \ mixed, ud[1] \notin torn
               PROVE  /\ db["metadata"][ud] # None <=> db["token"][ud] # None
                      /\ \A tok \in Tokens : db["device"][tok] = ud => db["token"][ud] = tok
    BY DEF TokensAndDevicesAgree, FindFromToken
  <2>1. AgreeFor(ud)
    BY DEF IInv, AgreeInv
  <2>2. \A t \in Tasks : ~Halfway(task[t])
    BY RestIsEmpty DEF IInv
  <2>3. Agree(ud)
    BY <2>1, <2>2 DEF AgreeFor
  <2> QED
    BY <2>3 DEF Agree, Agrees, Own
<1> QED
  BY <1>1, AccountsInductive, PTL

\* Every change of keys or signatures that a call has made and was not refused
\* is found at rest by the user and by the
\* members of the encrypted room, after the number they had before it.
THEOREM KeyChanges == Spec => []KeyChangesAnnounced
<1>1. IInv => KeyChangesAnnounced
  <2> SUFFICES ASSUME IInv, AtRest, NEW u \in (Users \cup Remote) \ torn, fresh[u] # None
               PROVE  \A target \in Targets(u) : u \in KeysChanged(target, fresh[u], counter)
    BY DEF KeyChangesAnnounced, Targets
  <2> SUFFICES ASSUME NEW target \in Targets(u) PROVE u \in KeysChanged(target, fresh[u], counter)
    OBVIOUS
  <2>1. \A t \in Tasks : ~ToAnnounce(task[t], target, u, fresh[u])
    BY RestIsEmpty DEF IInv, ToAnnounce
  <2>2. Announced(changes, target, u, fresh[u])
    BY <2>1 DEF IInv, AnnounceInv
  <2>3. PICK x \in changes : x[1] = target /\ x[3] = u /\ fresh[u] < x[2]
    BY <2>2 DEF Announced
  <2>4. x[2] <= counter
    BY DEF IInv, NumbersInv
  <2> QED
    BY <2>3, <2>4 DEF KeysChanged
<1> QED
  BY <1>1, AccountsInductive, PTL

\* No one-time key of a device is handed out twice between two uploads, unless
\* requests overlap on the device.
THEOREM OneTimeKeysOnce == Spec => []OneTimeKeysGivenOnce
<1>1. IInv => OneTimeKeysGivenOnce
  BY DEF IInv, OneTimeInv, OneTimeKeysGivenOnce
<1> QED
  BY <1>1, AccountsInductive, PTL

=============================================================================
