--------------------------- MODULE UserDataProofs ---------------------------
(***************************************************************************)
(* Account data, key backups and transaction IDs, for any number of        *)
(* requests, types, keys, transactions and crashes.                        *)
(*                                                                         *)
(* The requests of UserData take no lock, but for the mutex of the room,   *)
(* so the invariant says what a request that is between two rows relies    *)
(* on, and the proof is that no step of another one takes it away.         *)
(* Account data (DataInv): the number of a new row is unlike every other   *)
(* until the index has it, and a row to be removed is not one the index    *)
(* leads to, except by the request that is about to move the index.        *)
(* Backups (BackupInv): a promised key is in no running deletion, and a    *)
(* deletion removes only what has its prefix.  Messages (MessageInv): an *)
(* event without its transaction belongs to the holder of the mutex.       *)
(***************************************************************************)
EXTENDS UserData, FiniteSetTheorems, SequenceTheorems, TLAPS

\* The steps of requests, by what they write.
KeySteps ==
  {<<"create">>} \cup ({"algorithm", "etag"} \X Nat) \cup ({"add", "key"} \X Nat \X Slots)
DataSteps ==
  ({"data"} \X Types \X SUBSET Tags) \cup ({"previous", "index"} \X Types \X Nat)
  \cup ({"remove"} \X Nat)
DeleteSteps == ({"noalgorithm", "noetag"} \X Nat) \cup ({"find", "scan"} \X SUBSET (Nat \X Slots))
MessageSteps == ({"lock", "event", "unlock"} \X Txns) \cup ({"txnid"} \X Txns \X Nat)
Steps == KeySteps \cup DataSteps \cup DeleteSteps \cup MessageSteps

\* The only request that is longer than a step or two is the one that adds keys.
Shape(s) ==
  \/ s \in Seq(KeySteps)
  \/ /\ s # <<>> /\ s = <<Head(s)>>
     /\ Head(s)[1] \in {"data", "previous", "remove", "find", "scan", "lock", "event", "unlock", "txnid"}
  \/ /\ Len(s) = 2 /\ s = <<Head(s), s[2]>>
     /\ \/ Head(s)[1] = "index" /\ s[2] \in {"remove"} \X Nat
        \/ Head(s)[1] = "noetag" /\ s[2][1] = "find"
  \/ /\ Len(s) = 3 /\ s = <<Head(s), s[2], s[3]>>
     /\ Head(s)[1] = "noalgorithm" /\ s[2][1] = "noetag" /\ s[3][1] = "find"

\* The types of the variables.
TypeOK ==
  /\ counter \in Nat
  /\ data \subseteq Nat \X Types \X SUBSET Tags
  /\ index \in [Types -> Nat]
  /\ algorithm \subseteq Nat
  /\ keys \subseteq Nat \X Slots
  /\ kept \subseteq Nat \X Slots
  /\ deleting \in [Requests -> SUBSET (Nat \X Slots)]
  /\ txns \subseteq Txns \X Nat
  /\ answers \subseteq Txns \X Nat
  /\ events \subseteq Nat \X Txns
  /\ lock \in Requests \cup {None}
  /\ todo \in [Requests -> Seq(Steps)]

ShapeInv == \A t \in Requests : Shape(todo[t])

\* A request between the new row and the index, and one that will remove a row.
Stores(t) == Is(t, "previous") \/ Is(t, "index")
Removes(t) == Is(t, "index") \/ Is(t, "remove")
OldRow(t) == IF Is(t, "index") THEN todo[t][2][2] ELSE Arg(t, 2)
HasRow(rows, n, type) == \E row \in rows : row[1] = n /\ row[2] = type

\* Account data between the rows of its updates.
DataInv ==
  /\ \A row \in data : row[1] # None /\ row[1] <= counter
  /\ \A row, other \in data : row[1] = other[1] => row[2] = other[2]
  /\ \A type \in Types : index[type] # None => HasRow(data, index[type], type)
  /\ \A t \in Requests : Stores(t) => /\ HasRow(data, Arg(t, 3), Arg(t, 2))
                                      /\ \A type \in Types : index[type] # Arg(t, 3)
  /\ \A t, u \in Requests : Stores(t) /\ Stores(u) /\ t # u => Arg(t, 3) # Arg(u, 3)
  /\ \A t, u \in Requests : Stores(t) /\ Removes(u) => Arg(t, 3) # OldRow(u)
  /\ \A t \in Requests : Removes(t) =>
       /\ OldRow(t) \in 0..counter
       /\ \A type \in Types : OldRow(t) # None /\ index[type] = OldRow(t) =>
            Is(t, "index") /\ Arg(t, 2) = type

\* Backups while keys are deleted.
BackupInv ==
  /\ kept \subseteq keys
  /\ \A t \in Requests :
       /\ kept \cap deleting[t] = {}
       /\ Is(t, "noalgorithm") => todo[t][3] = <<"find", deleting[t]>>
       /\ Is(t, "noetag") => todo[t][2] = <<"find", deleting[t]>>
       /\ Is(t, "find") => Arg(t, 2) = deleting[t]
       /\ Is(t, "scan") => Arg(t, 2) \subseteq deleting[t]

\* The event of a row <<transaction, event>>, and the other way round.
EventOf(row) == <<row[2], row[1]>>

\* Messages between the event and the row of its transaction.
MessageInv ==
  /\ \A t \in Requests : Is(t, "event") \/ Is(t, "txnid") \/ Is(t, "unlock") => lock = t
  /\ \A t \in Requests : Is(t, "event") => ExistingTxnId(Arg(t, 2)) = {}
  /\ \A t \in Requests : Is(t, "txnid") => <<Arg(t, 3), Arg(t, 2)>> \in events
  /\ \A e, f \in events : e[2] = f[2] /\ e[2] \notin torn => e = f
  /\ \A e \in events : \/ e[2] \in torn
                       \/ EventOf(e) \in txns
                       \/ \E t \in Requests : Is(t, "txnid") /\ Arg(t, 2) = e[2]
  /\ \A row \in txns \cup answers : EventOf(row) \in events

IInv == TypeOK /\ ShapeInv /\ DataInv /\ BackupInv /\ MessageInv

-----------------------------------------------------------------------------
(* Short sequences. *)

\* Appending a single step to nothing, or nothing to it.
LEMMA ConcatSingle ==
  ASSUME NEW a
  PROVE  <<>> \o <<a>> = <<a>> /\ <<a>> \o <<>> = <<a>> /\ <<>> \o <<>> = <<>>
<1>1. <<a>> \in Seq({a}) /\ <<>> \in Seq({a})
  OBVIOUS
<1> QED
  BY <1>1, ConcatEmptySeq

\* Two steps, with nothing after or before them.
LEMMA ConcatPair ==
  ASSUME NEW a, NEW b
  PROVE  <<a, b>> \o <<>> = <<a, b>> /\ <<>> \o <<a, b>> = <<a, b>>
<1>1. <<a, b>> \in Seq({a, b})
  OBVIOUS
<1> QED
  BY <1>1, ConcatEmptySeq

\* Two steps and a third one, as DeleteBackupRoute puts them together.
LEMMA ConcatTriple ==
  ASSUME NEW a, NEW b, NEW c
  PROVE  <<a, b>> \o <<c>> = <<a, b, c>>
<1> DEFINE s == <<a, b>> \o <<c>>
           r == <<a, b, c>>
<1>1. <<a, b>> \in Seq({a, b, c}) /\ <<c>> \in Seq({a, b, c}) /\ r \in Seq({a, b, c})
  OBVIOUS
<1>2. Len(s) = 3 /\ s \in Seq({a, b, c}) /\ s[1] = a /\ s[2] = b /\ s[3] = c
  BY <1>1, ConcatProperties
<1>3. Len(r) = 3 /\ r[1] = a /\ r[2] = b /\ r[3] = c
  OBVIOUS
<1>4. \A i \in 1..Len(s) : s[i] = r[i]
  <2> HIDE DEF s, r
  <2> TAKE i \in 1..Len(s)
  <2>1. i = 1 \/ i = 2 \/ i = 3
    BY <1>2
  <2> QED
    BY <1>2, <1>3, <2>1
<1> HIDE DEF s, r
<1>5. s = r
  BY <1>1, <1>2, <1>3, <1>4, SeqEqual
<1> QED
  BY <1>5 DEF s, r

\* First and rest of one step.
LEMMA HeadTail1 ==
  ASSUME NEW a
  PROVE  Head(<<a>>) = a /\ Tail(<<a>>) = <<>> /\ <<a>> # <<>>
  OBVIOUS

\* First, second and rest of two steps.
LEMMA HeadTail2 ==
  ASSUME NEW a, NEW b
  PROVE  /\ Head(<<a, b>>) = a /\ Tail(<<a, b>>) = <<b>> /\ <<a, b>> # <<>>
         /\ <<a, b>>[2] = b /\ Len(<<a, b>>) = 2
  OBVIOUS

\* First, second, third and rest of three steps.
LEMMA HeadTail3 ==
  ASSUME NEW a, NEW b, NEW c
  PROVE  /\ Head(<<a, b, c>>) = a /\ Tail(<<a, b, c>>) = <<b, c>> /\ <<a, b, c>> # <<>>
         /\ <<a, b, c>>[2] = b /\ <<a, b, c>>[3] = c /\ Len(<<a, b, c>>) = 3
  OBVIOUS

\* SetToSeq lists the elements of a finite set.
LEMMA SetToSeqIsSeq ==
  ASSUME NEW S, IsFiniteSet(S)
  PROVE  SetToSeq(S) \in Seq(S)
<1>1. Cardinality(S) \in Nat /\ \E f \in [1..Cardinality(S) -> S] : IsInjective(f)
  <2>1. Cardinality(S) \in Nat /\ \E f : f \in Bijection(1..Cardinality(S), S)
    BY FS_CardinalityType, FS_Bijection DEF ExistsBijection
  <2> QED
    BY <2>1 DEF Bijection, Injection, IsInjective
<1>2. SetToSeq(S) \in [1..Cardinality(S) -> S]
  BY <1>1 DEF SetToSeq
<1> QED
  BY <1>1, <1>2

-----------------------------------------------------------------------------
(* What a step of one request leaves alone. *)

\* The kinds of steps that the invariants of the three stores look at.
Quiet(s, kinds) == s = <<>> \/ Head(s)[1] \notin kinds

DataKinds == {"previous", "index", "remove"}
DeleteKinds == {"noalgorithm", "noetag", "find", "scan"}
MessageKinds == {"event", "txnid", "unlock"}

Moves(t, s) ==
  /\ todo' = [todo EXCEPT ![t] = s]
  /\ counter' \in Nat /\ counter <= counter'

\* A move of one request leaves what the others have to do as it was.
LEMMA Others ==
  ASSUME TypeOK, NEW t \in Requests, NEW s, Moves(t, s)
  PROVE  todo'[t] = s /\ \A u \in Requests \ {t} : todo'[u] = todo[u]
  BY DEF TypeOK, Moves

\* A step that writes no account data, and has none to write next, keeps the
\* invariant of account data; new numbers do no harm.
LEMMA DataLeftAlone ==
  ASSUME IInv, NEW t \in Requests, NEW s, Moves(t, s), Quiet(s, DataKinds), UNCHANGED accountData
  PROVE  DataInv'
<1>1. todo'[t] = s /\ \A u \in Requests \ {t} : todo'[u] = todo[u]
  BY Others DEF IInv
<1>2. \A u \in Requests : \/ ~Stores(u)' /\ ~Removes(u)'
                          \/ /\ Stores(u)' = Stores(u) /\ Removes(u)' = Removes(u)
                             /\ Is(u, "index")' = Is(u, "index") /\ OldRow(u)' = OldRow(u)
                             /\ Arg(u, 2)' = Arg(u, 2) /\ Arg(u, 3)' = Arg(u, 3)
  BY <1>1 DEF Quiet, DataKinds, Stores, Removes, Is, OldRow, Arg
<1>3. data' = data /\ index' = index /\ counter' \in Nat /\ counter \in Nat /\ counter <= counter'
  BY DEF accountData, Moves, IInv, TypeOK
<1>4. \A row \in data : row[1] \in Nat
  BY DEF IInv, TypeOK
<1>5. \A u \in Requests : Removes(u)' => OldRow(u)' <= counter'
  <2> SUFFICES ASSUME NEW u \in Requests, Removes(u)'  PROVE OldRow(u)' <= counter'
    OBVIOUS
  <2>1. OldRow(u)' = OldRow(u) /\ Removes(u)
    BY <1>2
  <2>2. OldRow(u) \in Nat /\ OldRow(u) <= counter
    BY <2>1 DEF IInv, DataInv
  <2> QED
    BY <2>1, <2>2, <1>3
<1> QED
  BY <1>2, <1>3, <1>4, <1>5 DEF IInv, DataInv, HasRow

\* The same for backups.
LEMMA BackupsLeftAlone ==
  ASSUME IInv, NEW t \in Requests, NEW s, Moves(t, s), Quiet(s, DeleteKinds),
         UNCHANGED <<keys, deleting, kept>>
  PROVE  BackupInv'
<1>1. todo'[t] = s /\ \A u \in Requests \ {t} : todo'[u] = todo[u]
  BY Others DEF IInv
<1> QED
  BY <1>1 DEF IInv, BackupInv, Quiet, DeleteKinds, Is, Arg

\* The same for messages, of a request that is not past the mutex either.
LEMMA MessagesLeftAlone ==
  ASSUME IInv, NEW t \in Requests, NEW s, Moves(t, s), Quiet(s, MessageKinds),
         Quiet(todo[t], MessageKinds), UNCHANGED messages
  PROVE  MessageInv'
<1>1. todo'[t] = s /\ \A u \in Requests \ {t} : todo'[u] = todo[u]
  BY Others DEF IInv
<1>2. txns' = txns /\ events' = events /\ lock' = lock /\ answers' = answers /\ torn' = torn
  BY DEF messages
<1>3. \A u \in Requests : \A k \in MessageKinds : Is(u, k)' = Is(u, k)
  BY <1>1 DEF Quiet, Is
<1>4. \A u \in Requests : (\E k \in MessageKinds : Is(u, k)) => u # t
  BY DEF Quiet, Is
<1>5. \A u \in Requests : u # t => Arg(u, 2)' = Arg(u, 2) /\ Arg(u, 3)' = Arg(u, 3)
  BY <1>1 DEF Arg
<1> QED
  BY <1>2, <1>3, <1>4, <1>5 DEF IInv, MessageInv, MessageKinds, EventOf, ExistingTxnId

\* The type invariant and the shape of the request that moves.
LEMMA TypesOfMove ==
  ASSUME IInv, NEW t \in Requests, NEW s \in Seq(Steps), Shape(s), Moves(t, s)
  PROVE  todo' \in [Requests -> Seq(Steps)] /\ ShapeInv'
<1>1. todo'[t] = s /\ \A u \in Requests \ {t} : todo'[u] = todo[u]
  BY Others DEF IInv
<1>2. todo' \in [Requests -> Seq(Steps)]
  BY DEF IInv, TypeOK, Moves
<1>3. ShapeInv'
  BY <1>1 DEF IInv, ShapeInv
<1> QED
  BY <1>2, <1>3

-----------------------------------------------------------------------------
(* The first step of a request says what follows it. *)

\* The kinds of the steps of a request that creates or updates a backup or adds
\* keys.
LEMMA KeyKinds ==
  ASSUME NEW s \in Seq(KeySteps), s # <<>>
  PROVE  /\ Head(s) \in KeySteps /\ Tail(s) \in Seq(KeySteps)
         /\ Head(s)[1] \in {"create", "algorithm", "etag", "add", "key"}
<1>1. Head(s) \in KeySteps /\ Tail(s) \in Seq(KeySteps)
  OBVIOUS
<1> QED
  BY <1>1 DEF KeySteps

\* What a request does next is one of its possible steps.
LEMMA HeadIsStep ==
  ASSUME IInv, NEW t \in Requests, todo[t] # <<>>
  PROVE  Head(todo[t]) \in Steps /\ Shape(todo[t]) /\ todo[t] \in Seq(Steps)
<1>1. todo[t] \in Seq(Steps) /\ Shape(todo[t])
  BY DEF IInv, TypeOK, ShapeInv
<1> QED
  BY <1>1

\* A request whose next step is one for keys has only such steps left.
LEMMA KeyRequest ==
  ASSUME IInv, NEW t \in Requests, todo[t] # <<>>,
         Head(todo[t])[1] \in {"create", "algorithm", "etag", "add", "key"}
  PROVE  todo[t] \in Seq(KeySteps) /\ Head(todo[t]) \in KeySteps /\ Tail(todo[t]) \in Seq(KeySteps)
<1>1. todo[t] \in Seq(KeySteps)
  BY HeadIsStep DEF Shape
<1> QED
  BY <1>1, KeyKinds

\* These steps are the last ones of their request.
LEMMA SingleStep ==
  ASSUME IInv, NEW t \in Requests, todo[t] # <<>>,
         Head(todo[t])[1] \in {"data", "previous", "remove", "find", "scan", "lock", "event",
                               "unlock", "txnid"}
  PROVE  Head(todo[t]) \in Steps /\ Tail(todo[t]) = <<>>
<1>1. todo[t] = <<Head(todo[t])>>
  BY HeadIsStep, KeyKinds DEF Shape
<1> QED
  BY <1>1, HeadTail1, HeadIsStep

\* After the index entry comes the removal of the old row, and nothing else.
LEMMA IndexRequest ==
  ASSUME IInv, NEW t \in Requests, Is(t, "index")
  PROVE  /\ Head(todo[t]) \in {"index"} \X Types \X Nat
         /\ todo[t][2] \in {"remove"} \X Nat
         /\ Tail(todo[t]) = <<todo[t][2]>>
<1>1. todo[t] # <<>> /\ Head(todo[t])[1] = "index"
  BY DEF Is
<1>2. todo[t] = <<Head(todo[t]), todo[t][2]>> /\ todo[t][2] \in {"remove"} \X Nat
  <2>1. todo[t] \notin Seq(KeySteps) /\ Shape(todo[t])
    BY <1>1, HeadIsStep, KeyKinds
  <2> QED
    BY <1>1, <2>1, Zenon DEF Shape
<1>3. Tail(todo[t]) = <<todo[t][2]>>
  <2>1. PICK a, b : todo[t] = <<a, b>> /\ b = todo[t][2]
    BY <1>2, Zenon
  <2> QED
    BY <2>1, HeadTail2
<1>4. Head(todo[t]) \in {"index"} \X Types \X Nat
  BY <1>1, HeadIsStep DEF Steps, KeySteps, DataSteps, DeleteSteps, MessageSteps
<1> QED
  BY <1>2, <1>3, <1>4

\* What follows the removal of a version is the search for the keys of that
\* request.
LEMMA DeleteRequest ==
  ASSUME IInv, NEW t \in Requests
  PROVE  /\ Is(t, "noetag") => Tail(todo[t]) = << <<"find", deleting[t]>> >>
         /\ Is(t, "noalgorithm") =>
              /\ todo[t][2] \in {"noetag"} \X Nat
              /\ Tail(todo[t]) = <<todo[t][2], <<"find", deleting[t]>> >>
<1>1. ASSUME Is(t, "noetag")  PROVE Tail(todo[t]) = << <<"find", deleting[t]>> >>
  <2>1. todo[t] # <<>> /\ Head(todo[t])[1] = "noetag"
    BY <1>1 DEF Is
  <2>2. todo[t] = <<Head(todo[t]), todo[t][2]>>
    <3>1. todo[t] \notin Seq(KeySteps) /\ Shape(todo[t])
      BY <2>1, HeadIsStep, KeyKinds
    <3> QED
      BY <2>1, <3>1, Zenon DEF Shape
  <2>3. todo[t][2] = <<"find", deleting[t]>>
    BY <1>1 DEF IInv, BackupInv
  <2>4. PICK a, b : todo[t] = <<a, b>> /\ b = todo[t][2]
    BY <2>2, Zenon
  <2> QED
    BY <2>3, <2>4, HeadTail2
<1>2. ASSUME Is(t, "noalgorithm")
      PROVE  /\ todo[t][2] \in {"noetag"} \X Nat
             /\ Tail(todo[t]) = <<todo[t][2], <<"find", deleting[t]>> >>
  <2>1. todo[t] # <<>> /\ Head(todo[t])[1] = "noalgorithm"
    BY <1>2 DEF Is
  <2>2. /\ Len(todo[t]) = 3
        /\ todo[t] = <<Head(todo[t]), todo[t][2], todo[t][3]>>
        /\ todo[t][2][1] = "noetag"
    <3>1. todo[t] \notin Seq(KeySteps) /\ Shape(todo[t])
      BY <2>1, HeadIsStep, KeyKinds
    <3> QED
      BY <2>1, <3>1, Zenon DEF Shape
  <2>3. todo[t][3] = <<"find", deleting[t]>>
    BY <1>2 DEF IInv, BackupInv
  <2>4. todo[t][2] \in Steps
    BY <2>1, <2>2, HeadIsStep
  <2>5. todo[t][2] \in {"noetag"} \X Nat
    BY <2>2, <2>4 DEF Steps, KeySteps, DataSteps, DeleteSteps, MessageSteps
  <2>6. PICK a, b, c : todo[t] = <<a, b, c>> /\ b = todo[t][2] /\ c = todo[t][3]
    BY <2>2, Zenon
  <2>7. Tail(todo[t]) = <<b, c>>
    BY <2>6, HeadTail3
  <2> QED
    BY <2>3, <2>5, <2>6, <2>7
<1> QED
  BY <1>1, <1>2

-----------------------------------------------------------------------------
(* Requests keep the invariant. *)

\* A new request that has nothing pending in any of the three stores keeps the
\* invariant.
LEMMA StartKeeps ==
  ASSUME IInv, NEW t \in Requests, NEW s \in Seq(Steps), Shape(s), Start(t, s), UNCHANGED backups,
         Quiet(s, DataKinds), Quiet(s, DeleteKinds), Quiet(s, MessageKinds)
  PROVE  IInv'
<1>1. Moves(t, s)
  BY DEF Start, Moves, IInv, TypeOK
<1>2. Quiet(todo[t], MessageKinds) /\ UNCHANGED messages /\ UNCHANGED accountData
  BY DEF Start, Quiet
<1>3. UNCHANGED <<keys, deleting, kept>>
  BY DEF backups
<1>4. DataInv' /\ BackupInv' /\ MessageInv'
  BY <1>1, <1>2, <1>3, DataLeftAlone, BackupsLeftAlone, MessagesLeftAlone
<1>5. todo' \in [Requests -> Seq(Steps)] /\ ShapeInv'
  BY <1>1, TypesOfMove
<1>6. TypeOK'
  BY <1>5, <1>2 DEF IInv, TypeOK, Start, accountData, backups, messages
<1> QED
  BY <1>4, <1>5, <1>6 DEF IInv

\* A new request to store account data or to send an event.
LEMMA StartSingle ==
  ASSUME IInv, NEW t \in Requests, NEW step \in Steps, Start(t, <<step>>), UNCHANGED backups,
         step[1] \in {"data", "lock"}
  PROVE  IInv'
<1>1. <<step>> \in Seq(Steps) /\ Head(<<step>>) = step /\ <<step>> # <<>>
  OBVIOUS
<1>2. Shape(<<step>>) /\ Quiet(<<step>>, DataKinds) /\ Quiet(<<step>>, DeleteKinds)
      /\ Quiet(<<step>>, MessageKinds)
  BY <1>1 DEF Shape, Quiet, DataKinds, DeleteKinds, MessageKinds
<1> QED
  BY <1>1, <1>2, StartKeeps

\* A new request to create or update a backup or to add keys.
LEMMA StartKeySteps ==
  ASSUME IInv, NEW t \in Requests, NEW s \in Seq(KeySteps), Start(t, s), UNCHANGED backups
  PROVE  IInv'
<1>1. s \in Seq(Steps)
  BY DEF Steps
<1>2. Shape(s) /\ Quiet(s, DataKinds) /\ Quiet(s, DeleteKinds) /\ Quiet(s, MessageKinds)
  BY KeyKinds DEF Shape, Quiet, DataKinds, DeleteKinds, MessageKinds
<1> QED
  BY <1>1, <1>2, StartKeeps

\* set_global_account_data_route and set_room_account_data_route keep the
\* invariant.
LEMMA SetAccountDataKeeps ==
  ASSUME IInv, NEW t \in Requests, NEW type \in Types, SetAccountDataRoute(t, type, {})
  PROVE  IInv'
<1>1. <<"data", type, {}>> \in Steps
  BY DEF Steps, DataSteps
<1> QED
  BY <1>1, StartSingle DEF SetAccountDataRoute

\* update_tag_route and delete_tag_route keep it: the tags they read are tags.
LEMMA TagKeeps ==
  ASSUME IInv, NEW t \in Requests, NEW tag \in Tags, NEW add \in BOOLEAN, TagRoute(t, tag, add)
  PROVE  IInv'
<1> DEFINE content == IF add THEN TagsOf \cup {tag} ELSE TagsOf \ {tag}
<1>1. TagsOf \in SUBSET Tags
  <2>1. \A c \in Get("m.tag") : c \in SUBSET Tags
    BY DEF Get, IInv, TypeOK
  <2> QED
    BY <2>1 DEF TagsOf
<1>2. content \in SUBSET Tags
  BY <1>1
<1> HIDE DEF content
<1>3. <<"data", "m.tag", content>> \in Steps
  BY <1>2, UserDataAssumption DEF Steps, DataSteps
<1>4. Start(t, << <<"data", "m.tag", content>> >>) /\ UNCHANGED backups
  BY DEF TagRoute, content
<1> QED
  BY <1>3, <1>4, StartSingle

\* send_message_event_route keeps it up to the mutex.
LEMMA SendMessageKeeps ==
  ASSUME IInv, NEW t \in Requests, NEW x \in Txns, SendMessageEventRoute(t, x)
  PROVE  IInv'
<1>1. <<"lock", x>> \in Steps
  BY DEF Steps, MessageSteps
<1> QED
  BY <1>1, StartSingle DEF SendMessageEventRoute

\* create_backup_version_route keeps it.
LEMMA CreateBackupRouteKeeps ==
  ASSUME IInv, NEW t \in Requests, CreateBackupRoute(t)
  PROVE  IInv'
<1>1. << <<"create">> >> \in Seq(KeySteps)
  <2>1. <<"create">> \in KeySteps
    BY DEF KeySteps
  <2> QED
    BY <2>1
<1> QED
  BY <1>1, StartKeySteps DEF CreateBackupRoute

\* update_backup_version_route keeps it.
LEMMA UpdateBackupRouteKeeps ==
  ASSUME IInv, NEW t \in Requests, NEW v \in algorithm, UpdateBackupRoute(t, v)
  PROVE  IInv'
<1>1. << <<"algorithm", v>>, <<"etag", v>> >> \in Seq(KeySteps)
  <2>1. <<"algorithm", v>> \in KeySteps /\ <<"etag", v>> \in KeySteps
    BY DEF KeySteps, IInv, TypeOK
  <2> QED
    BY <2>1
<1> QED
  BY <1>1, StartKeySteps DEF UpdateBackupRoute

\* add_backup_keys_route keeps it, whatever set of keys it is given.
LEMMA AddBackupKeysKeeps ==
  ASSUME IInv, NEW t \in Requests, NEW v \in algorithm, NEW slots \in SUBSET Slots,
         AddBackupKeysRoute(t, v, slots)
  PROVE  IInv'
<1> DEFINE seq == SetToSeq(slots)
           adds == [i \in 1..Len(seq) |-> <<"add", v, seq[i]>>]
<1>1. seq \in Seq(slots)
  BY SetToSeqIsSeq, UserDataAssumption, FS_Subset
<1> HIDE DEF seq
<1>2. Len(seq) \in Nat /\ \A i \in 1..Len(seq) : seq[i] \in Slots
  BY <1>1
<1>3. \A i \in 1..Len(seq) : <<"add", v, seq[i]>> \in KeySteps
  BY <1>2 DEF KeySteps, IInv, TypeOK
<1>4. adds \in Seq(KeySteps)
  BY <1>2, <1>3, IsASeq
<1>5. Start(t, adds) /\ UNCHANGED backups
  BY DEF AddBackupKeysRoute, seq
<1> HIDE DEF adds
<1> QED
  BY <1>4, <1>5, StartKeySteps

DeleteHead(s, ks) ==
  /\ s # <<>> /\ Head(s)[1] \in {"find", "noalgorithm"} /\ Shape(s)
  /\ Head(s)[1] = "find" => Head(s)[2] = ks
  /\ Head(s)[1] = "noalgorithm" => s[3] = <<"find", ks>>

\* A request to delete keys, at its start.
LEMMA DeleteShape ==
  ASSUME NEW s, NEW ks,
         \/ s = << <<"find", ks>> >>
         \/ \E v \in Nat : s = << <<"noalgorithm", v>>, <<"noetag", v>>, <<"find", ks>> >>
  PROVE  DeleteHead(s, ks)
<1>1. CASE s = << <<"find", ks>> >>
  <2>1. Head(s) = <<"find", ks>> /\ s # <<>> /\ s = <<Head(s)>>
    BY <1>1, HeadTail1
  <2> QED
    BY <2>1 DEF Shape, DeleteHead
<1>2. ASSUME NEW v \in Nat, s = << <<"noalgorithm", v>>, <<"noetag", v>>, <<"find", ks>> >>
      PROVE  DeleteHead(s, ks)
  <2>1. Head(s) = <<"noalgorithm", v>> /\ s # <<>> /\ Len(s) = 3
        /\ s[2] = <<"noetag", v>> /\ s[3] = <<"find", ks>>
    BY <1>2, HeadTail3
  <2>2. s = <<Head(s), s[2], s[3]>>
    BY <1>2, <2>1, Zenon
  <2>3. Shape(s)
    BY <2>1, <2>2 DEF Shape
  <2> QED
    BY <2>1, <2>3 DEF DeleteHead
<1> QED
  BY <1>1, <1>2

\* A new request to delete keys keeps it: from here on they are not promised.
LEMMA DeletesKeeps ==
  ASSUME IInv, NEW t \in Requests, NEW ks \in SUBSET (Nat \X Slots), NEW before,
         NEW s \in Seq(Steps), s = before \o << <<"find", ks>> >>, NEW names, Deletes(t, ks, names, before),
         \/ s = << <<"find", ks>> >>
         \/ \E v \in Nat : s = << <<"noalgorithm", v>>, <<"noetag", v>>, <<"find", ks>> >>
  PROVE  IInv'
<1>1. /\ Start(t, s) /\ deleting' = [deleting EXCEPT ![t] = ks] /\ kept' = kept \ ks
      /\ UNCHANGED <<algorithm, etag, keys>>
  BY DEF Deletes
<1>2. Moves(t, s)
  BY <1>1 DEF Start, Moves, IInv, TypeOK
<1>3. Quiet(todo[t], MessageKinds) /\ UNCHANGED messages /\ UNCHANGED accountData
  BY <1>1 DEF Start, Quiet
<1>4. DeleteHead(s, ks)
  BY DeleteShape
<1>5. DataInv' /\ MessageInv'
  BY <1>2, <1>3, <1>4, DataLeftAlone, MessagesLeftAlone DEF DeleteHead, Quiet, DataKinds, MessageKinds
<1>6. todo' \in [Requests -> Seq(Steps)] /\ ShapeInv'
  BY <1>2, <1>4, TypesOfMove DEF DeleteHead
<1>7. TypeOK'
  BY <1>1, <1>3, <1>6 DEF IInv, TypeOK, Start, accountData, messages
<1>8. BackupInv'
  <2>1. todo'[t] = s /\ \A u \in Requests \ {t} : todo'[u] = todo[u]
    BY <1>2, Others DEF IInv
  <2>2. deleting'[t] = ks /\ \A u \in Requests \ {t} : deleting'[u] = deleting[u]
    BY <1>1 DEF IInv, TypeOK
  <2>3. kept' \subseteq keys' /\ \A u \in Requests : kept' \cap deleting'[u] = {}
    BY <1>1, <2>2 DEF IInv, BackupInv
  <2>4. ASSUME NEW u \in Requests \ {t}
        PROVE  /\ Is(u, "noalgorithm")' => todo'[u][3] = <<"find", deleting'[u]>>
               /\ Is(u, "noetag")' => todo'[u][2] = <<"find", deleting'[u]>>
               /\ Is(u, "find")' => Arg(u, 2)' = deleting'[u]
               /\ Is(u, "scan")' => Arg(u, 2)' \subseteq deleting'[u]
    BY <2>1, <2>2 DEF IInv, BackupInv, Is, Arg
  <2>5. /\ Is(t, "noalgorithm")' => todo'[t][3] = <<"find", deleting'[t]>>
        /\ ~Is(t, "noetag")' /\ ~Is(t, "scan")'
        /\ Is(t, "find")' => Arg(t, 2)' = deleting'[t]
    BY <1>4, <2>1, <2>2 DEF DeleteHead, Is, Arg
  <2> QED
    BY <2>3, <2>4, <2>5 DEF BackupInv
<1> QED
  BY <1>5, <1>6, <1>7, <1>8 DEF IInv

\* The four routes that delete a version or keys of it keep it.
LEMMA DeleteRoutesKeep ==
  ASSUME IInv, NEW t \in Requests, NEW v \in algorithm
  PROVE  /\ DeleteBackupRoute(t, v) => IInv'
         /\ DeleteAllKeysRoute(t, v) => IInv'
         /\ \A slot \in Slots : DeleteRoomKeysRoute(t, v, slot[1]) \/ DeleteRoomKeyRoute(t, v, slot)
              => IInv'
<1>1. v \in Nat /\ OfVersion(v) \in SUBSET (Nat \X Slots)
  BY DEF IInv, TypeOK, OfVersion
<1>2. ASSUME NEW ks \in SUBSET (Nat \X Slots), NEW names, Deletes(t, ks, names, <<>>)
      PROVE  IInv'
  <2>1. <<"find", ks>> \in Steps
    BY DEF Steps, DeleteSteps
  <2>2. << <<"find", ks>> >> = <<>> \o << <<"find", ks>> >>
    BY ConcatSingle
  <2>3. << <<"find", ks>> >> \in Seq(Steps)
    BY <2>1
  <2> QED
    BY <1>2, <2>2, <2>3, DeletesKeeps
<1>3. ASSUME DeleteBackupRoute(t, v)
      PROVE  IInv'
  <2> DEFINE ks == OfVersion(v)
             before == << <<"noalgorithm", v>>, <<"noetag", v>> >>
             s == << <<"noalgorithm", v>>, <<"noetag", v>>, <<"find", ks>> >>
  <2>1. <<"find", ks>> \in Steps /\ <<"noalgorithm", v>> \in Steps /\ <<"noetag", v>> \in Steps
    BY <1>1 DEF Steps, DeleteSteps
  <2>2. s = before \o << <<"find", ks>> >>
    BY ConcatTriple
  <2>3. s \in Seq(Steps)
    BY <2>1
  <2>4. Deletes(t, ks, ks, before)
    BY <1>3 DEF DeleteBackupRoute
  <2>5. \E w \in Nat : s = << <<"noalgorithm", w>>, <<"noetag", w>>, <<"find", ks>> >>
    BY <1>1
  <2> HIDE DEF s, ks, before
  <2>6. ks \in SUBSET (Nat \X Slots)
    BY <1>1 DEF ks
  <2> QED
    BY <2>2, <2>3, <2>4, <2>5, <2>6, DeletesKeeps
<1>4. \A room : OfRoom(v, room) \in SUBSET (Nat \X Slots)
  BY <1>1 DEF OfRoom
<1>5. \A slot \in Slots : OfSession(v, slot) \in SUBSET (Nat \X Slots)
  BY <1>1 DEF OfSession
<1> QED
  BY <1>1, <1>2, <1>3, <1>4, <1>5 DEF DeleteAllKeysRoute, DeleteRoomKeysRoute, DeleteRoomKeyRoute

-----------------------------------------------------------------------------
(* The steps of account data. *)

DataTypes == counter \in Nat /\ data \subseteq Nat \X Types \X SUBSET Tags /\ index \in [Types -> Nat]

\* A step of account data keeps the whole invariant if it keeps its own part.
LEMMA DataStep ==
  ASSUME IInv, NEW t \in Requests, todo[t] # <<>>, Head(todo[t])[1] \in {"data"} \cup DataKinds,
         NEW s \in Seq(Steps), Shape(s), s = <<>> \/ Head(s)[1] \in DataKinds, Moves(t, s),
         UNCHANGED <<backups, messages>>, DataTypes', DataInv'
  PROVE  IInv'
<1>1. Quiet(s, DeleteKinds) /\ Quiet(s, MessageKinds) /\ Quiet(todo[t], MessageKinds)
  BY DEF Quiet, DataKinds, DeleteKinds, MessageKinds
<1>2. BackupInv'
  BY <1>1, BackupsLeftAlone DEF backups
<1>3. MessageInv'
  BY <1>1, MessagesLeftAlone
<1>4. todo' \in [Requests -> Seq(Steps)] /\ ShapeInv'
  BY TypesOfMove
<1>5. TypeOK'
  BY <1>4 DEF IInv, TypeOK, DataTypes, backups, messages
<1> QED
  BY <1>2, <1>3, <1>4, <1>5 DEF IInv

\* A single last step is a well formed rest of a request.
LEMMA OneStep ==
  ASSUME NEW step \in Steps,
         step[1] \in {"data", "previous", "remove", "find", "scan", "lock", "event", "unlock", "txnid"}
  PROVE  <<step>> \in Seq(Steps) /\ Shape(<<step>>) /\ Head(<<step>>) = step /\ <<step>> # <<>>
<1>1. Head(<<step>>) = step /\ <<step>> # <<>> /\ <<step>> \in Seq(Steps)
  OBVIOUS
<1> QED
  BY <1>1 DEF Shape

\* So is nothing.
LEMMA NoStep == <<>> \in Seq(Steps) /\ Shape(<<>>)
<1>1. <<>> \in Seq(KeySteps) /\ <<>> \in Seq(Steps)
  OBVIOUS
<1> QED
  BY <1>1 DEF Shape

\* The new row of account_data.update has a number that no row, index entry or
\* request has.
LEMMA InsertDataKeeps ==
  ASSUME IInv, NEW t \in Requests, InsertData(t)
  PROVE  IInv'
<1> DEFINE type == Arg(t, 2)
           n == counter + 1
           s == << <<"previous", type, n>> >>
<1>1. todo[t] # <<>> /\ Head(todo[t])[1] = "data"
  BY DEF InsertData, Is
<1>2. Head(todo[t]) \in Steps /\ Tail(todo[t]) = <<>>
  BY <1>1, SingleStep
<1>3. type \in Types /\ Arg(t, 3) \in SUBSET Tags
  BY <1>1, <1>2 DEF Arg, Steps, KeySteps, DataSteps, DeleteSteps, MessageSteps
<1>4. counter \in Nat /\ n \in Nat /\ n # 0 /\ n > counter /\ todo \in [Requests -> Seq(Steps)]
  BY DEF IInv, TypeOK
<1>5. todo' = [todo EXCEPT ![t] = s]
  BY <1>2, <1>4, ConcatSingle DEF InsertData, Then
<1>6. /\ counter' = n /\ data' = data \cup {<<n, type, Arg(t, 3)>>} /\ index' = index
      /\ UNCHANGED <<backups, messages>>
  BY DEF InsertData
<1> HIDE DEF n, type
<1>7. <<"previous", type, n>> \in Steps
  BY <1>3, <1>4 DEF Steps, DataSteps
<1>8. s \in Seq(Steps) /\ Shape(s) /\ s # <<>> /\ Head(s) = <<"previous", type, n>>
  BY <1>7, OneStep
<1> HIDE DEF s
<1>9. Moves(t, s)
  BY <1>4, <1>5, <1>6 DEF Moves
<1>10. todo'[t] = s /\ \A u \in Requests \ {t} : todo'[u] = todo[u]
  BY <1>9, Others DEF IInv
<1>11. DataTypes'
  BY <1>3, <1>4, <1>6 DEF DataTypes, IInv, TypeOK
<1>12. /\ Stores(t)' /\ ~Removes(t)' /\ Arg(t, 2)' = type /\ Arg(t, 3)' = n
       /\ ~Stores(t) /\ ~Removes(t)
  BY <1>1, <1>8, <1>10 DEF Stores, Removes, Is, Arg
<1>13. \A u \in Requests \ {t} :
         /\ Stores(u)' = Stores(u) /\ Removes(u)' = Removes(u) /\ OldRow(u)' = OldRow(u)
         /\ Arg(u, 2)' = Arg(u, 2) /\ Arg(u, 3)' = Arg(u, 3) /\ Is(u, "index")' = Is(u, "index")
  BY <1>10 DEF Stores, Removes, Is, Arg, OldRow
<1>14. DataInv'
  <2>1. DataInv /\ index \in [Types -> Nat] /\ \A row \in data : row[1] \in Nat
    BY DEF IInv, TypeOK
  <2>2. \A row \in data : row[1] # n /\ row[1] <= n /\ row[1] # None
    BY <2>1, <1>4 DEF DataInv
  <2>3. \A row \in data' : row[1] # None /\ row[1] <= counter'
    BY <2>2, <1>4, <1>6 DEF None
  <2>4. \A row, other \in data' : row[1] = other[1] => row[2] = other[2]
    BY <2>1, <2>2, <1>6 DEF DataInv
  <2>5. \A m, ty : HasRow(data, m, ty) => HasRow(data', m, ty) /\ m # n
    BY <1>6, <2>2 DEF HasRow
  <2>6. HasRow(data', n, type)
    <3> DEFINE row == <<n, type, Arg(t, 3)>>
    <3>1. row \in data' /\ row[1] = n /\ row[2] = type
      BY <1>6
    <3> QED
      BY <3>1 DEF HasRow
  <2>7. \A ty \in Types : index[ty] # n
    BY <2>1, <2>5, <1>4 DEF DataInv, None
  <2>8. \A u \in Requests : Removes(u) => OldRow(u) # n /\ OldRow(u) \in 0..n
    BY <2>1, <1>4 DEF DataInv
  <2>9. \A u \in Requests : Stores(u) => Arg(u, 3) # n
    BY <2>1, <2>5 DEF DataInv
  <2>10. \A ty \in Types : index'[ty] # None => HasRow(data', index'[ty], ty)
    BY <2>1, <2>5, <1>6 DEF DataInv
  <2>11. \A u \in Requests : Stores(u)' => /\ HasRow(data', Arg(u, 3)', Arg(u, 2)')
                                           /\ \A ty \in Types : index'[ty] # Arg(u, 3)'
    BY <2>1, <2>5, <2>6, <2>7, <1>6, <1>12, <1>13 DEF DataInv, HasRow
  <2>12. \A u, v \in Requests : Stores(u)' /\ Stores(v)' /\ u # v => Arg(u, 3)' # Arg(v, 3)'
    BY <2>1, <2>9, <1>12, <1>13 DEF DataInv
  <2>13. \A u, v \in Requests : Stores(u)' /\ Removes(v)' => Arg(u, 3)' # OldRow(v)'
    BY <2>1, <2>8, <1>12, <1>13 DEF DataInv
  <2>14. \A u \in Requests : Removes(u)' =>
           /\ OldRow(u)' \in 0..counter'
           /\ \A ty \in Types : OldRow(u)' # None /\ index'[ty] = OldRow(u)' =>
                Is(u, "index")' /\ Arg(u, 2)' = ty
    BY <2>1, <2>8, <1>6, <1>12, <1>13 DEF DataInv
  <2> QED
    BY <2>3, <2>4, <2>10, <2>11, <2>12, <2>13, <2>14 DEF DataInv
<1> QED
  BY <1>1, <1>6, <1>8, <1>9, <1>11, <1>14, DataStep DEF DataKinds

\* Reading the old row keeps it: the number belongs to no other type and no new
\* row.
LEMMA PreviousDataKeeps ==
  ASSUME IInv, NEW t \in Requests, PreviousData(t)
  PROVE  IInv'
<1> DEFINE type == Arg(t, 2)
           n == Arg(t, 3)
           s == << <<"index", type, n>>, <<"remove", index[type]>> >>
<1>1. todo[t] # <<>> /\ Head(todo[t])[1] = "previous" /\ Is(t, "previous")
  BY DEF PreviousData, Is
<1>2. Head(todo[t]) \in Steps /\ Tail(todo[t]) = <<>>
  BY <1>1, SingleStep
<1>3. type \in Types /\ n \in Nat
  BY <1>1, <1>2 DEF Arg, Steps, KeySteps, DataSteps, DeleteSteps, MessageSteps
<1>4. counter \in Nat /\ index \in [Types -> Nat] /\ todo \in [Requests -> Seq(Steps)]
  BY DEF IInv, TypeOK
<1>5. todo' = [todo EXCEPT ![t] = s]
  BY <1>2, <1>4, ConcatPair DEF PreviousData, Then
<1>6. UNCHANGED <<counter, accountData, backups, messages>> /\ counter' = counter
      /\ data' = data /\ index' = index
  BY DEF PreviousData, accountData
<1> HIDE DEF n, type
<1>7. <<"index", type, n>> \in Steps /\ <<"remove", index[type]>> \in {"remove"} \X Nat
      /\ <<"remove", index[type]>> \in Steps
  BY <1>3, <1>4 DEF Steps, DataSteps
<1>8. /\ s \in Seq(Steps) /\ s # <<>> /\ Head(s) = <<"index", type, n>>
      /\ s[2] = <<"remove", index[type]>> /\ Len(s) = 2
  BY <1>7
<1>9. Shape(s)
  <2>1. s = <<Head(s), s[2]>>
    BY <1>8, Zenon
  <2> HIDE DEF s
  <2> QED
    BY <1>7, <1>8, <2>1 DEF Shape
<1> HIDE DEF s
<1>10. Moves(t, s)
  BY <1>4, <1>5, <1>6 DEF Moves
<1>11. todo'[t] = s /\ \A u \in Requests \ {t} : todo'[u] = todo[u]
  BY <1>10, Others DEF IInv
<1>12. DataTypes'
  BY <1>6 DEF DataTypes, IInv, TypeOK
<1>13. /\ Stores(t)' /\ Removes(t)' /\ Is(t, "index")' /\ Arg(t, 2)' = type /\ Arg(t, 3)' = n
       /\ OldRow(t)' = index[type]
       /\ Stores(t) /\ ~Removes(t) /\ Arg(t, 2) = type /\ Arg(t, 3) = n
  BY <1>1, <1>8, <1>11 DEF Stores, Removes, Is, Arg, OldRow, n, type
<1>14. \A u \in Requests \ {t} :
         /\ Stores(u)' = Stores(u) /\ Removes(u)' = Removes(u) /\ OldRow(u)' = OldRow(u)
         /\ Arg(u, 2)' = Arg(u, 2) /\ Arg(u, 3)' = Arg(u, 3) /\ Is(u, "index")' = Is(u, "index")
  BY <1>11 DEF Stores, Removes, Is, Arg, OldRow
<1>15. DataInv'
  <2>1. DataInv /\ \A row \in data : row[1] \in Nat
    BY DEF IInv, TypeOK
  <2>2. index[type] \in 0..counter
    BY <2>1, <1>3, <1>4 DEF DataInv, HasRow, None
  <2>3. \A ty \in Types : index[ty] = index[type] /\ index[ty] # None => ty = type
    BY <2>1, <1>3 DEF DataInv, HasRow
  <2>4. \A u \in Requests : Stores(u)' => Stores(u) /\ Arg(u, 3)' = Arg(u, 3) /\ Arg(u, 2)' = Arg(u, 2)
    BY <1>13, <1>14
  <2>5. \A u \in Requests : Stores(u) => Arg(u, 3) # index[type]
    BY <2>1, <1>3 DEF DataInv
  <2>6. \A u, v \in Requests : Stores(u)' /\ Removes(v)' => Arg(u, 3)' # OldRow(v)'
    BY <2>1, <2>4, <2>5, <1>13, <1>14 DEF DataInv
  <2>7. \A u \in Requests : Removes(u)' =>
          /\ OldRow(u)' \in 0..counter'
          /\ \A ty \in Types : OldRow(u)' # None /\ index'[ty] = OldRow(u)' =>
               Is(u, "index")' /\ Arg(u, 2)' = ty
    BY <2>1, <2>2, <2>3, <1>6, <1>13, <1>14 DEF DataInv
  <2> QED
    BY <2>1, <2>4, <2>6, <2>7, <1>6 DEF DataInv
<1> QED
  BY <1>1, <1>6, <1>8, <1>9, <1>10, <1>12, <1>15, DataStep DEF DataKinds

\* The index moves to the new row, and away from the row that will be removed.
LEMMA InsertIndexKeeps ==
  ASSUME IInv, NEW t \in Requests, InsertIndex(t)
  PROVE  IInv'
<1> DEFINE type == Arg(t, 2)
           n == Arg(t, 3)
           old == todo[t][2]
           s == <<old>>
<1>1. Is(t, "index") /\ todo[t] # <<>> /\ Head(todo[t])[1] = "index"
  BY DEF InsertIndex, Is
<1>2. /\ Head(todo[t]) \in {"index"} \X Types \X Nat
      /\ old \in {"remove"} \X Nat /\ Tail(todo[t]) = <<old>>
  BY <1>1, IndexRequest
<1>3. type \in Types /\ n \in Nat /\ old[1] = "remove" /\ old[2] \in Nat /\ OldRow(t) = old[2]
  BY <1>1, <1>2 DEF Arg, OldRow
<1>4. counter \in Nat /\ index \in [Types -> Nat] /\ todo \in [Requests -> Seq(Steps)]
  BY DEF IInv, TypeOK
<1> HIDE DEF old
<1>5. todo' = [todo EXCEPT ![t] = s]
  BY <1>2, <1>4, ConcatSingle DEF InsertIndex, Then, Done
<1>6. /\ counter' = counter /\ data' = data /\ UNCHANGED <<backups, messages>>
      /\ index' = [index EXCEPT ![type] = n]
  BY DEF InsertIndex
<1> HIDE DEF n, type
<1>7. old \in Steps
  BY <1>2 DEF Steps, DataSteps
<1>8. s \in Seq(Steps) /\ Shape(s) /\ s # <<>> /\ Head(s) = old
  BY <1>3, <1>7, OneStep
<1> HIDE DEF s
<1>9. Moves(t, s)
  BY <1>4, <1>5, <1>6 DEF Moves
<1>10. todo'[t] = s /\ \A u \in Requests \ {t} : todo'[u] = todo[u]
  BY <1>9, Others DEF IInv
<1>11. DataTypes'
  BY <1>3, <1>4, <1>6 DEF DataTypes, IInv, TypeOK
<1>12. /\ ~Stores(t)' /\ Removes(t)' /\ ~Is(t, "index")' /\ OldRow(t)' = old[2]
       /\ Stores(t) /\ Removes(t) /\ Arg(t, 2) = type /\ Arg(t, 3) = n
  BY <1>1, <1>3, <1>8, <1>10 DEF Stores, Removes, Is, Arg, OldRow, n, type
<1>13. \A u \in Requests \ {t} :
         /\ Stores(u)' = Stores(u) /\ Removes(u)' = Removes(u) /\ OldRow(u)' = OldRow(u)
         /\ Arg(u, 2)' = Arg(u, 2) /\ Arg(u, 3)' = Arg(u, 3) /\ Is(u, "index")' = Is(u, "index")
  BY <1>10 DEF Stores, Removes, Is, Arg, OldRow
<1>14. DataInv'
  <2>1. DataInv
    BY DEF IInv
  <2>2. index'[type] = n /\ \A ty \in Types \ {type} : index'[ty] = index[ty]
    BY <1>3, <1>4, <1>6
  <2>3. HasRow(data, n, type)
    BY <2>1, <1>12 DEF DataInv
  <2>4. \A ty \in Types : index'[ty] # None => HasRow(data', index'[ty], ty)
    BY <2>1, <2>2, <2>3, <1>6 DEF DataInv
  <2>5. \A u \in Requests : Stores(u)' => /\ u # t /\ Stores(u)
                                          /\ Arg(u, 3)' = Arg(u, 3) /\ Arg(u, 2)' = Arg(u, 2)
    BY <1>12, <1>13
  <2>6. \A u \in Requests : Stores(u)' => /\ HasRow(data', Arg(u, 3)', Arg(u, 2)')
                                          /\ \A ty \in Types : index'[ty] # Arg(u, 3)'
    BY <2>1, <2>2, <2>5, <1>6, <1>12 DEF DataInv
  <2>7. \A u \in Requests : Removes(u)' => Removes(u) /\ OldRow(u)' = OldRow(u)
    BY <1>3, <1>12, <1>13
  <2>8. \A u \in Requests : Removes(u) => OldRow(u) # n
    BY <2>1, <1>12 DEF DataInv
  <2>9. \A u \in Requests : Removes(u)' =>
          /\ OldRow(u)' \in 0..counter'
          /\ \A ty \in Types : OldRow(u)' # None /\ index'[ty] = OldRow(u)' =>
               Is(u, "index")' /\ Arg(u, 2)' = ty
    BY <2>1, <2>2, <2>7, <2>8, <1>6, <1>12, <1>13 DEF DataInv
  <2> QED
    BY <2>1, <2>4, <2>5, <2>6, <2>7, <2>9, <1>6 DEF DataInv
<1> QED
  BY <1>1, <1>3, <1>6, <1>8, <1>9, <1>11, <1>14, DataStep DEF DataKinds

\* The removed row is neither one the index leads to nor one it is about to lead
\* to.
LEMMA RemoveDataKeeps ==
  ASSUME IInv, NEW t \in Requests, RemoveData(t)
  PROVE  IInv'
<1> DEFINE old == Arg(t, 2)
<1>1. Is(t, "remove") /\ todo[t] # <<>> /\ Head(todo[t])[1] = "remove"
  BY DEF RemoveData, Is
<1>2. Head(todo[t]) \in Steps /\ Tail(todo[t]) = <<>>
  BY <1>1, SingleStep
<1>3. counter \in Nat /\ index \in [Types -> Nat] /\ todo \in [Requests -> Seq(Steps)]
  BY DEF IInv, TypeOK
<1>4. todo' = [todo EXCEPT ![t] = <<>>]
  BY <1>2, <1>3, ConcatSingle DEF RemoveData, Then, Done
<1>5. /\ counter' = counter /\ index' = index /\ UNCHANGED <<backups, messages>>
      /\ data' = {row \in data : row[1] # old}
  BY DEF RemoveData
<1>6. Moves(t, <<>>)
  BY <1>3, <1>4, <1>5 DEF Moves
<1>7. todo'[t] = <<>> /\ \A u \in Requests \ {t} : todo'[u] = todo[u]
  BY <1>6, Others DEF IInv
<1>8. DataTypes'
  BY <1>3, <1>5 DEF DataTypes, IInv, TypeOK
<1>9. Removes(t) /\ OldRow(t) = old /\ ~Is(t, "index") /\ ~Stores(t)' /\ ~Removes(t)'
  BY <1>1, <1>7 DEF Stores, Removes, Is, OldRow
<1> HIDE DEF old
<1>10. \A u \in Requests \ {t} :
         /\ Stores(u)' = Stores(u) /\ Removes(u)' = Removes(u) /\ OldRow(u)' = OldRow(u)
         /\ Arg(u, 2)' = Arg(u, 2) /\ Arg(u, 3)' = Arg(u, 3) /\ Is(u, "index")' = Is(u, "index")
  BY <1>7 DEF Stores, Removes, Is, Arg, OldRow
<1>11. DataInv'
  <2>1. DataInv
    BY DEF IInv
  <2>2. \A m, ty : HasRow(data, m, ty) /\ m # old => HasRow(data', m, ty)
    BY <1>5 DEF HasRow
  <2>3. \A ty \in Types : index[ty] # None => index[ty] # old
    BY <2>1, <1>9 DEF DataInv
  <2>4. \A ty \in Types : index'[ty] # None => HasRow(data', index'[ty], ty)
    BY <2>1, <2>2, <2>3, <1>5 DEF DataInv
  <2>5. \A u \in Requests : Stores(u)' => /\ u # t /\ Stores(u)
                                          /\ Arg(u, 3)' = Arg(u, 3) /\ Arg(u, 2)' = Arg(u, 2)
    BY <1>9, <1>10
  <2>6. \A u \in Requests : Stores(u)' => /\ HasRow(data', Arg(u, 3)', Arg(u, 2)')
                                          /\ \A ty \in Types : index'[ty] # Arg(u, 3)'
    <3>1. \A u \in Requests : Stores(u) => Arg(u, 3) # old
      BY <2>1, <1>9 DEF DataInv
    <3> QED
      BY <2>1, <2>2, <2>5, <3>1, <1>5 DEF DataInv
  <2>7. \A u \in Requests : Removes(u)' => /\ u # t /\ Removes(u) /\ OldRow(u)' = OldRow(u)
                                           /\ Is(u, "index")' = Is(u, "index")
                                           /\ Arg(u, 2)' = Arg(u, 2)
    BY <1>9, <1>10
  <2>8. \A row \in data' : row \in data
    BY <1>5
  <2> QED
    BY <2>1, <2>4, <2>5, <2>6, <2>7, <2>8, <1>5 DEF DataInv
<1> QED
  BY <1>1, <1>5, <1>6, <1>8, <1>11, NoStep, DataStep DEF DataKinds

-----------------------------------------------------------------------------
(* The steps of backups. *)

\* A step for keys keeps the whole invariant if the promised keys stay and are
\* being deleted by nobody.
LEMMA KeyStep ==
  ASSUME IInv, NEW t \in Requests, todo[t] # <<>>,
         Head(todo[t])[1] \in {"create", "algorithm", "etag", "add", "key"},
         NEW s \in Seq(KeySteps), Moves(t, s), UNCHANGED <<accountData, messages, deleting>>,
         algorithm' \subseteq Nat, keys' \subseteq Nat \X Slots, kept' \subseteq keys',
         \A u \in Requests : kept' \cap deleting[u] = {}
  PROVE  IInv'
<1>1. s \in Seq(Steps) /\ Shape(s)
  BY DEF Steps, Shape
<1>2. Quiet(s, DataKinds) /\ Quiet(s, DeleteKinds) /\ Quiet(s, MessageKinds)
      /\ Quiet(todo[t], MessageKinds)
  BY KeyKinds DEF Quiet, DataKinds, DeleteKinds, MessageKinds
<1>3. DataInv' /\ MessageInv'
  BY <1>2, DataLeftAlone, MessagesLeftAlone
<1>4. todo' \in [Requests -> Seq(Steps)] /\ ShapeInv'
  BY <1>1, TypesOfMove
<1>5. TypeOK'
  BY <1>4 DEF IInv, TypeOK, accountData, messages, Moves
<1>6. BackupInv'
  <2>1. todo'[t] = s /\ \A u \in Requests \ {t} : todo'[u] = todo[u]
    BY Others DEF IInv
  <2>2. \A u \in Requests : \A k \in DeleteKinds : Is(u, k)' =>
          Is(u, k) /\ todo'[u] = todo[u] /\ Arg(u, 2)' = Arg(u, 2) /\ deleting'[u] = deleting[u]
    BY <1>2, <2>1 DEF Quiet, Is, Arg
  <2> QED
    BY <2>2 DEF IInv, BackupInv, DeleteKinds
<1> QED
  BY <1>3, <1>4, <1>5, <1>6 DEF IInv

\* Those that leave the keys alone.
LEMMA EtagStep ==
  ASSUME IInv, NEW t \in Requests, todo[t] # <<>>,
         Head(todo[t])[1] \in {"create", "algorithm", "etag", "add", "key"},
         NEW s \in Seq(KeySteps), todo' = [todo EXCEPT ![t] = s],
         counter' \in {counter, counter + 1},
         UNCHANGED <<accountData, messages, deleting, keys, kept>>, algorithm' \subseteq Nat
  PROVE  IInv'
<1>1. Moves(t, s)
  BY DEF Moves, IInv, TypeOK
<1> QED
  BY <1>1, KeyStep DEF IInv, TypeOK, BackupInv

\* create_backup keeps it.
LEMMA CreateBackupKeeps ==
  ASSUME IInv, NEW t \in Requests, CreateBackup(t)
  PROVE  IInv'
<1> DEFINE s == << <<"etag", counter + 1>> >> \o Tail(todo[t])
<1>1. todo[t] # <<>> /\ Head(todo[t])[1] = "create"
  BY DEF CreateBackup, Is
<1>2. Tail(todo[t]) \in Seq(KeySteps)
  BY <1>1, KeyRequest
<1>3. counter + 1 \in Nat /\ todo' = [todo EXCEPT ![t] = s] /\ algorithm' \subseteq Nat
  BY DEF CreateBackup, Then, IInv, TypeOK
<1>4. <<"etag", counter + 1>> \in KeySteps
  BY <1>3 DEF KeySteps
<1>5. s \in Seq(KeySteps)
  BY <1>2, <1>4
<1> HIDE DEF s
<1> QED
  BY <1>1, <1>3, <1>5, EtagStep DEF CreateBackup

\* A finished step of such a request leaves the rest.
LEMMA DropsFirst ==
  ASSUME IInv, NEW t \in Requests, todo[t] # <<>>,
         Head(todo[t])[1] \in {"create", "algorithm", "etag", "add", "key"}, Done(t)
  PROVE  Tail(todo[t]) \in Seq(KeySteps) /\ todo' = [todo EXCEPT ![t] = Tail(todo[t])]
<1>1. Tail(todo[t]) \in Seq(KeySteps) /\ todo \in [Requests -> Seq(Steps)]
  BY KeyRequest DEF IInv, TypeOK
<1>2. <<>> \o Tail(todo[t]) = Tail(todo[t])
  BY <1>1, ConcatEmptySeq
<1>3. todo' = [todo EXCEPT ![t] = <<>> \o Tail(todo[t])]
  BY <1>1 DEF Done, Then
<1> QED
  BY <1>1, <1>2, <1>3

\* The second half of update_backup keeps it.
LEMMA UpdateBackupKeeps ==
  ASSUME IInv, NEW t \in Requests, UpdateBackup(t)
  PROVE  IInv'
<1>1. todo[t] # <<>> /\ Head(todo[t])[1] = "algorithm" /\ Done(t)
  BY DEF UpdateBackup, Is
<1>2. Arg(t, 2) \in Nat
  BY <1>1, KeyRequest DEF KeySteps, Arg
<1>3. algorithm' \subseteq Nat
  BY <1>2 DEF UpdateBackup, IInv, TypeOK
<1> QED
  BY <1>1, <1>3, DropsFirst, EtagStep DEF UpdateBackup

\* Every new etag keeps it.
LEMMA SetEtagKeeps ==
  ASSUME IInv, NEW t \in Requests, SetEtag(t)
  PROVE  IInv'
<1>1. todo[t] # <<>> /\ Head(todo[t])[1] = "etag" /\ Done(t)
  BY DEF SetEtag, Is
<1>2. algorithm' \subseteq Nat
  BY DEF SetEtag, IInv, TypeOK
<1> QED
  BY <1>1, <1>2, DropsFirst, EtagStep DEF SetEtag

\* add_key keeps it, also when the version is gone.
LEMMA AddKeyKeeps ==
  ASSUME IInv, NEW t \in Requests, AddKey(t)
  PROVE  IInv'
<1> DEFINE s == << <<"etag", Arg(t, 2)>>, <<"key", Arg(t, 2), Arg(t, 3)>> >> \o Tail(todo[t])
<1>1. todo[t] # <<>> /\ Head(todo[t])[1] = "add"
  BY DEF AddKey, Is
<1>2. Tail(todo[t]) \in Seq(KeySteps) /\ Head(todo[t]) \in KeySteps
  BY <1>1, KeyRequest
<1>3. Arg(t, 2) \in Nat /\ Arg(t, 3) \in Slots
  BY <1>1, <1>2 DEF KeySteps, Arg
<1>4. <<"etag", Arg(t, 2)>> \in KeySteps /\ <<"key", Arg(t, 2), Arg(t, 3)>> \in KeySteps
  BY <1>3 DEF KeySteps
<1>5. s \in Seq(KeySteps) /\ <<>> \in Seq(KeySteps)
  BY <1>2, <1>4
<1>6. algorithm' \subseteq Nat /\ counter' = counter /\ UNCHANGED <<deleting, keys, kept>>
  BY DEF AddKey, IInv, TypeOK, backups
<1>7. todo' = [todo EXCEPT ![t] = s] \/ todo' = [todo EXCEPT ![t] = <<>>]
  BY DEF AddKey, Then, IInv, TypeOK
<1> HIDE DEF s
<1> QED
  BY <1>1, <1>5, <1>6, <1>7, EtagStep DEF AddKey

\* The row of a key keeps it: a key that is being deleted is not promised.
LEMMA InsertKeyKeeps ==
  ASSUME IInv, NEW t \in Requests, InsertKey(t)
  PROVE  IInv'
<1> DEFINE key == <<Arg(t, 2), Arg(t, 3)>>
<1>1. todo[t] # <<>> /\ Head(todo[t])[1] = "key" /\ Done(t)
  BY DEF InsertKey, Is
<1>2. Tail(todo[t]) \in Seq(KeySteps) /\ todo' = [todo EXCEPT ![t] = Tail(todo[t])]
  BY <1>1, DropsFirst
<1>3. key \in Nat \X Slots
  BY <1>1, KeyRequest DEF KeySteps, Arg
<1>4. Moves(t, Tail(todo[t]))
  BY <1>2 DEF Moves, InsertKey, IInv, TypeOK
<1>5. /\ keys' = keys \cup {key} /\ UNCHANGED <<accountData, messages, deleting, algorithm>>
      /\ kept' = IF \E u \in Requests : key \in deleting[u] THEN kept ELSE kept \cup {key}
  BY DEF InsertKey
<1> HIDE DEF key
<1>6. /\ keys' \subseteq Nat \X Slots /\ algorithm' \subseteq Nat /\ kept' \subseteq keys'
      /\ \A u \in Requests : kept' \cap deleting[u] = {}
  BY <1>3, <1>5 DEF IInv, TypeOK, BackupInv
<1> QED
  BY <1>1, <1>2, <1>4, <1>5, <1>6, KeyStep

\* Steps of a request that deletes keys.
FindsOf(s, ks) ==
  /\ s # <<>> /\ Head(s)[1] = "noetag" => s[2] = <<"find", ks>>
  /\ s # <<>> /\ Head(s)[1] = "find" => Head(s)[2] = ks
  /\ s # <<>> /\ Head(s)[1] = "scan" => Head(s)[2] \subseteq ks

\* A step of a deletion keeps the whole invariant if the promised keys stay.
LEMMA DeleteStep ==
  ASSUME IInv, NEW t \in Requests, todo[t] # <<>>, Head(todo[t])[1] \in DeleteKinds,
         NEW s \in Seq(Steps), Shape(s), s = <<>> \/ Head(s)[1] \in {"noetag", "find", "scan"},
         todo' = [todo EXCEPT ![t] = s], UNCHANGED <<counter, accountData, messages, kept>>,
         algorithm' \subseteq Nat, keys' \subseteq Nat \X Slots, kept \subseteq keys',
         NEW ks \in SUBSET deleting[t], deleting' = [deleting EXCEPT ![t] = ks], FindsOf(s, ks)
  PROVE  IInv'
<1>1. Moves(t, s)
  BY DEF Moves, IInv, TypeOK
<1>2. Quiet(s, DataKinds) /\ Quiet(s, MessageKinds) /\ Quiet(todo[t], MessageKinds)
  BY DEF Quiet, DataKinds, DeleteKinds, MessageKinds
<1>3. DataInv' /\ MessageInv'
  BY <1>1, <1>2, DataLeftAlone, MessagesLeftAlone
<1>4. todo' \in [Requests -> Seq(Steps)] /\ ShapeInv'
  BY <1>1, TypesOfMove
<1>5. TypeOK'
  BY <1>4 DEF IInv, TypeOK, accountData, messages
<1>6. BackupInv'
  <2>1. todo'[t] = s /\ \A u \in Requests \ {t} : todo'[u] = todo[u]
    BY <1>1, Others DEF IInv
  <2>2. deleting'[t] = ks /\ \A u \in Requests \ {t} : deleting'[u] = deleting[u]
    BY DEF IInv, TypeOK
  <2>3. kept' \subseteq keys' /\ \A u \in Requests : kept' \cap deleting'[u] = {}
    BY <2>2 DEF IInv, BackupInv
  <2>4. ASSUME NEW u \in Requests \ {t}
        PROVE  /\ Is(u, "noalgorithm")' => todo'[u][3] = <<"find", deleting'[u]>>
               /\ Is(u, "noetag")' => todo'[u][2] = <<"find", deleting'[u]>>
               /\ Is(u, "find")' => Arg(u, 2)' = deleting'[u]
               /\ Is(u, "scan")' => Arg(u, 2)' \subseteq deleting'[u]
    BY <2>1, <2>2 DEF IInv, BackupInv, Is, Arg
  <2>5. /\ ~Is(t, "noalgorithm")'
        /\ Is(t, "noetag")' => todo'[t][2] = <<"find", deleting'[t]>>
        /\ Is(t, "find")' => Arg(t, 2)' = deleting'[t]
        /\ Is(t, "scan")' => Arg(t, 2)' \subseteq deleting'[t]
    BY <2>1, <2>2 DEF FindsOf, Is, Arg
  <2> QED
    BY <2>3, <2>4, <2>5 DEF BackupInv
<1> QED
  BY <1>3, <1>4, <1>5, <1>6 DEF IInv

\* The keys a request deletes do not change while it runs.
LEMMA SameDeleting ==
  ASSUME IInv, NEW t \in Requests
  PROVE  deleting = [deleting EXCEPT ![t] = deleting[t]] /\ deleting[t] \in SUBSET (Nat \X Slots)
  BY DEF IInv, TypeOK

\* Removing the version and its etag keeps it.
LEMMA RemoveBackupKeeps ==
  ASSUME IInv, NEW t \in Requests, RemoveBackup(t)
  PROVE  IInv'
<1> DEFINE find == <<"find", deleting[t]>>
<1>1. Is(t, "noalgorithm") \/ Is(t, "noetag")
  BY DEF RemoveBackup
<1>2. todo[t] # <<>> /\ Head(todo[t])[1] \in DeleteKinds
  BY <1>1 DEF Is, DeleteKinds
<1>3. /\ algorithm' \subseteq Nat /\ keys' \subseteq Nat \X Slots /\ kept \subseteq keys'
      /\ UNCHANGED <<counter, accountData, messages, kept, deleting>>
      /\ todo \in [Requests -> Seq(Steps)]
  BY DEF RemoveBackup, IInv, TypeOK, BackupInv
<1>4. find \in Steps
  BY SameDeleting DEF Steps, DeleteSteps
<1>5. ASSUME NEW s \in Seq(Steps), Shape(s), s # <<>>, Head(s)[1] \in {"noetag", "find"},
             FindsOf(s, deleting[t]), Tail(todo[t]) = s
      PROVE  IInv'
  <2>1. <<>> \o s = s
    BY <1>5, ConcatEmptySeq
  <2>2. todo' = [todo EXCEPT ![t] = s]
    BY <1>3, <1>5, <2>1 DEF RemoveBackup, Done, Then
  <2> QED
    BY <1>2, <1>3, <1>5, <2>2, SameDeleting, DeleteStep
<1> HIDE DEF find
<1>6. CASE Is(t, "noetag")
  <2>1. Tail(todo[t]) = <<find>>
    BY <1>6, DeleteRequest DEF find
  <2>2. find[1] = "find" /\ find[2] = deleting[t]
    BY DEF find
  <2>3. <<find>> \in Seq(Steps) /\ Shape(<<find>>) /\ <<find>> # <<>> /\ Head(<<find>>) = find
    BY <1>4, <2>2, OneStep
  <2>4. FindsOf(<<find>>, deleting[t])
    BY <2>2, <2>3 DEF FindsOf
  <2> QED
    BY <1>5, <2>1, <2>2, <2>3, <2>4
<1>7. CASE Is(t, "noalgorithm")
  <2> DEFINE second == todo[t][2]
             s == <<second, find>>
  <2>1. Tail(todo[t]) = s /\ second \in {"noetag"} \X Nat
    BY <1>7, DeleteRequest DEF find
  <2>2. find[1] = "find" /\ second[1] = "noetag" /\ second \in Steps
    BY <2>1 DEF find, Steps, DeleteSteps
  <2> HIDE DEF second
  <2>3. s # <<>> /\ Head(s) = second /\ s[2] = find /\ Len(s) = 2 /\ s \in Seq(Steps)
    BY <1>4, <2>2, HeadTail2
  <2>4. s = <<Head(s), s[2]>>
    BY <2>3, Zenon
  <2> HIDE DEF s
  <2>5. Shape(s)
    BY <2>2, <2>3, <2>4 DEF Shape
  <2>6. FindsOf(s, deleting[t])
    BY <2>2, <2>3 DEF FindsOf, find
  <2> QED
    BY <1>5, <2>1, <2>2, <2>3, <2>5, <2>6
<1> QED
  BY <1>1, <1>6, <1>7

\* The scan finds only keys the request is to delete.
LEMMA FindKeysKeeps ==
  ASSUME IInv, NEW t \in Requests, FindKeys(t)
  PROVE  IInv'
<1> DEFINE scan == <<"scan", keys \cap Arg(t, 2)>>
<1>1. Is(t, "find") /\ todo[t] # <<>> /\ Head(todo[t])[1] = "find"
  BY DEF FindKeys, Is
<1>2. Tail(todo[t]) = <<>>
  BY <1>1, SingleStep
<1>3. /\ algorithm' \subseteq Nat /\ keys' \subseteq Nat \X Slots /\ kept \subseteq keys'
      /\ UNCHANGED <<counter, accountData, messages, kept, deleting>>
      /\ todo \in [Requests -> Seq(Steps)]
  BY DEF FindKeys, IInv, TypeOK, BackupInv, backups
<1>4. todo' = [todo EXCEPT ![t] = <<scan>>]
  BY <1>2, <1>3, ConcatSingle DEF FindKeys, Then
<1>5. scan[1] = "scan" /\ scan[2] \subseteq deleting[t] /\ scan[2] \in SUBSET (Nat \X Slots)
  BY <1>1 DEF IInv, BackupInv, TypeOK
<1>6. scan \in Steps
  BY <1>5 DEF Steps, DeleteSteps
<1> HIDE DEF scan
<1>7. <<scan>> \in Seq(Steps) /\ Shape(<<scan>>) /\ Head(<<scan>>) = scan /\ <<scan>> # <<>>
  BY <1>5, <1>6, OneStep
<1>8. FindsOf(<<scan>>, deleting[t])
  BY <1>5, <1>7 DEF FindsOf
<1> QED
  BY <1>1, <1>3, <1>4, <1>5, <1>7, <1>8, SameDeleting, DeleteStep DEF DeleteKinds

\* A removed key is not a promised one.
LEMMA RemoveKeyKeeps ==
  ASSUME IInv, NEW t \in Requests, RemoveKey(t)
  PROVE  IInv'
<1>1. Is(t, "scan") /\ todo[t] # <<>> /\ Head(todo[t])[1] = "scan"
  BY DEF RemoveKey, Is
<1>2. Tail(todo[t]) = <<>> /\ Arg(t, 2) \subseteq deleting[t] /\ todo \in [Requests -> Seq(Steps)]
  BY <1>1, SingleStep DEF IInv, BackupInv, TypeOK
<1>3. algorithm' \subseteq Nat /\ UNCHANGED <<counter, accountData, messages, kept>>
  BY DEF RemoveKey, IInv, TypeOK
<1>4. CASE Arg(t, 2) = {}
  <2>1. todo' = [todo EXCEPT ![t] = <<>>] /\ keys' = keys /\ deleting' = [deleting EXCEPT ![t] = {}]
    BY <1>2, <1>4, ConcatSingle DEF RemoveKey, Done, Then
  <2>2. keys' \subseteq Nat \X Slots /\ kept \subseteq keys' /\ {} \in SUBSET deleting[t]
    BY <2>1 DEF IInv, TypeOK, BackupInv
  <2>3. FindsOf(<<>>, {})
    BY DEF FindsOf
  <2> QED
    BY <1>1, <1>3, <2>1, <2>2, <2>3, NoStep, DeleteStep DEF DeleteKinds
<1>5. CASE Arg(t, 2) # {}
  <2>1. PICK k \in Arg(t, 2) : keys' = keys \ {k} /\ Then(t, << <<"scan", Arg(t, 2) \ {k}>> >>)
    BY <1>5 DEF RemoveKey
  <2> DEFINE scan == <<"scan", Arg(t, 2) \ {k}>>
  <2>2. todo' = [todo EXCEPT ![t] = <<scan>>] /\ UNCHANGED deleting
    BY <1>2, <1>5, <2>1, ConcatSingle DEF RemoveKey, Then
  <2>3. k \notin kept
    BY <1>2, <2>1 DEF IInv, BackupInv
  <2>4. keys' \subseteq Nat \X Slots /\ kept \subseteq keys'
    BY <2>1, <2>3 DEF IInv, TypeOK, BackupInv
  <2>5. scan[1] = "scan" /\ scan[2] \subseteq deleting[t] /\ scan[2] \in SUBSET (Nat \X Slots)
    BY <1>2, SameDeleting
  <2>6. scan \in Steps
    BY <2>5 DEF Steps, DeleteSteps
  <2> HIDE DEF scan
  <2>7. <<scan>> \in Seq(Steps) /\ Shape(<<scan>>) /\ Head(<<scan>>) = scan /\ <<scan>> # <<>>
    BY <2>5, <2>6, OneStep
  <2>8. FindsOf(<<scan>>, deleting[t])
    BY <2>5, <2>7 DEF FindsOf
  <2> QED
    BY <1>1, <1>3, <2>2, <2>4, <2>5, <2>7, <2>8, SameDeleting, DeleteStep DEF DeleteKinds
<1> QED
  BY <1>4, <1>5

-----------------------------------------------------------------------------
(* The steps of messages. *)

\* A step of send_message_event_route keeps the whole invariant if it keeps its
\* own part.
LEMMA MessageStep ==
  ASSUME IInv, NEW t \in Requests, todo[t] # <<>>, Head(todo[t])[1] \in {"lock"} \cup MessageKinds,
         NEW s \in Seq(Steps), Shape(s), s = <<>> \/ Head(s)[1] \in MessageKinds, Moves(t, s),
         UNCHANGED <<accountData, backups>>, txns' \subseteq Txns \X Nat, events' \subseteq Nat \X Txns,
         answers' \subseteq Txns \X Nat,
         lock' \in Requests \cup {None}, MessageInv'
  PROVE  IInv'
<1>1. Quiet(s, DataKinds) /\ Quiet(s, DeleteKinds)
  BY DEF Quiet, DataKinds, DeleteKinds, MessageKinds
<1>2. DataInv'
  BY <1>1, DataLeftAlone
<1>3. BackupInv'
  BY <1>1, BackupsLeftAlone DEF backups
<1>4. todo' \in [Requests -> Seq(Steps)] /\ ShapeInv'
  BY TypesOfMove
<1>5. TypeOK'
  BY <1>4 DEF IInv, TypeOK, accountData, backups, Moves
<1> QED
  BY <1>2, <1>3, <1>4, <1>5 DEF IInv

\* A step to a single one of the kinds that need the mutex.
LEMMA ToMessageStep ==
  ASSUME IInv, NEW t \in Requests, todo[t] # <<>>, Head(todo[t])[1] \in {"lock"} \cup MessageKinds,
         NEW step \in Steps, step[1] \in MessageKinds, Then(t, <<step>>),
         counter' \in {counter, counter + 1}
  PROVE  /\ <<step>> \in Seq(Steps) /\ Shape(<<step>>) /\ Moves(t, <<step>>)
         /\ Head(<<step>>) = step /\ <<step>> # <<>> /\ todo'[t] = <<step>>
         /\ \A k \in MessageKinds : Is(t, k)' <=> step[1] = k
         /\ Arg(t, 2)' = step[2] /\ Arg(t, 3)' = step[3]
         /\ \A u \in Requests \ {t} :
              /\ Arg(u, 2)' = Arg(u, 2) /\ Arg(u, 3)' = Arg(u, 3)
              /\ \A k \in MessageKinds : Is(u, k)' <=> Is(u, k)
<1>1. Tail(todo[t]) = <<>> /\ todo \in [Requests -> Seq(Steps)] /\ counter \in Nat
  BY SingleStep DEF MessageKinds, IInv, TypeOK
<1>2. todo' = [todo EXCEPT ![t] = <<step>>]
  BY <1>1, ConcatSingle DEF Then
<1>3. <<step>> \in Seq(Steps) /\ Shape(<<step>>) /\ Head(<<step>>) = step /\ <<step>> # <<>>
  BY OneStep DEF MessageKinds
<1>4. Moves(t, <<step>>)
  BY <1>1, <1>2 DEF Moves
<1>5. todo'[t] = <<step>> /\ \A u \in Requests \ {t} : todo'[u] = todo[u]
  BY <1>4, Others DEF IInv
<1> QED
  BY <1>3, <1>4, <1>5 DEF Is, Arg

\* The mutex is free, so nobody is between an event and its transaction.
LEMMA LockKeeps ==
  ASSUME IInv, NEW t \in Requests, Lock(t)
  PROVE  IInv'
<1> DEFINE x == Arg(t, 2)
           step == IF ExistingTxnId(x) = {} THEN <<"event", x>> ELSE <<"unlock", x>>
<1>1. todo[t] # <<>> /\ Head(todo[t])[1] = "lock" /\ lock = None /\ lock' = t
  BY DEF Lock, Is
<1>2. x \in Txns
  BY <1>1, HeadIsStep DEF Arg, Steps, KeySteps, DataSteps, DeleteSteps, MessageSteps
<1>3. step \in Steps /\ step[1] \in MessageKinds /\ step[2] = x /\ step[1] # "txnid"
      /\ (step[1] = "event" => ExistingTxnId(x) = {})
  BY <1>2 DEF Steps, MessageSteps, MessageKinds
<1>4. Then(t, <<step>>) /\ counter' = counter
      /\ UNCHANGED <<accountData, backups, txns, events, answers, torn>>
  BY DEF Lock
<1> HIDE DEF step, x
<1>5. /\ <<step>> \in Seq(Steps) /\ Shape(<<step>>) /\ Moves(t, <<step>>)
      /\ Head(<<step>>) = step
      /\ \A k \in MessageKinds : Is(t, k)' <=> step[1] = k
      /\ Arg(t, 2)' = step[2]
      /\ \A u \in Requests \ {t} :
           /\ Arg(u, 2)' = Arg(u, 2) /\ Arg(u, 3)' = Arg(u, 3)
           /\ \A k \in MessageKinds : Is(u, k)' <=> Is(u, k)
  BY <1>1, <1>3, <1>4, ToMessageStep
<1>6. MessageInv
  BY DEF IInv
<1>7. \A u \in Requests : \A k \in MessageKinds : ~Is(u, k)
  BY <1>1, <1>6, UserDataAssumption DEF MessageInv, MessageKinds
<1>8. \A u \in Requests : \A k \in MessageKinds : Is(u, k)' => u = t /\ step[1] = k
  BY <1>5, <1>7
<1>9. MessageInv'
  BY <1>1, <1>3, <1>4, <1>5, <1>6, <1>7, <1>8 DEF MessageInv, MessageKinds, EventOf, ExistingTxnId
<1> QED
  BY <1>1, <1>3, <1>4, <1>5, <1>9, MessageStep DEF IInv, TypeOK

\* While a request holds the mutex no other one is past it.
LEMMA Alone ==
  ASSUME IInv, NEW t \in Requests, NEW k \in MessageKinds, Is(t, k)
  PROVE  /\ lock = t /\ todo[t] # <<>> /\ Head(todo[t])[1] = k
         /\ Arg(t, 2) \in Txns /\ (k = "txnid" => Arg(t, 3) \in Nat)
         /\ \A u \in Requests, j \in MessageKinds : Is(u, j) => u = t /\ j = k
<1>1. lock = t /\ \A u \in Requests, j \in MessageKinds : Is(u, j) => u = t
  BY DEF IInv, MessageInv, MessageKinds
<1>2. todo[t] # <<>> /\ Head(todo[t])[1] = k /\ \A j \in MessageKinds : Is(t, j) => j = k
  BY DEF Is
<1>3. Head(todo[t]) \in Steps
  BY <1>2, HeadIsStep
<1>4. Arg(t, 2) \in Txns /\ (k = "txnid" => Arg(t, 3) \in Nat)
  BY <1>2, <1>3 DEF MessageKinds, Arg, Steps, KeySteps, DataSteps, DeleteSteps, MessageSteps
<1> QED
  BY <1>1, <1>2, <1>4

\* The first event of the transaction, or one whose transaction a crash has
\* torn.
LEMMA AppendEventKeeps ==
  ASSUME IInv, NEW t \in Requests, AppendEvent(t)
  PROVE  IInv'
<1> DEFINE x == Arg(t, 2)
           n == counter + 1
           e0 == <<n, x>>
           step == <<"txnid", x, n>>
<1>1. Is(t, "event") /\ n \in Nat
  BY DEF AppendEvent, IInv, TypeOK
<1>2. /\ lock = t /\ todo[t] # <<>> /\ Head(todo[t])[1] = "event" /\ x \in Txns
      /\ \A u \in Requests, j \in MessageKinds : Is(u, j) => u = t /\ j = "event"
  BY <1>1, Alone DEF MessageKinds
<1>3. /\ Then(t, <<step>>) /\ counter' = n /\ events' = events \cup {e0}
      /\ UNCHANGED <<accountData, backups, txns, lock, answers, torn>>
  BY DEF AppendEvent
<1>4. ExistingTxnId(x) = {}
  BY <1>1 DEF IInv, MessageInv
<1> HIDE DEF x, n
<1>5. step \in Steps /\ step[1] = "txnid" /\ step[2] = x /\ step[3] = n
      /\ e0[1] = n /\ e0[2] = x /\ e0 \in Nat \X Txns
  BY <1>1, <1>2 DEF Steps, MessageSteps
<1>6. counter' \in {counter, counter + 1}
  BY <1>3 DEF n
<1> HIDE DEF step
<1>7. /\ <<step>> \in Seq(Steps) /\ Shape(<<step>>) /\ Moves(t, <<step>>)
      /\ Head(<<step>>) = step
      /\ \A k \in MessageKinds : Is(t, k)' <=> step[1] = k
      /\ Arg(t, 2)' = x /\ Arg(t, 3)' = n
      /\ \A u \in Requests \ {t} :
           /\ Arg(u, 2)' = Arg(u, 2) /\ Arg(u, 3)' = Arg(u, 3)
           /\ \A k \in MessageKinds : Is(u, k)' <=> Is(u, k)
  BY <1>2, <1>3, <1>5, <1>6, ToMessageStep DEF MessageKinds
<1>8. \A u \in Requests : \A k \in MessageKinds : Is(u, k)' <=> u = t /\ k = "txnid"
  BY <1>2, <1>5, <1>7
<1>9. \A e \in events : e[2] = x => x \in torn
  <2>1. \A e \in events : \/ e[2] \in torn
                          \/ EventOf(e) \in txns
                          \/ \E u \in Requests : Is(u, "txnid") /\ Arg(u, 2) = e[2]
    BY DEF IInv, MessageInv
  <2>2. \A e \in events : e[2] = x => EventOf(e) \notin txns
    BY <1>4 DEF ExistingTxnId, EventOf
  <2> QED
    BY <1>2, <2>1, <2>2 DEF MessageKinds
<1>10. MessageInv'
  <2>1. MessageInv
    BY DEF IInv
  <2>2. \A u \in Requests : Is(u, "event")' \/ Is(u, "txnid")' \/ Is(u, "unlock")' => lock' = u
    BY <1>2, <1>3, <1>8 DEF MessageKinds
  <2>3. \A u \in Requests : ~Is(u, "event")'
    BY <1>8 DEF MessageKinds
  <2>4. \A u \in Requests : Is(u, "txnid")' => <<Arg(u, 3)', Arg(u, 2)'>> \in events'
    BY <1>3, <1>7, <1>8 DEF MessageKinds
  <2>5. \A e, f \in events' : e[2] = f[2] /\ e[2] \notin torn' => e = f
    BY <2>1, <1>3, <1>5, <1>9 DEF MessageInv
  <2>6. \A e \in events' : \/ e[2] \in torn'
                           \/ EventOf(e) \in txns'
                           \/ \E u \in Requests : Is(u, "txnid")' /\ Arg(u, 2)' = e[2]
    <3>1. Is(t, "txnid")' /\ Arg(t, 2)' = e0[2]
      BY <1>5, <1>7 DEF MessageKinds
    <3>2. \A e \in events : e[2] \in torn \/ EventOf(e) \in txns
      BY <2>1, <1>2 DEF MessageInv, MessageKinds
    <3> QED
      BY <3>1, <3>2, <1>3
  <2>7. \A row \in txns' \cup answers' : EventOf(row) \in events'
    BY <2>1, <1>3 DEF MessageInv
  <2> QED
    BY <2>2, <2>3, <2>4, <2>5, <2>6, <2>7 DEF MessageInv, EventOf
<1>11. events' \subseteq Nat \X Txns /\ txns' \subseteq Txns \X Nat /\ answers' \subseteq Txns \X Nat
       /\ lock' \in Requests \cup {None}
  BY <1>3, <1>5 DEF IInv, TypeOK
<1> QED
  BY <1>2, <1>3, <1>5, <1>7, <1>10, <1>11, MessageStep DEF MessageKinds

\* build_and_append_pdu fails: no event, no transaction.
LEMMA RefuseEventKeeps ==
  ASSUME IInv, NEW t \in Requests, RefuseEvent(t)
  PROVE  IInv'
<1> DEFINE x == Arg(t, 2)
           step == <<"unlock", x>>
<1>1. Is(t, "event")
  BY DEF RefuseEvent
<1>2. /\ lock = t /\ todo[t] # <<>> /\ Head(todo[t])[1] = "event" /\ x \in Txns
      /\ \A u \in Requests, j \in MessageKinds : Is(u, j) => u = t /\ j = "event"
  BY <1>1, Alone DEF MessageKinds
<1>3. /\ Then(t, <<step>>) /\ counter' = counter
      /\ UNCHANGED <<accountData, backups, txns, events, lock, answers, torn>>
  BY DEF RefuseEvent, messages
<1> HIDE DEF x
<1>4. step \in Steps /\ step[1] = "unlock" /\ step[2] = x
  BY <1>2 DEF Steps, MessageSteps
<1> HIDE DEF step
<1>5. /\ <<step>> \in Seq(Steps) /\ Shape(<<step>>) /\ Moves(t, <<step>>)
      /\ Head(<<step>>) = step
      /\ \A k \in MessageKinds : Is(t, k)' <=> step[1] = k
      /\ \A u \in Requests \ {t} : \A k \in MessageKinds : Is(u, k)' <=> Is(u, k)
  BY <1>2, <1>3, <1>4, ToMessageStep DEF MessageKinds
<1>6. \A u \in Requests : \A k \in MessageKinds : Is(u, k)' <=> u = t /\ k = "unlock"
  BY <1>2, <1>4, <1>5
<1>7. MessageInv'
  <2>1. \A e \in events : e[2] \in torn \/ EventOf(e) \in txns
    BY <1>2 DEF IInv, MessageInv, MessageKinds
  <2> QED
    BY <1>2, <1>3, <1>6, <2>1 DEF IInv, MessageInv, MessageKinds, EventOf
<1> QED
  BY <1>2, <1>3, <1>4, <1>5, <1>7, MessageStep DEF MessageKinds, IInv, TypeOK

\* It fails with the event stored: the transaction is torn.
LEMMA FailAfterEventKeeps ==
  ASSUME IInv, NEW t \in Requests, FailAfterEvent(t)
  PROVE  IInv'
<1> DEFINE x == Arg(t, 2)
           n == counter + 1
           step == <<"unlock", x>>
<1>1. Is(t, "event")
  BY DEF FailAfterEvent
<1>2. /\ lock = t /\ todo[t] # <<>> /\ Head(todo[t])[1] = "event" /\ x \in Txns
      /\ \A u \in Requests, j \in MessageKinds : Is(u, j) => u = t /\ j = "event"
  BY <1>1, Alone DEF MessageKinds
<1>3. /\ Then(t, <<step>>) /\ counter' = n /\ events' = events \cup {<<n, x>>}
      /\ torn' = torn \cup {x}
      /\ UNCHANGED <<accountData, backups, txns, lock, answers>>
  BY DEF FailAfterEvent
<1>4. n \in Nat /\ counter <= n /\ counter' \in {counter, counter + 1}
  BY <1>3 DEF IInv, TypeOK
<1> HIDE DEF x, n
<1>5. step \in Steps /\ step[1] = "unlock" /\ step[2] = x
  BY <1>2 DEF Steps, MessageSteps
<1> HIDE DEF step
<1>6. /\ <<step>> \in Seq(Steps) /\ Shape(<<step>>) /\ Moves(t, <<step>>)
      /\ Head(<<step>>) = step
      /\ \A k \in MessageKinds : Is(t, k)' <=> step[1] = k
      /\ \A u \in Requests \ {t} : \A k \in MessageKinds : Is(u, k)' <=> Is(u, k)
  BY <1>2, <1>3, <1>4, <1>5, ToMessageStep DEF MessageKinds
<1>7. \A u \in Requests : \A k \in MessageKinds : Is(u, k)' <=> u = t /\ k = "unlock"
  BY <1>2, <1>5, <1>6
<1>8. MessageInv'
  <2>1. \A e \in events : e[2] \in torn \/ EventOf(e) \in txns
    BY <1>2 DEF IInv, MessageInv, MessageKinds
  <2>2. \A e \in events' : e \in events \/ e[2] \in torn'
    BY <1>3
  <2>3. \A e, f \in events' : e[2] = f[2] /\ e[2] \notin torn' => e = f
    BY <1>3, <2>2 DEF IInv, MessageInv
  <2>4. \A e \in events' : e[2] \in torn' \/ EventOf(e) \in txns'
    BY <1>3, <2>1, <2>2
  <2>5. \A row \in txns' \cup answers' : EventOf(row) \in events'
    BY <1>3 DEF IInv, MessageInv
  <2> QED
    BY <1>2, <1>3, <1>7, <2>3, <2>4, <2>5 DEF MessageInv, MessageKinds, EventOf
<1>9. events' \subseteq Nat \X Txns /\ txns' \subseteq Txns \X Nat /\ answers' \subseteq Txns \X Nat
      /\ lock' \in Requests \cup {None}
  BY <1>2, <1>3, <1>4 DEF IInv, TypeOK
<1> QED
  BY <1>2, <1>3, <1>5, <1>6, <1>8, <1>9, MessageStep DEF MessageKinds

\* The row of the transaction names its only event.
LEMMA AddTxnIdKeeps ==
  ASSUME IInv, NEW t \in Requests, AddTxnId(t)
  PROVE  IInv'
<1> DEFINE x == Arg(t, 2)
           n == Arg(t, 3)
           step == <<"unlock", x>>
<1>1. Is(t, "txnid")
  BY DEF AddTxnId
<1>2. /\ lock = t /\ todo[t] # <<>> /\ Head(todo[t])[1] = "txnid" /\ x \in Txns /\ n \in Nat
      /\ \A u \in Requests, j \in MessageKinds : Is(u, j) => u = t /\ j = "txnid"
  BY <1>1, Alone DEF MessageKinds
<1>3. /\ Then(t, <<step>>) /\ counter' = counter
      /\ txns' = {row \in txns : row[1] # x} \cup {<<x, n>>}
      /\ UNCHANGED <<accountData, backups, events, lock, answers, torn>>
  BY DEF AddTxnId
<1>4. <<n, x>> \in events
  BY <1>1 DEF IInv, MessageInv
<1>5. x = Arg(t, 2)
  OBVIOUS
<1> HIDE DEF x, n
<1>6. step \in Steps /\ step[1] = "unlock" /\ step[2] = x
  BY <1>2 DEF Steps, MessageSteps
<1> HIDE DEF step
<1>7. /\ <<step>> \in Seq(Steps) /\ Shape(<<step>>) /\ Moves(t, <<step>>)
      /\ Head(<<step>>) = step
      /\ \A k \in MessageKinds : Is(t, k)' <=> step[1] = k
      /\ \A u \in Requests \ {t} : \A k \in MessageKinds : Is(u, k)' <=> Is(u, k)
  BY <1>2, <1>3, <1>6, ToMessageStep DEF MessageKinds
<1>8. \A u \in Requests : \A k \in MessageKinds : Is(u, k)' <=> u = t /\ k = "unlock"
  BY <1>2, <1>6, <1>7
<1>9. MessageInv'
  <2>1. MessageInv
    BY DEF IInv
  <2>2. ASSUME NEW e \in events
        PROVE  e[2] \in torn \/ EventOf(e) \in txns'
    <3>1. CASE e[2] # x
      <4>1. e[2] \in torn \/ EventOf(e) \in txns
        BY <2>1, <1>2, <1>5, <3>1 DEF MessageInv, MessageKinds
      <4>2. EventOf(e)[1] = e[2]
        BY DEF EventOf
      <4> QED
        BY <4>1, <4>2, <1>3, <3>1
    <3>2. CASE e[2] = x
      <4>1. <<n, x>>[2] = x
        OBVIOUS
      <4>2. x \in torn \/ e = <<n, x>>
        BY <2>1, <1>4, <3>2, <4>1 DEF MessageInv
      <4>3. EventOf(<<n, x>>) = <<x, n>>
        BY DEF EventOf
      <4> QED
        BY <4>2, <4>3, <1>3, <3>2
    <3> QED
      BY <3>1, <3>2
  <2>3. \A row \in txns' \cup answers' : EventOf(row) \in events'
    <3>1. EventOf(<<x, n>>) = <<n, x>>
      BY DEF EventOf
    <3> QED
      BY <2>1, <1>3, <1>4, <3>1 DEF MessageInv
  <2> QED
    BY <2>1, <2>2, <2>3, <1>2, <1>3, <1>8 DEF MessageInv, MessageKinds, EventOf
<1>10. txns' \subseteq Txns \X Nat /\ events' \subseteq Nat \X Txns /\ answers' \subseteq Txns \X Nat
       /\ lock' \in Requests \cup {None}
  BY <1>2, <1>3 DEF IInv, TypeOK
<1> QED
  BY <1>2, <1>3, <1>6, <1>7, <1>9, <1>10, MessageStep DEF MessageKinds

\* The answer is what the row says.
LEMMA UnlockKeeps ==
  ASSUME IInv, NEW t \in Requests, Unlock(t)
  PROVE  IInv'
<1>1. Is(t, "unlock")
  BY DEF Unlock
<1>2. /\ lock = t /\ todo[t] # <<>> /\ Head(todo[t])[1] = "unlock"
      /\ \A u \in Requests, j \in MessageKinds : Is(u, j) => u = t /\ j = "unlock"
  BY <1>1, Alone DEF MessageKinds
<1>3. Tail(todo[t]) = <<>> /\ todo \in [Requests -> Seq(Steps)] /\ counter \in Nat
  BY <1>2, SingleStep DEF IInv, TypeOK
<1>4. todo' = [todo EXCEPT ![t] = <<>>]
  BY <1>3, ConcatSingle DEF Unlock, Done, Then
<1>5. /\ counter' = counter /\ UNCHANGED <<accountData, backups, txns, events, torn>>
      /\ lock' = None /\ answers' \subseteq answers \cup txns
  BY DEF Unlock, ExistingTxnId
<1>6. Moves(t, <<>>)
  BY <1>3, <1>4, <1>5 DEF Moves
<1>7. todo'[t] = <<>> /\ \A u \in Requests \ {t} : todo'[u] = todo[u]
  BY <1>6, Others DEF IInv
<1>8. \A u \in Requests : \A k \in MessageKinds : ~Is(u, k)'
  BY <1>2, <1>7 DEF Is
<1>9. MessageInv'
  <2>1. \A e \in events : e[2] \in torn \/ EventOf(e) \in txns
    BY <1>2 DEF IInv, MessageInv, MessageKinds
  <2> QED
    BY <1>5, <1>8, <2>1 DEF IInv, MessageInv, MessageKinds, EventOf
<1> QED
  BY <1>2, <1>5, <1>6, <1>9, NoStep, MessageStep DEF MessageKinds, IInv, TypeOK

\* A crash drops the requests; the transaction between its two rows is torn.
LEMMA CrashKeeps ==
  ASSUME IInv, Crash
  PROVE  IInv'
<1>1. \A t \in Requests : todo'[t] = <<>> /\ deleting'[t] = {}
  BY DEF Crash
<1>2. /\ UNCHANGED <<counter, accountData, algorithm, etag, keys, kept, txns, events, answers>>
      /\ lock' = None /\ counter' = counter /\ data' = data /\ index' = index
      /\ torn' = torn \cup {Arg(t, 2) : t \in {u \in Requests : Is(u, "txnid")}}
  BY DEF Crash, accountData
<1>3. todo' \in [Requests -> Seq(Steps)] /\ deleting' \in [Requests -> SUBSET (Nat \X Slots)]
  BY DEF Crash
<1>4. TypeOK'
  BY <1>2, <1>3 DEF IInv, TypeOK
<1>5. ShapeInv'
  BY <1>1, NoStep DEF ShapeInv
<1>6. \A t \in Requests : \A k : ~Is(t, k)'
  BY <1>1 DEF Is
<1>7. DataInv'
  BY <1>2, <1>6 DEF IInv, DataInv, Stores, Removes
<1>8. BackupInv'
  BY <1>1, <1>2, <1>6 DEF IInv, BackupInv
<1>9. MessageInv'
  <2>1. \A e \in events : e[2] \in torn' \/ EventOf(e) \in txns
    BY <1>2 DEF IInv, MessageInv
  <2>2. torn \subseteq torn'
    BY <1>2
  <2> QED
    BY <1>2, <1>6, <2>1, <2>2 DEF IInv, MessageInv, EventOf
<1> QED
  BY <1>4, <1>5, <1>7, <1>8, <1>9 DEF IInv

-----------------------------------------------------------------------------
(* The invariant is inductive. *)

\* The invariant holds in an empty database.
LEMMA InitIInv == Init => IInv
<1> SUFFICES ASSUME Init PROVE IInv
  OBVIOUS
<1>1. \A t \in Requests : todo[t] = <<>> /\ deleting[t] = {}
  BY DEF Init
<1>2. \A t \in Requests : \A k : ~Is(t, k)
  BY <1>1 DEF Is
<1>3. TypeOK
  BY UserDataAssumption DEF Init, TypeOK, None
<1>4. ShapeInv
  BY <1>1, NoStep DEF ShapeInv
<1>5. DataInv
  BY <1>2 DEF Init, DataInv, Stores, Removes
<1>6. BackupInv
  BY <1>1, <1>2 DEF Init, BackupInv
<1>7. MessageInv
  BY <1>2 DEF Init, MessageInv
<1> QED
  BY <1>3, <1>4, <1>5, <1>6, <1>7 DEF IInv

\* Every new request keeps it.
LEMMA RequestKeeps ==
  ASSUME IInv, NEW t \in Requests, Request(t)
  PROVE  IInv'
<1>1. CASE \E type \in Types \ {"m.tag"} : SetAccountDataRoute(t, type, {})
  BY <1>1, SetAccountDataKeeps
<1>2. CASE \E tag \in Tags, add \in BOOLEAN : TagRoute(t, tag, add)
  BY <1>2, TagKeeps
<1>3. CASE CreateBackupRoute(t)
  BY <1>3, CreateBackupRouteKeeps
<1>4. ASSUME NEW v \in algorithm,
             \/ UpdateBackupRoute(t, v) \/ DeleteBackupRoute(t, v) \/ DeleteAllKeysRoute(t, v)
             \/ \E slots \in SUBSET Slots \ {{}} : AddBackupKeysRoute(t, v, slots)
             \/ \E slot \in Slots : DeleteRoomKeysRoute(t, v, slot[1]) \/ DeleteRoomKeyRoute(t, v, slot)
      PROVE  IInv'
  BY <1>4, UpdateBackupRouteKeeps, DeleteRoutesKeep, AddBackupKeysKeeps
<1>5. CASE \E x \in Txns : SendMessageEventRoute(t, x)
  BY <1>5, SendMessageKeeps
<1> QED
  BY <1>1, <1>2, <1>3, <1>4, <1>5 DEF Request

\* Every step of a request keeps it.
LEMMA StepKeeps ==
  ASSUME IInv, NEW t \in Requests, Step(t)
  PROVE  IInv'
  BY InsertDataKeeps, PreviousDataKeeps, InsertIndexKeeps, RemoveDataKeeps, CreateBackupKeeps,
     UpdateBackupKeeps, SetEtagKeeps, AddKeyKeeps, InsertKeyKeeps, RemoveBackupKeeps, FindKeysKeeps,
     RemoveKeyKeeps, LockKeeps, AppendEventKeeps, RefuseEventKeeps,
     FailAfterEventKeeps, AddTxnIdKeeps, UnlockKeeps
  DEF Step

\* A step of something else keeps it.
LEMMA StutterKeeps ==
  ASSUME IInv, UNCHANGED vars
  PROVE  IInv'
<1>1. /\ counter' = counter /\ data' = data /\ index' = index /\ algorithm' = algorithm
      /\ keys' = keys /\ deleting' = deleting /\ kept' = kept /\ txns' = txns /\ events' = events
      /\ lock' = lock /\ answers' = answers /\ torn' = torn /\ todo' = todo
  BY DEF vars, accountData, backups, messages
<1>2. TypeOK' /\ ShapeInv' /\ BackupInv'
  BY <1>1 DEF IInv, TypeOK, ShapeInv, BackupInv, Is, Arg
<1>3. DataInv'
  BY <1>1 DEF IInv, DataInv, Stores, Removes, OldRow, HasRow, Is, Arg
<1>4. MessageInv'
  BY <1>1 DEF IInv, MessageInv, EventOf, ExistingTxnId, Is, Arg
<1> QED
  BY <1>2, <1>3, <1>4 DEF IInv

\* The inductive invariant: what requests that are halfway through
\* account_data.update, a deletion of keys or send_message_event_route rely on
\* is true whatever the others do.
THEOREM UserDataInductive == Spec => []IInv
<1>1. IInv /\ [Next]_vars => IInv'
  BY RequestKeeps, StepKeeps, CrashKeeps, StutterKeeps DEF Next
<1> QED
  BY InitIInv, <1>1, PTL DEF Spec

-----------------------------------------------------------------------------
(* What it implies. *)

\* A set whose elements are all equal has at most one.
LEMMA AtMostOne ==
  ASSUME NEW S, \A a, b \in S : a = b
  PROVE  Cardinality(S) <= 1
<1>1. CASE S = {}
  BY <1>1, FS_EmptySet
<1>2. ASSUME NEW a \in S  PROVE Cardinality(S) <= 1
  <2>1. S = {a}
    OBVIOUS
  <2> QED
    BY <2>1, FS_Singleton
<1> QED
  BY <1>1, <1>2

\* The index of account data leads to a row of its type, for any number of requests
\* that update the same types at once and of crashes between their rows.
THEOREM AccountData == Spec => []AccountDataIsFound
<1>1. IInv => AccountDataIsFound
  BY DEF IInv, DataInv, HasRow, AccountDataIsFound, Get
<1> QED
  BY UserDataInductive, <1>1, PTL

\* A stored key stays in the answers of all three routes until a request deletes
\* it, or a key of its room whose session ID is a prefix of its own.
THEOREM BackedUpKeys == Spec => []BackedUpKeysKept
<1>1. ASSUME IInv, NEW k \in kept
      PROVE  GetBackupKeysRoutes(k)
  <2>1. k \in keys /\ k \in Nat \X Slots /\ keys \subseteq Nat \X Slots
    BY <1>1 DEF IInv, TypeOK, BackupInv
  <2>2. k[1] \in Nat /\ k[2] \in Slots /\ k = <<k[1], k[2]>>
    BY <2>1
  <2>3. k \in OfVersion(k[1])
    BY <2>2 DEF OfVersion
  <2>4. k \in GetAll(k[1]) /\ k \in GetRoom(k[1], k[2][1]) /\ k \in GetSession(k[1], k[2])
    BY <2>1, <2>2, <2>3 DEF GetAll, GetRoom, GetSession, OfRoom
  <2>5. \A j \in GetSession(k[1], k[2]) : j = k
    BY <2>2 DEF GetSession
  <2> QED
    BY <2>4, <2>5 DEF GetBackupKeysRoutes
<1>2. IInv => BackedUpKeysKept
  BY <1>1 DEF BackedUpKeysKept
<1> QED
  BY UserDataInductive, <1>2, PTL

\* A transaction that is tried again has one event and one answer, for any number
\* of tries at once, unless a crash or an error came between the event and the
\* row of the transaction.
THEOREM OneEvent == Spec => []OneEventPerTransaction
<1>1. ASSUME IInv
      PROVE  OneEventPerTransaction
  <2>1. MessageInv /\ events \subseteq Nat \X Txns
    BY <1>1 DEF IInv, TypeOK
  <2>2. answers \subseteq {<<e[2], e[1]>> : e \in events}
    <3> SUFFICES ASSUME NEW a \in answers PROVE \E e \in events : a = <<e[2], e[1]>>
      OBVIOUS
    <3>1. EventOf(a) \in events
      BY <2>1 DEF MessageInv
    <3>2. a \in Txns \X Nat
      BY <1>1 DEF IInv, TypeOK
    <3>3. a = <<a[1], a[2]>>
      BY <3>2
    <3>4. EventOf(a)[1] = a[2] /\ EventOf(a)[2] = a[1]
      BY DEF EventOf
    <3> QED
      BY <3>1, <3>3, <3>4
  <2>3. ASSUME NEW x \in Txns \ torn
        PROVE  /\ Cardinality({e \in events : e[2] = x}) <= 1
               /\ Cardinality({a \in answers : a[1] = x}) <= 1
    <3>1. \A e, f \in {e \in events : e[2] = x} : e = f
      BY <2>1, <2>3 DEF MessageInv
    <3>2. \A a, b \in {a \in answers : a[1] = x} : a = b
      <4> SUFFICES ASSUME NEW a \in answers, NEW b \in answers, a[1] = x, b[1] = x PROVE a = b
        OBVIOUS
      <4>1. PICK e \in events : a = <<e[2], e[1]>>
        BY <2>2
      <4>2. PICK f \in events : b = <<f[2], f[1]>>
        BY <2>2
      <4>3. e[2] = x /\ f[2] = x
        BY <4>1, <4>2
      <4>4. e = f
        BY <3>1, <4>3
      <4> QED
        BY <4>1, <4>2, <4>4
    <3> QED
      BY <3>1, <3>2, AtMostOne
  <2> QED
    BY <2>2, <2>3 DEF OneEventPerTransaction
<1> QED
  BY UserDataInductive, <1>1, PTL

=============================================================================
