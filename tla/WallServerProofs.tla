-------------------------- MODULE WallServerProofs --------------------------
(***************************************************************************)
(* Theorems about WallServer, for any words with any lengths, any number   *)
(* of them, and any size of the wall.                                      *)
(***************************************************************************)
EXTENDS WallServer, TLAPS, FiniteSetTheorems, SequenceTheorems

-----------------------------------------------------------------------------
(* Lengths                                                                 *)

\* Induction over the naturals, as the least number that fails.
LEMMA LeastNatural ==
  ASSUME NEW S \in SUBSET Nat, S # {}
  PROVE  \E n \in S : \A m \in S : n <= m
<1> DEFINE R == OpToRel(<, Nat)
<1>1. \A m, n \in Nat : m < n => <<m, n>> \in R
  BY Zenon DEF OpToRel
<1>2. IsWellFoundedOn(R, Nat)
  BY NatLessThanWellFounded
<1> HIDE DEF R
<1>3. PICK n \in S : \A m \in S : <<m, n>> \notin R
  BY <1>2, WFMin
<1>4. n \in Nat /\ \A m \in S : m \in Nat /\ ~ (m < n)
  BY <1>1, <1>3, Zenon
<1> QED
  BY <1>4

LEMMA GreatestBelow ==
  ASSUME NEW n \in Nat, NEW S \in SUBSET (1 .. n), S # {}
  PROVE  \E i \in S : \A j \in S : j <= i
<1> DEFINE Distances == {d \in Nat : n - d \in S}
<1>1. \A i \in S : i \in Nat /\ i <= n /\ n - i \in Nat /\ n - (n - i) = i
  OBVIOUS
<1>2. \A i \in S : n - i \in Distances
  BY <1>1
<1>3. Distances \in SUBSET Nat /\ Distances # {}
  BY <1>2
<1>4. \A d \in Distances : d \in Nat /\ n - d \in S
  OBVIOUS
<1> HIDE DEF Distances
<1>5. PICK d \in Distances : \A e \in Distances : d <= e
  BY <1>3, LeastNatural
<1>6. \A j \in S : d <= n - j
  BY <1>2, <1>5
<1> QED
  BY <1>1, <1>4, <1>5, <1>6

\* The element the fold takes next, and what it makes of a set of positions.
Taken(s) == CHOOSE i \in s : TRUE
SumOf(text, sum, s) ==
    IF s = {} THEN 0 ELSE Length[text[Taken(s)].word] + sum[s \ {Taken(s)}]
Sums(text, sum) == sum = [s \in SUBSET DOMAIN text |-> SumOf(text, sum, s)]

LEMMA BytesIsFold ==
  ASSUME NEW text
  PROVE  Bytes(text) = (CHOOSE sum : Sums(text, sum))[DOMAIN text]
BY DEF Bytes, FoldSeq, FoldFunction, FoldFunctionOnSet, MapThenFoldSet, Sums, SumOf, Taken

\* Without the element taken, a set of positions is smaller.
LEMMA TakenShrinks ==
  ASSUME NEW s, IsFiniteSet(s), s # {}
  PROVE  /\ Taken(s) \in s
         /\ IsFiniteSet(s \ {Taken(s)})
         /\ Cardinality(s) \in Nat
         /\ Cardinality(s \ {Taken(s)}) = Cardinality(s) - 1
<1>1. Taken(s) \in s
  BY DEF Taken
<1> QED
  BY <1>1, FS_RemoveElement, FS_CardinalityType

\* The fold is defined: by induction on the size of the sets of positions.
LEMMA SumsExists ==
  ASSUME NEW text, IsFiniteSet(DOMAIN text)
  PROVE  \E sum : Sums(text, sum)
<1> DEFINE Small(n) == {s \in SUBSET DOMAIN text : Cardinality(s) <= n}
           SumsTo(n, sum) == sum = [s \in Small(n) |-> SumOf(text, sum, s)]
           Fails == {n \in Nat : ~ \E sum : SumsTo(n, sum)}
<1>1. \A s \in SUBSET DOMAIN text : IsFiniteSet(s) /\ Cardinality(s) \in Nat
  BY FS_Subset, FS_CardinalityType
<1>2. SumsTo(0, [s \in Small(0) |-> 0])
  <2>1. \A s \in Small(0) : s = {}
    BY <1>1, FS_EmptySet
  <2> QED
    BY <2>1 DEF SumOf
<1>3. ASSUME NEW n \in Nat, NEW sum, SumsTo(n, sum)
      PROVE  SumsTo(n + 1, [s \in Small(n + 1) |-> SumOf(text, sum, s)])
  <2> DEFINE more == [s \in Small(n + 1) |-> SumOf(text, sum, s)]
  <2>1. ASSUME NEW s \in Small(n + 1) PROVE SumOf(text, sum, s) = SumOf(text, more, s)
    <3>1. CASE s = {}
      BY <3>1 DEF SumOf
    <3>2. CASE s # {}
      <4> DEFINE rest == s \ {Taken(s)}
      <4>1. rest \in Small(n)
        BY <3>2, <1>1, TakenShrinks
      <4>2. rest \in Small(n + 1)
        BY <4>1, <1>1
      <4>3. sum[rest] = SumOf(text, sum, rest)
        BY <4>1, <1>3
      <4>4. more[rest] = sum[rest]
        BY <4>2, <4>3
      <4> QED
        BY <3>2, <4>4 DEF SumOf
    <3> QED
      BY <3>1, <3>2
  <2> QED
    BY <2>1
<1>4. Fails = {}
  <2> SUFFICES ASSUME Fails # {} PROVE FALSE
    OBVIOUS
  <2>1. Fails \in SUBSET Nat
    OBVIOUS
  <2> HIDE DEF Fails
  <2>2. PICK n \in Fails : \A m \in Fails : n <= m
    BY <2>1, LeastNatural
  <2> USE DEF Fails
  <2> HIDE DEF SumsTo
  <2>3. n # 0
    BY <1>2
  <2>4. n - 1 \in Nat /\ n - 1 \notin Fails
    BY <2>1, <2>2, <2>3
  <2>5. PICK sum : SumsTo(n - 1, sum)
    BY <2>4
  <2>6. \E f : SumsTo(n - 1 + 1, f)
    BY <2>4, <2>5, <1>3, Zenon
  <2>7. n - 1 + 1 = n /\ n \in Nat
    BY <2>1, <2>2
  <2> QED
    BY <2>2, <2>6, <2>7
<1>5. Cardinality(DOMAIN text) \in Nat
  BY FS_CardinalityType
<1>6. Small(Cardinality(DOMAIN text)) = SUBSET DOMAIN text
  BY FS_Subset
<1>7. PICK sum : SumsTo(Cardinality(DOMAIN text), sum)
  BY <1>4, <1>5
<1> QED
  BY <1>6, <1>7 DEF Sums

\* The length of a text in bytes is a natural.
LEMMA BytesNat ==
  ASSUME NEW text \in Texts
  PROVE  Bytes(text) \in Nat
<1> DEFINE D == DOMAIN text
<1>1. IsFiniteSet(D) /\ \A i \in D : Length[text[i].word] \in Nat
  <2>1. D = 1 .. Len(text) /\ Len(text) \in Nat
    BY DEF Texts
  <2> DEFINE W == [word : DOMAIN Length, id : 1 .. MaxTyped]
  <2>2. \A w \in W : w.word \in DOMAIN Length
    OBVIOUS
  <2> HIDE DEF W
  <2>3. text \in Seq(W)
    BY DEF Texts, W
  <2>4. \A i \in D : text[i] \in W
    BY <2>3
  <2>5. IsFiniteSet(D)
    BY <2>1, FS_Interval
  <2> QED
    BY <2>2, <2>4, <2>5, WallAssumption
<1> DEFINE sum == CHOOSE f : Sums(text, f)
           Fails == {Cardinality(s) : s \in {t \in SUBSET D : sum[t] \notin Nat}}
<1>2. Sums(text, sum)
  BY <1>1, SumsExists
<1>3. \A s \in SUBSET D : IsFiniteSet(s) /\ Cardinality(s) \in Nat
  BY <1>1, FS_Subset, FS_CardinalityType
<1> HIDE DEF sum
<1>4. Fails = {}
  <2> SUFFICES ASSUME Fails # {} PROVE FALSE
    OBVIOUS
  <2>1. Fails \in SUBSET Nat
    BY <1>3
  <2>2. PICK n \in Fails : \A m \in Fails : n <= m
    <3> HIDE DEF Fails
    <3> QED
      BY <2>1, LeastNatural
  <2>3. PICK s \in SUBSET D : sum[s] \notin Nat /\ Cardinality(s) = n
    BY <2>2
  <2>4. sum[s] = SumOf(text, sum, s)
    BY <1>2 DEF Sums
  <2>5. s # {}
    BY <2>3, <2>4 DEF SumOf
  <2>6. /\ Taken(s) \in s
        /\ Cardinality(s \ {Taken(s)}) = Cardinality(s) - 1
    BY <2>5, <1>3, TakenShrinks
  <2>7. sum[s \ {Taken(s)}] \in Nat
    BY <2>2, <2>3, <2>6, <1>3
  <2> QED
    BY <2>3, <2>4, <2>5, <2>6, <2>7, <1>1 DEF SumOf
<1>5. sum[D] \in Nat
  BY <1>4
<1> QED
  BY <1>5, BytesIsFold DEF sum

-----------------------------------------------------------------------------
(* What is received                                                        *)

TypedWords == [word : DOMAIN Length, id : 1 .. MaxTyped]

LEMMA TextsDef == Texts = Seq(TypedWords)
BY DEF Texts, TypedWords

LEMMA PartsAreTexts ==
  ASSUME NEW text \in Texts, NEW m \in Nat \ {0}, NEW n \in 0 .. Len(text)
  PROVE  SubSeq(text, m, n) \in Texts
BY TextsDef

\* The words that are no line ends, and the last of them.
Kept(text) == {i \in DOMAIN text : text[i].word # "newline"}
Greatest(s) == CHOOSE i \in s : \A j \in s : j <= i

LEMMA TrimmedToKept ==
  ASSUME NEW text
  PROVE  /\ Kept(text) = {} => Trimmed(text) = SubSeq(text, 1, 0)
         /\ Kept(text) # {} => Trimmed(text) = SubSeq(text, 1, Greatest(Kept(text)))
BY DEF Trimmed, Kept, Greatest

LEMMA GreatestUnique ==
  ASSUME NEW n \in Nat, NEW s \in SUBSET (1 .. n), NEW k \in s, \A j \in s : j <= k
  PROVE  Greatest(s) = k
<1>1. \A i \in s : (\A j \in s : j <= i) => i = k
  OBVIOUS
<1> QED
  BY <1>1 DEF Greatest

\* Trimming keeps the text up to its last word that is not a line end.
LEMMA TrimmedIsPrefix ==
  ASSUME NEW text \in Texts
  PROVE  \E n \in 0 .. Len(text) :
            /\ Trimmed(text) = SubSeq(text, 1, n)
            /\ n > 0 => text[n].word # "newline"
<1>1. Len(text) \in Nat /\ DOMAIN text = 1 .. Len(text)
  BY TextsDef
<1>2. CASE Kept(text) = {}
  <2>1. 0 \in 0 .. Len(text) /\ ~ (0 > 0)
    BY <1>1
  <2> QED
    BY <1>2, <2>1, TrimmedToKept
<1>3. CASE Kept(text) # {}
  <2>1. Kept(text) \in SUBSET (1 .. Len(text))
    BY <1>1 DEF Kept
  <2>2. PICK k \in Kept(text) : \A j \in Kept(text) : j <= k
    BY <1>1, <1>3, <2>1, GreatestBelow
  <2>3. Trimmed(text) = SubSeq(text, 1, k)
    BY <1>1, <1>3, <2>1, <2>2, GreatestUnique, TrimmedToKept
  <2>4. k \in 0 .. Len(text) /\ text[k].word # "newline"
    BY <1>1, <2>1, <2>2 DEF Kept
  <2> QED
    BY <2>3, <2>4
<1> QED
  BY <1>2, <1>3

LEMMA TrimmedTwice ==
  ASSUME NEW text \in Texts
  PROVE  /\ Trimmed(text) \in Texts
         /\ Trimmed(Trimmed(text)) = Trimmed(text)
<1> DEFINE once == Trimmed(text)
<1>1. PICK n \in 0 .. Len(text) :
         once = SubSeq(text, 1, n) /\ (n > 0 => text[n].word # "newline")
  BY TrimmedIsPrefix
<1>2. Len(text) \in Nat /\ text \in Seq(TypedWords)
  BY TextsDef
<1>3. once \in Texts /\ Len(once) = n /\ DOMAIN once = 1 .. n
  BY <1>1, <1>2, PartsAreTexts
<1>4. n > 0 => once[n].word # "newline"
  BY <1>1, <1>2
<1> HIDE DEF once
<1>5. SubSeq(once, 1, n) = once
  <2>1. once \in Seq(TypedWords)
    BY <1>3, TextsDef
  <2> QED
    BY <1>3, <2>1
<1>6. Trimmed(once) = SubSeq(once, 1, n)
  <2>1. CASE n = 0
    <3>1. Kept(once) = {}
      BY <1>3, <2>1 DEF Kept
    <3> QED
      BY <2>1, <3>1, TrimmedToKept
  <2>2. CASE n > 0
    <3>1. /\ n \in Nat /\ Kept(once) \in SUBSET (1 .. n)
          /\ n \in Kept(once)
          /\ \A j \in Kept(once) : j <= n
      BY <1>3, <1>4, <2>2 DEF Kept
    <3>2. Greatest(Kept(once)) = n
      BY <3>1, GreatestUnique
    <3> QED
      BY <3>1, <3>2, TrimmedToKept
  <2> QED
    BY <2>1, <2>2, <1>1
<1> QED
  BY <1>3, <1>5, <1>6 DEF once

LEMMA ReceivedTypes ==
  ASSUME TypeOK, NEW got, ReceiveMessage(got)
  PROVE  /\ buffer' \in Texts /\ Trimmed(buffer') = buffer'
         /\ pending' \in Texts
         /\ pending = <<>> => pending' = <<>>
<1>1. pending \in Texts /\ Len(pending) \in Nat
  BY TextsDef DEF TypeOK
<1>2. got \in Texts /\ Len(got) \in Nat
  <2>1. <<>> \in Texts
    BY TextsDef
  <2>2. \A n \in 1 .. Len(pending) : SubSeq(pending, 1, n) \in Texts
    BY <1>1, PartsAreTexts
  <2>3. got \in Texts
    BY <2>1, <2>2 DEF ReceiveMessage, Incoming
  <2> QED
    BY <2>3, TextsDef
<1>3. buffer' = Trimmed(got) /\ pending' = SubSeq(pending, Len(got) + 1, Len(pending))
  BY DEF ReceiveMessage, Received
<1>4. pending' \in Texts
  BY <1>1, <1>2, <1>3, PartsAreTexts
<1>5. pending = <<>> => pending' = <<>>
  BY <1>2, <1>3
<1> QED
  BY <1>2, <1>3, <1>4, <1>5, TrimmedTwice

-----------------------------------------------------------------------------
(* Types                                                                   *)

LEMMA MessageType ==
  ASSUME NEW text \in Texts, name \in Texts
  PROVE  Message(text) \in Messages
BY DEF Message, Messages

LEMMA PushedType ==
  ASSUME wall \in Seq(Messages), NEW m \in Messages
  PROVE  Pushed(m) \in Seq(Messages)
<1> HIDE DEF Messages
<1>1. Append(wall, m) \in Seq(Messages)
  OBVIOUS
<1>2. Len(Append(wall, m)) > 0
  OBVIOUS
<1>3. Append(wall, m) # <<>>
  BY <1>1, <1>2
<1> QED
  BY <1>1, <1>3 DEF Pushed

\* The client at the other end stays, or its connection is reset.
LEMMA SendThenType ==
  ASSUME TypeOK, NEW number, NEW next, SendThen(number, next)
  PROVE  /\ pc' \in {next, "dead"}
         /\ client' \in {"none", "here", "closed", "resetting"}
         /\ client' = "none" => client = "none"
BY DEF SendThen, TypeOK

\* A command is read.
LEMMA ReceiveCommandType ==
  ASSUME TypeOK, NEW got, ReceiveCommand(got)
  PROVE  /\ {buffer', name', pending'} \subseteq Texts
         /\ Trimmed(buffer') = buffer'
         /\ pending = <<>> => pending' = <<>>
         /\ UNCHANGED <<max_messages, typed>>
<1>1. ReceiveMessage(got) /\ UNCHANGED <<max_messages, name, typed>>
  BY DEF ReceiveCommand
<1> QED
  BY <1>1, ReceivedTypes DEF TypeOK

LEMMA InitType == Init => TypeOK
<1> SUFFICES ASSUME Init PROVE TypeOK
  OBVIOUS
<1>1. <<>> \in Texts /\ <<>> \in Seq(Messages) /\ Len(<<>>) = 0
  BY TextsDef
<1>2. Trimmed(<<>>) = <<>>
  <2>1. PICK n \in 0 .. 0 : Trimmed(<<>>) = SubSeq(<<>>, 1, n)
    BY <1>1, TrimmedIsPrefix
  <2> QED
    BY <2>1
<1>3. 0 \in 0 .. MaxTyped
  BY WallAssumption
<1> QED
  BY <1>1, <1>2, <1>3 DEF Init, TypeOK

\* The actions that read a command, and what they may do besides.
Commanded ==
    \E got \in Incoming :
        /\ ReceiveCommand(got)
        /\ wall' \in {wall, <<>>}
        /\ posts' \in {posts, <<>>}
        /\ server_running' \in BOOLEAN
        /\ pc' \in {"show", "name", "close", "dead"}
        /\ client' \in {"none", "here", "closed", "resetting"}
        /\ client' = "none" => client = "none"

LEMMA CommandsAreCommanded ==
  ASSUME TypeOK, ClientGone \/ Clear \/ StartPost \/ Kill \/ Quit \/ Ignore
  PROVE  Commanded
<1> USE DEF TypeOK, Commanded
<1>1. CASE ClientGone
  BY <1>1 DEF ClientGone
<1>2. CASE Clear
  <2>1. PICK got \in Incoming :
           ReceiveCommand(got) /\ wall' = <<>> /\ posts' = <<>> /\ SendThen(1, "show")
           /\ UNCHANGED server_running
    BY <1>2 DEF Clear
  <2> QED
    BY <2>1, SendThenType
<1>3. CASE StartPost
  <2>1. PICK got \in Incoming :
           ReceiveCommand(got) /\ SendThen(1, "name") /\ UNCHANGED <<wall, server_running, posts>>
    BY <1>3 DEF StartPost
  <2> QED
    BY <2>1, SendThenType
<1>4. CASE Kill
  <2>1. PICK got \in Incoming :
           ReceiveCommand(got) /\ server_running' = FALSE /\ SendThen(1, "close")
           /\ UNCHANGED <<wall, posts>>
    BY <1>4 DEF Kill
  <2> QED
    BY <2>1, SendThenType
<1>5. CASE Quit
  <2>1. PICK got \in Incoming :
           ReceiveCommand(got) /\ SendThen(1, "close") /\ UNCHANGED <<wall, server_running, posts>>
    BY <1>5 DEF Quit
  <2> QED
    BY <2>1, SendThenType
<1>6. CASE Ignore
  BY <1>6 DEF Ignore
<1> QED
  BY <1>1, <1>2, <1>3, <1>4, <1>5, <1>6

LEMMA NextType == TypeOK /\ [Next]_vars => TypeOK'
<1> SUFFICES ASSUME TypeOK, [Next]_vars PROVE TypeOK'
  OBVIOUS
<1>1. CASE Type
  <2>1. /\ client = "here" /\ typed \in 0 .. MaxTyped /\ typed < MaxTyped
        /\ typed' = typed + 1
        /\ UNCHANGED <<wall, max_messages, server_running, pc, buffer, name, client, posts>>
    BY <1>1 DEF Type, TypeOK
  <2>2. PICK w \in DOMAIN Length : pending' = Append(pending, Word(w, typed + 1))
    BY <1>1 DEF Type
  <2>3. typed + 1 \in 1 .. MaxTyped
    BY <2>1, WallAssumption
  <2>4. Word(w, typed + 1) \in TypedWords
    BY <2>3 DEF Word, TypedWords
  <2>5. pending \in Seq(TypedWords)
    BY TextsDef DEF TypeOK
  <2>6. pending' \in Texts
    BY <2>2, <2>4, <2>5, TextsDef
  <2> QED
    BY <2>1, <2>3, <2>6 DEF TypeOK
<1>2. CASE Leave
  BY <1>2 DEF Leave, TypeOK
<1>3. CASE Accept
  BY <1>3 DEF Accept, TypeOK
<1>4. CASE Show
  <2>1. /\ \E number : SendThen(number, "command")
        /\ UNCHANGED <<wall, max_messages, server_running, buffer, name, pending, typed, posts>>
    BY <1>4 DEF Show
  <2> QED
    BY <2>1, SendThenType DEF TypeOK
<1>5. CASE Close
  <2>1. <<>> \in Texts
    BY TextsDef
  <2> QED
    BY <1>5, <2>1 DEF Close, TypeOK
<1>6. CASE ClientGone \/ Clear \/ StartPost \/ Kill \/ Quit \/ Ignore
  <2>1. PICK got \in Incoming :
           /\ ReceiveCommand(got)
           /\ wall' \in {wall, <<>>}
           /\ posts' \in {posts, <<>>}
           /\ server_running' \in BOOLEAN
           /\ pc' \in {"show", "name", "close", "dead"}
           /\ client' \in {"none", "here", "closed", "resetting"}
           /\ client' = "none" => client = "none"
    BY <1>6, CommandsAreCommanded DEF Commanded
  <2>2. <<>> \in Seq(Messages)
    OBVIOUS
  <2> QED
    BY <2>1, <2>2, ReceiveCommandType DEF TypeOK
<1>7. CASE ReceiveName
  <2>1. PICK got \in Incoming : ReceiveMessage(got)
    BY <1>7 DEF ReceiveName
  <2>2. /\ name' = buffer'
        /\ \E next \in {"text", "show"} : SendThen(1, next)
        /\ UNCHANGED <<wall, max_messages, server_running, typed, posts>>
    BY <1>7 DEF ReceiveName
  <2> QED
    BY <2>1, <2>2, ReceivedTypes, SendThenType DEF TypeOK
<1>8. CASE RefuseText \/ Post \/ PopFrontOfEmpty
  <2>1. PICK got \in Incoming : ReceiveMessage(got)
    BY <1>8 DEF RefuseText, Post, PopFrontOfEmpty, ReceiveText
  <2>2. /\ SendThen(1, "show") \/ (pc' = "dead" /\ client' = client)
        /\ UNCHANGED <<max_messages, server_running, name, typed>>
    BY <1>8 DEF RefuseText, Post, PopFrontOfEmpty, ReceiveText
  <2>3. wall' \in Seq(Messages) /\ posts' \in Seq(Messages)
    <3>1. CASE UNCHANGED <<wall, posts>>
      BY <3>1 DEF TypeOK
    <3>2. CASE wall' = Pushed(Message(buffer')) /\ posts' = Append(posts, Message(buffer'))
      <4>1. Message(buffer') \in Messages
        BY <2>1, ReceivedTypes, MessageType DEF TypeOK
      <4>2. wall' \in Seq(Messages)
        BY <3>2, <4>1, PushedType DEF TypeOK
      <4> QED
        BY <3>2, <4>1, <4>2 DEF TypeOK
    <3> QED
      BY <1>8, <3>1, <3>2 DEF RefuseText, Post, PopFrontOfEmpty
  <2> QED
    BY <2>1, <2>2, <2>3, ReceivedTypes, SendThenType DEF TypeOK
<1>9. CASE UNCHANGED vars
  BY <1>9 DEF vars, TypeOK
<1> QED
  BY <1>1, <1>2, <1>3, <1>4, <1>5, <1>6, <1>7, <1>8, <1>9 DEF Next, Client, Server

\* The types hold whatever the clients type, in whatever pieces it arrives.
THEOREM TypeCorrect == Spec => []TypeOK
BY InitType, NextType, PTL DEF Spec

-----------------------------------------------------------------------------
(* What is on the wall                                                     *)

\* The latest of a sequence, as many as there is room for.
Latest(messages, room) ==
    LET n == Len(messages)
        shown == IF n < room THEN n ELSE room
    IN  SubSeq(messages, n - shown + 1, n)

LEMMA LatestOf ==
  ASSUME NEW S, NEW s \in Seq(S), NEW room \in Nat
  PROVE  /\ Latest(s, room) \in Seq(S)
         /\ Len(Latest(s, room)) = IF Len(s) < room THEN Len(s) ELSE room
         /\ \A i \in 1 .. Len(Latest(s, room)) :
               Latest(s, room)[i] = s[Len(s) - Len(Latest(s, room)) + i]
<1> DEFINE n == Len(s)
           shown == IF n < room THEN n ELSE room
           first == n - shown + 1
<1>1. n \in Nat /\ shown \in 0 .. n /\ \A i \in 1 .. n : s[i] \in S
  OBVIOUS
<1>2. Latest(s, room) = SubSeq(s, first, n)
  BY DEF Latest
<1> HIDE DEF n, shown
<1>3. first \in 1 .. n + 1 /\ (IF first <= n THEN n - first + 1 ELSE 0) = shown
  BY <1>1
<1>4. \A i \in 1 .. shown : i \in 1 .. n - first + 1 /\ first + i - 1 = n - shown + i
  BY <1>1
<1> HIDE DEF first
<1>5. /\ SubSeq(s, first, n) \in Seq(S)
      /\ Len(SubSeq(s, first, n)) = shown
      /\ \A i \in 1 .. n - first + 1 : SubSeq(s, first, n)[i] = s[first + i - 1]
  <2>1. first \in Int /\ n \in Int /\ \A i \in first .. n : s[i] \in S
    BY <1>1, <1>3
  <2> QED
    BY <1>3, <2>1, SubSeqProperties
<1> QED
  BY <1>2, <1>4, <1>5 DEF n, shown

\* With one more, the latest are one more, or all but the first of that.
LEMMA LatestOfOneMore ==
  ASSUME NEW S, NEW s \in Seq(S), NEW room \in Nat, NEW m \in S
  PROVE  LET more == Append(Latest(s, room), m)
         IN  Latest(Append(s, m), room) =
                IF Len(Latest(s, room)) >= room THEN Tail(more) ELSE more
<1> DEFINE n == Len(s)
           old == Latest(s, room)
           more == Append(old, m)
           longer == Append(s, m)
           new == Latest(longer, room)
<1>1. /\ n \in Nat /\ longer \in Seq(S) /\ Len(longer) = n + 1
      /\ \A i \in 1 .. n : longer[i] = s[i]
      /\ longer[n + 1] = m
  OBVIOUS
<1>2. /\ old \in Seq(S) /\ Len(old) = IF n < room THEN n ELSE room
      /\ \A i \in 1 .. Len(old) : old[i] = s[n - Len(old) + i]
  BY LatestOf
<1> HIDE DEF longer
<1>3. /\ new \in Seq(S) /\ Len(new) = IF Len(longer) < room THEN Len(longer) ELSE room
      /\ \A i \in 1 .. Len(new) : new[i] = longer[Len(longer) - Len(new) + i]
  <2>1. longer \in Seq(S)
    BY <1>1
  <2> HIDE DEF n, old, more
  <2> QED
    BY <2>1, LatestOf
<1> HIDE DEF old, new, n
<1>4. /\ more \in Seq(S) /\ Len(more) = Len(old) + 1 /\ Len(old) \in Nat
      /\ \A i \in 1 .. Len(old) : more[i] = old[i]
      /\ more[Len(old) + 1] = m
  BY <1>2
<1> HIDE DEF more
<1>5. CASE n < room
  <2>1. Len(new) = n + 1 /\ Len(old) = n
    BY <1>1, <1>2, <1>3, <1>5
  <2>2. ASSUME NEW i \in 1 .. n + 1 PROVE new[i] = more[i]
    <3>1. new[i] = longer[i]
      <4>1. n + 1 - (n + 1) + i = i
        BY <1>1
      <4>2. new[i] = longer[Len(longer) - Len(new) + i]
        BY <1>3, <2>1
      <4>3. Len(longer) = n + 1 /\ Len(new) = n + 1
        BY <1>1, <2>1
      <4> QED
        BY <4>1, <4>2, <4>3
    <3>2. CASE i = n + 1
      BY <1>1, <1>4, <2>1, <3>1, <3>2
    <3>3. CASE i \in 1 .. n
      <4>1. old[i] = s[i]
        BY <1>1, <1>2, <2>1, <3>3
      <4> QED
        BY <1>1, <1>4, <2>1, <3>1, <3>3, <4>1
    <3> QED
      BY <1>1, <3>2, <3>3
  <2>3. new = more
    BY <1>3, <1>4, <2>1, <2>2, SeqEqual
  <2>4. ~ (Len(old) >= room)
    BY <1>1, <1>5, <2>1
  <2> QED
    BY <2>3, <2>4 DEF new, old, more, longer
<1>6. CASE ~ (n < room)
  <2>1. Len(new) = room /\ Len(old) = room /\ room <= n
    BY <1>1, <1>2, <1>3, <1>6
  <2>2. /\ Tail(more) \in Seq(S) /\ Len(Tail(more)) = room
        /\ \A i \in 1 .. room : Tail(more)[i] = more[i + 1]
    BY <1>4, <2>1
  <2>3. ASSUME NEW i \in 1 .. room PROVE new[i] = Tail(more)[i]
    <3>1. new[i] = longer[n + 1 - room + i]
      <4>1. new[i] = longer[Len(longer) - Len(new) + i]
        BY <1>3, <2>1
      <4>2. Len(longer) - Len(new) + i = n + 1 - room + i
        BY <1>1, <2>1
      <4> QED
        BY <4>1, <4>2, Zenon
    <3>2. CASE i = room
      BY <1>1, <1>4, <2>1, <2>2, <3>1, <3>2
    <3>3. CASE i + 1 \in 1 .. room
      <4>1. more[i + 1] = s[n - room + (i + 1)]
        BY <1>2, <1>4, <2>1, <3>3
      <4>2. n - room + (i + 1) \in 1 .. n /\ n - room + (i + 1) = n + 1 - room + i
        BY <1>1, <2>1, <3>3
      <4> QED
        BY <1>1, <2>2, <3>1, <4>1, <4>2
    <3>4. i = room \/ i + 1 \in 1 .. room
      OBVIOUS
    <3> QED
      BY <3>2, <3>3, <3>4
  <2>4. new = Tail(more)
    BY <1>3, <2>1, <2>2, <2>3, SeqEqual
  <2>5. Len(old) >= room
    BY <2>1
  <2> QED
    BY <2>4, <2>5 DEF new, old, more, longer
<1> QED
  BY <1>5, <1>6

\* What the name allows the text is counted in naturals.
NameLeavesRoom == pc = "text" => NameFits(name)

LEMMA PostedFits ==
  ASSUME name \in Texts, NameFits(name), NEW text \in Texts, TextFits(text)
  PROVE  MessageBytes(Message(text)) <= 80
<1>1. Bytes(name) \in Nat /\ Bytes(text) \in Nat
  BY BytesNat
<1>2. Bytes(name) <= 78
  BY <1>1 DEF NameFits
<1>3. Bytes(text) <= 80 - Bytes(name) - 2
  BY <1>1, <1>2 DEF TextFits
<1> QED
  BY <1>1, <1>3 DEF MessageBytes, Message

LEMMA PushedFits ==
  ASSUME wall \in Seq(Messages), NEW m \in Messages, MessagesFit, MessageBytes(m) <= 80,
         wall' = Pushed(m)
  PROVE  MessagesFit'
<1> HIDE DEF Messages, MessageBytes
<1> DEFINE long == Append(wall, m)
           Fits(w) == \A i \in DOMAIN w : MessageBytes(w[i]) <= 80
<1>1. long \in Seq(Messages) /\ Len(long) > 0 /\ \A i \in 1 .. Len(long) : long[i] = m \/ \E j \in DOMAIN wall : long[i] = wall[j]
  OBVIOUS
<1>2. Fits(long)
  BY <1>1 DEF MessagesFit
<1> HIDE DEF long
<1>3. Fits(Tail(long))
  <2>1. /\ Len(Tail(long)) = Len(long) - 1 /\ Len(long) \in Nat
        /\ DOMAIN Tail(long) = 1 .. Len(long) - 1
        /\ \A i \in 1 .. Len(long) - 1 : Tail(long)[i] = long[i + 1] /\ i + 1 \in DOMAIN long
    BY <1>1
  <2> QED
    BY <1>2, <2>1
<1>4. wall' \in {long, Tail(long)}
  BY DEF Pushed, long
<1>5. Fits(wall')
  BY <1>2, <1>3, <1>4
<1> QED
  BY <1>5 DEF MessagesFit, MessageBytes

WallInv == WallHoldsLatest /\ NameLeavesRoom /\ MessagesFit

LEMMA InitWall == Init => WallInv
<1> SUFFICES ASSUME Init PROVE WallInv
  OBVIOUS
<1>1. wall = <<>> /\ posts = <<>> /\ max_messages \in Nat /\ pc = "accept"
  BY WallAssumption DEF Init
<1>2. WallHoldsLatest
  BY <1>1 DEF WallHoldsLatest
<1> QED
  BY <1>1, <1>2 DEF WallInv, NameLeavesRoom, MessagesFit

\* A step that leaves the wall alone, or wipes it with what was posted.
LEMMA NothingPosted ==
  ASSUME TypeOK, WallInv, UNCHANGED max_messages,
         \/ UNCHANGED <<wall, posts>>
         \/ wall' = <<>> /\ posts' = <<>>
  PROVE  WallHoldsLatest' /\ MessagesFit'
<1>1. max_messages \in Nat
  BY WallAssumption DEF TypeOK
<1>2. CASE UNCHANGED <<wall, posts>>
  <2>1. WallHoldsLatest'
    BY <1>2, Zenon DEF WallInv, WallHoldsLatest
  <2>2. MessagesFit'
    BY <1>2, Zenon DEF WallInv, MessagesFit
  <2> QED
    BY <2>1, <2>2
<1>3. CASE wall' = <<>> /\ posts' = <<>>
  <2>1. WallHoldsLatest'
    BY <1>1, <1>3 DEF WallHoldsLatest
  <2> QED
    BY <1>3, <2>1 DEF MessagesFit
<1> QED
  BY <1>2, <1>3

LEMMA NextWall == TypeOK /\ WallInv /\ [Next]_vars => WallInv'
<1> SUFFICES ASSUME TypeOK, WallInv, [Next]_vars PROVE WallInv'
  OBVIOUS
<1>1. CASE Accept \/ Show \/ Close \/ Ignore \/ ClientGone \/ StartPost \/ Kill \/ Quit
  <2>1. pc' # "text" /\ UNCHANGED <<wall, posts, max_messages>>
    BY <1>1 DEF Accept, Show, Close, Ignore, ClientGone, StartPost, Kill, Quit, ReceiveCommand, SendThen
  <2>2. WallHoldsLatest' /\ MessagesFit'
    BY <2>1, NothingPosted
  <2>3. NameLeavesRoom'
    BY <2>1 DEF NameLeavesRoom
  <2> QED
    BY <2>2, <2>3 DEF WallInv
<1>2. CASE Clear
  <2>1. pc' # "text" /\ wall' = <<>> /\ posts' = <<>> /\ UNCHANGED max_messages
    BY <1>2 DEF Clear, ReceiveCommand, SendThen
  <2>2. WallHoldsLatest' /\ MessagesFit'
    BY <2>1, NothingPosted
  <2>3. NameLeavesRoom'
    BY <2>1 DEF NameLeavesRoom
  <2> QED
    BY <2>2, <2>3 DEF WallInv
<1>3. CASE ReceiveName
  <2>1. /\ UNCHANGED <<wall, posts, max_messages>>
        /\ pc' = "text" => NameFits(name')
    BY <1>3 DEF ReceiveName, SendThen
  <2>2. WallHoldsLatest' /\ MessagesFit'
    BY <2>1, NothingPosted
  <2>3. NameLeavesRoom'
    BY <2>1 DEF WallInv, NameLeavesRoom
  <2> QED
    BY <2>2, <2>3 DEF WallInv
<1>4. CASE RefuseText \/ PopFrontOfEmpty
  <2>1. pc' # "text" /\ UNCHANGED <<wall, posts, max_messages>>
    BY <1>4 DEF RefuseText, PopFrontOfEmpty, ReceiveText, SendThen
  <2>2. WallHoldsLatest' /\ MessagesFit'
    BY <2>1, NothingPosted
  <2>3. NameLeavesRoom'
    BY <2>1 DEF NameLeavesRoom
  <2> QED
    BY <2>2, <2>3 DEF WallInv
<1>5. CASE Post
  <2> DEFINE m == Message(buffer')
  <2>1. /\ pc = "text" /\ pc' # "text" /\ TextFits(buffer')
        /\ wall' = Pushed(m) /\ posts' = Append(posts, m) /\ max_messages' = max_messages
        /\ \E got : ReceiveMessage(got)
    BY <1>5 DEF Post, ReceiveText, SendThen
  <2>2. buffer' \in Texts /\ name \in Texts /\ wall \in Seq(Messages) /\ posts \in Seq(Messages)
    BY <2>1, ReceivedTypes DEF TypeOK
  <2>3. m \in Messages
    BY <2>2, MessageType
  <2>4. MessageBytes(m) <= 80
    BY <2>1, <2>2, PostedFits DEF WallInv, NameLeavesRoom
  <2> HIDE DEF m
  <2>5. max_messages \in Nat
    BY WallAssumption DEF TypeOK
  <2>6. WallHoldsLatest'
    <3>1. wall = Latest(posts, max_messages)
      BY DEF WallInv, WallHoldsLatest, Latest
    <3>2. wall' = Latest(posts', max_messages')
      BY <2>1, <2>2, <2>3, <2>5, <3>1, LatestOfOneMore DEF Pushed, Full
    <3> QED
      BY <3>2 DEF WallHoldsLatest, Latest
  <2>7. MessagesFit'
    BY <2>1, <2>2, <2>3, <2>4, PushedFits DEF WallInv
  <2> QED
    BY <2>1, <2>6, <2>7 DEF WallInv, NameLeavesRoom
<1>6. CASE Type \/ Leave \/ UNCHANGED vars
  <2>1. UNCHANGED <<wall, posts, max_messages, pc, name>>
    BY <1>6 DEF Type, Leave, vars
  <2>2. WallHoldsLatest' /\ MessagesFit'
    BY <2>1, NothingPosted
  <2>3. NameLeavesRoom'
    BY <2>1 DEF WallInv, NameLeavesRoom
  <2> QED
    BY <2>2, <2>3 DEF WallInv
<1> QED
  BY <1>1, <1>2, <1>3, <1>4, <1>5, <1>6 DEF Next, Client, Server

LEMMA WallInvariant == Spec => [](TypeOK /\ WallInv)
<1>1. Init => TypeOK /\ WallInv
  BY InitType, InitWall
<1>2. TypeOK /\ WallInv /\ [Next]_vars => (TypeOK /\ WallInv)'
  BY NextType, NextWall
<1> QED
  BY <1>1, <1>2, PTL DEF Spec

\* Whatever the size of the wall, 0 included, and however many sessions: the
\* queue holds the latest posts since it was cleared, as many as it takes.
THEOREM LatestAlways == Spec => []WallHoldsLatest
<1>1. WallInv => WallHoldsLatest
  BY DEF WallInv
<1> QED
  BY <1>1, WallInvariant, PTL

\* However the bytes arrive, no message is longer than 80 bytes: the limit of
\* the text, computed as an int and compared as a size_t, is never negative.
THEOREM FitAlways == Spec => []MessagesFit
<1>1. WallInv => MessagesFit
  BY DEF WallInv
<1> QED
  BY <1>1, WallInvariant, PTL

-----------------------------------------------------------------------------
(* The order of typing                                                     *)

Increasing(t) == \A i, j \in DOMAIN t : i < j => t[i].id < t[j].id
Before(t, u) == \A i \in DOMAIN t, j \in DOMAIN u : t[i].id < u[j].id
UpTo(t, n) == \A i \in DOMAIN t : t[i].id <= n

\* The words of each message of a wall, in the order of the wall.
WordsOf(m) == m.name \o m.text
InOrder(seqs) ==
    /\ \A i \in DOMAIN seqs : Increasing(seqs[i])
    /\ \A i, j \in DOMAIN seqs : i < j => Before(seqs[i], seqs[j])

LEMMA IdsAreNumbers ==
  ASSUME NEW t \in Texts, NEW i \in DOMAIN t
  PROVE  t[i].id \in Int
<1>1. \A w \in TypedWords : w.id \in Int
  BY DEF TypedWords
<1>2. t[i] \in TypedWords
  <2> HIDE DEF TypedWords
  <2> QED
    BY TextsDef
<1> QED
  BY <1>1, <1>2

LEMMA ConcatInOrder ==
  ASSUME NEW t \in Texts, NEW u \in Texts, Increasing(t), Increasing(u), Before(t, u)
  PROVE  /\ t \o u \in Texts
         /\ Increasing(t \o u)
         /\ \A i \in DOMAIN (t \o u) :
               (\E j \in DOMAIN t : (t \o u)[i] = t[j]) \/ (\E j \in DOMAIN u : (t \o u)[i] = u[j])
<1> DEFINE c == t \o u
<1>1. /\ t \in Seq(TypedWords) /\ u \in Seq(TypedWords)
      /\ Len(t) \in Nat /\ DOMAIN t = 1 .. Len(t) /\ Len(u) \in Nat /\ DOMAIN u = 1 .. Len(u)
  BY TextsDef
<1>2. /\ c \in Seq(TypedWords) /\ Len(c) = Len(t) + Len(u)
      /\ \A i \in 1 .. Len(c) : c[i] = IF i <= Len(t) THEN t[i] ELSE u[i - Len(t)]
  BY <1>1, ConcatProperties
<1> HIDE DEF c
<1>3. DOMAIN c = 1 .. Len(t) + Len(u)
  BY <1>2
<1>4. \A i \in DOMAIN c :
         \/ i \in DOMAIN t /\ c[i] = t[i]
         \/ i - Len(t) \in DOMAIN u /\ c[i] = u[i - Len(t)] /\ i > Len(t)
  BY <1>1, <1>2, <1>3
<1>5. Increasing(c)
  <2> SUFFICES ASSUME NEW i \in DOMAIN c, NEW j \in DOMAIN c, i < j PROVE c[i].id < c[j].id
    BY DEF Increasing
  <2>1. CASE j \in DOMAIN t /\ c[j] = t[j]
    <3>1. i \in DOMAIN t /\ c[i] = t[i]
      BY <1>1, <1>3, <1>4, <2>1
    <3> QED
      BY <2>1, <3>1 DEF Increasing
  <2>2. CASE j - Len(t) \in DOMAIN u /\ c[j] = u[j - Len(t)]
    <3>1. CASE i \in DOMAIN t /\ c[i] = t[i]
      BY <2>2, <3>1 DEF Before
    <3>2. CASE i - Len(t) \in DOMAIN u /\ c[i] = u[i - Len(t)]
      <4>1. i - Len(t) < j - Len(t)
        BY <1>1, <1>3
      <4> QED
        BY <2>2, <3>2, <4>1 DEF Increasing
    <3> QED
      BY <1>4, <3>1, <3>2
  <2> QED
    BY <1>4, <2>1, <2>2
<1> QED
  BY <1>2, <1>4, <1>5, TextsDef DEF c

\* FlattenSeq, as the recursive function it is.
FlatUpTo(seqs, n, flat) ==
    flat = [i \in 1 .. n |-> IF i = 1 THEN seqs[i] ELSE flat[i - 1] \o seqs[i]]

LEMMA FlattenIs ==
  ASSUME NEW seqs
  PROVE  FlattenSeq(seqs) = IF Len(seqs) = 0 THEN seqs
                            ELSE (CHOOSE flat : FlatUpTo(seqs, Len(seqs), flat))[Len(seqs)]
BY DEF FlattenSeq, FlatUpTo

LEMMA FlatExists ==
  ASSUME NEW seqs, NEW n \in Nat
  PROVE  \E flat : FlatUpTo(seqs, n, flat)
<1> DEFINE Fails == {k \in Nat : ~ \E flat : FlatUpTo(seqs, k, flat)}
<1>1. FlatUpTo(seqs, 0, <<>>)
  BY DEF FlatUpTo
<1>2. ASSUME NEW k \in Nat, NEW flat, FlatUpTo(seqs, k, flat)
      PROVE  \E more : FlatUpTo(seqs, k + 1, more)
  <2> DEFINE more == [i \in 1 .. k + 1 |-> IF i = 1 THEN seqs[i] ELSE flat[i - 1] \o seqs[i]]
  <2>1. ASSUME NEW i \in 1 .. k + 1, i # 1 PROVE more[i - 1] = flat[i - 1]
    <3>1. i - 1 \in 1 .. k /\ i - 1 \in 1 .. k + 1
      BY <2>1
    <3>2. flat[i - 1] = IF i - 1 = 1 THEN seqs[i - 1] ELSE flat[i - 1 - 1] \o seqs[i - 1]
      BY <1>2, <3>1 DEF FlatUpTo
    <3>3. more[i - 1] = IF i - 1 = 1 THEN seqs[i - 1] ELSE flat[i - 1 - 1] \o seqs[i - 1]
      BY <3>1
    <3> QED
      BY <3>2, <3>3
  <2>2. FlatUpTo(seqs, k + 1, more)
    BY <2>1 DEF FlatUpTo
  <2> QED
    BY <2>2
<1>3. Fails = {}
  <2> SUFFICES ASSUME Fails # {} PROVE FALSE
    OBVIOUS
  <2>1. Fails \in SUBSET Nat
    OBVIOUS
  <2>2. PICK k \in Fails : \A m \in Fails : k <= m
    <3> HIDE DEF Fails
    <3> QED
      BY <2>1, LeastNatural
  <2>3. k \in Nat /\ ~ \E flat : FlatUpTo(seqs, k, flat)
    OBVIOUS
  <2>4. k # 0
    BY <1>1, <2>3
  <2>5. k - 1 \in Nat /\ k - 1 \notin Fails /\ k - 1 + 1 = k
    BY <2>2, <2>3, <2>4
  <2>6. \E more : FlatUpTo(seqs, k - 1 + 1, more)
    BY <2>5, <1>2
  <2> QED
    BY <2>3, <2>5, <2>6
<1> QED
  BY <1>3

\* What is in order message by message is in order when put together.
LEMMA FlattenInOrder ==
  ASSUME NEW n \in Nat, NEW seqs \in [1 .. n -> Texts], InOrder(seqs)
  PROVE  Increasing(FlattenSeq(seqs))
<1>1. seqs \in Seq(Texts) /\ Len(seqs) = n /\ DOMAIN seqs = 1 .. n
  OBVIOUS
<1>2. CASE n = 0
  BY <1>1, <1>2, FlattenIs DEF Increasing
<1>3. CASE n # 0
  <2> DEFINE flat == CHOOSE f : FlatUpTo(seqs, n, f)
  <2>1. FlatUpTo(seqs, n, flat)
    BY FlatExists
  <2>2. FlattenSeq(seqs) = flat[n]
    BY <1>1, <1>3, FlattenIs
  <2> HIDE DEF flat
  <2> DEFINE From(t, k) == \A i \in DOMAIN t : \E j \in 1 .. k : \E p \in DOMAIN seqs[j] : t[i] = seqs[j][p]
             Good(k) == flat[k] \in Texts /\ Increasing(flat[k]) /\ From(flat[k], k)
             Fails == {k \in 1 .. n : ~ Good(k)}
  <2>3. Good(1)
    <3>1. flat[1] = seqs[1] /\ 1 \in 1 .. n
      BY <1>3, <2>1 DEF FlatUpTo
    <3> QED
      BY <1>1, <3>1 DEF InOrder
  <2>4. ASSUME NEW k \in 1 .. n, k - 1 \in 1 .. n, Good(k - 1) PROVE Good(k)
    <3>1. flat[k] = flat[k - 1] \o seqs[k]
      <4>1. k # 1
        BY <2>4
      <4>2. flat[k] = IF k = 1 THEN seqs[k] ELSE flat[k - 1] \o seqs[k]
        BY <2>1 DEF FlatUpTo
      <4> QED
        BY <4>1, <4>2
    <3>2. seqs[k] \in Texts /\ Increasing(seqs[k])
      BY <1>1 DEF InOrder
    <3>3. Before(flat[k - 1], seqs[k])
      <4> SUFFICES ASSUME NEW i \in DOMAIN flat[k - 1], NEW q \in DOMAIN seqs[k]
                   PROVE  flat[k - 1][i].id < seqs[k][q].id
        BY DEF Before
      <4>1. PICK j \in 1 .. k - 1 : \E p \in DOMAIN seqs[j] : flat[k - 1][i] = seqs[j][p]
        BY <2>4
      <4>2. j \in DOMAIN seqs /\ k \in DOMAIN seqs /\ j < k
        BY <1>1
      <4> QED
        BY <4>1, <4>2 DEF InOrder, Before
    <3>4. /\ flat[k] \in Texts /\ Increasing(flat[k])
          /\ \A i \in DOMAIN flat[k] :
                \/ \E j \in DOMAIN flat[k - 1] : flat[k][i] = flat[k - 1][j]
                \/ \E j \in DOMAIN seqs[k] : flat[k][i] = seqs[k][j]
      <4> DEFINE t == flat[k - 1]
                 u == seqs[k]
      <4>1. t \in Texts /\ u \in Texts /\ Increasing(t) /\ Increasing(u) /\ Before(t, u)
        BY <2>4, <3>2, <3>3
      <4>2. flat[k] = t \o u
        BY <3>1
      <4> HIDE DEF t, u
      <4>3. /\ t \o u \in Texts
            /\ Increasing(t \o u)
            /\ \A i \in DOMAIN (t \o u) :
                  (\E j \in DOMAIN t : (t \o u)[i] = t[j]) \/ (\E j \in DOMAIN u : (t \o u)[i] = u[j])
        BY <4>1, ConcatInOrder
      <4> QED
        BY <4>2, <4>3 DEF t, u
    <3>5. From(flat[k], k)
      <4>1. k \in 1 .. k /\ \A j \in 1 .. k - 1 : j \in 1 .. k
        OBVIOUS
      <4> QED
        BY <2>4, <3>4, <4>1
    <3> QED
      BY <3>4, <3>5
  <2>5. Fails = {}
    <3> SUFFICES ASSUME Fails # {} PROVE FALSE
      OBVIOUS
    <3>1. Fails \in SUBSET Nat
      OBVIOUS
    <3>2. PICK k \in Fails : \A m \in Fails : k <= m
      <4> HIDE DEF Fails
      <4> QED
        BY <3>1, LeastNatural
    <3>3. k \in 1 .. n /\ ~ Good(k)
      OBVIOUS
    <3>4. k # 1
      BY <2>3, <3>3
    <3>5. k - 1 \in 1 .. n /\ k - 1 \notin Fails
      BY <3>2, <3>3, <3>4
    <3>6. Good(k - 1)
      BY <3>5
    <3> QED
      BY <2>4, <3>3, <3>5, <3>6
  <2> QED
    BY <1>3, <2>2, <2>5
<1> QED
  BY <1>2, <1>3

-----------------------------------------------------------------------------
(* The wall in the order of typing                                         *)

\* A text that is older than the pending input p, and than what is typed after
\* the first n words.
Settled(t, p, n) == Before(t, p) /\ UpTo(t, n)

InputInOrder(p, n) == Increasing(p) /\ UpTo(p, n)

\* A wall w, older than the pending input.
WallInOrder(w, p, n) ==
    /\ \A i \in DOMAIN w :
          /\ Increasing(w[i].name) /\ Increasing(w[i].text) /\ Before(w[i].name, w[i].text)
          /\ Settled(w[i].name, p, n) /\ Settled(w[i].text, p, n)
    /\ \A i, j \in DOMAIN w : i < j =>
          /\ Before(w[i].name, w[j].name) /\ Before(w[i].name, w[j].text)
          /\ Before(w[i].text, w[j].name) /\ Before(w[i].text, w[j].text)

\* The name of a post, newer than the wall and older than the pending input.
NameInOrder(w, t, p, n) ==
    /\ Increasing(t) /\ Settled(t, p, n)
    /\ \A i \in DOMAIN w : Before(w[i].name, t) /\ Before(w[i].text, t)

OrderInv ==
    /\ WallInOrder(wall, pending, typed)
    /\ InputInOrder(pending, typed)
    /\ pc = "text" => NameInOrder(wall, name, pending, typed)

\* What was older than the input is older than each part of it.
Narrows(p, q) == \A t : Before(t, p) => Before(t, q)

LEMMA ReadInOrder ==
  ASSUME TypeOK, InputInOrder(pending, typed), NEW got, ReceiveMessage(got)
  PROVE  /\ InputInOrder(pending', typed)
         /\ Increasing(buffer') /\ Settled(buffer', pending', typed)
         /\ Narrows(pending, pending') /\ Narrows(pending, buffer')
<1>1. /\ pending \in Texts /\ pending \in Seq(TypedWords) /\ Len(pending) \in Nat
      /\ DOMAIN pending = 1 .. Len(pending)
  BY TextsDef DEF TypeOK
<1>2. PICK n \in 0 .. Len(pending) : got = SubSeq(pending, 1, n)
  <2>1. CASE got = <<>> /\ pending = <<>>
    <3>1. 0 \in 0 .. Len(pending) /\ got = SubSeq(pending, 1, 0)
      BY <1>1, <2>1
    <3> QED
      BY <3>1
  <2>2. CASE \E n \in 1 .. Len(pending) : got = SubSeq(pending, 1, n)
    BY <1>1, <2>2
  <2> QED
    BY <2>1, <2>2 DEF ReceiveMessage, Incoming
<1>3. got \in Texts /\ Len(got) = n /\ \A i \in 1 .. n : got[i] = pending[i]
  BY <1>1, <1>2, PartsAreTexts
<1>4. PICK k \in 0 .. n : buffer' = SubSeq(got, 1, k)
  BY <1>3, TrimmedIsPrefix DEF ReceiveMessage, Received
<1>5. DOMAIN buffer' = 1 .. k /\ \A i \in 1 .. k : buffer'[i] = pending[i] /\ i \in DOMAIN pending
  <2>1. got \in Seq(TypedWords)
    BY <1>3, TextsDef
  <2>2. DOMAIN buffer' = 1 .. k /\ \A i \in 1 .. k : buffer'[i] = got[i]
    BY <1>3, <1>4, <2>1
  <2> QED
    BY <1>1, <1>3, <2>2
<1>6. /\ DOMAIN pending' = 1 .. Len(pending) - n
      /\ \A i \in 1 .. Len(pending) - n : pending'[i] = pending[n + i] /\ n + i \in DOMAIN pending
  <2>1. pending' = SubSeq(pending, n + 1, Len(pending))
    BY <1>3 DEF ReceiveMessage
  <2> QED
    BY <1>1, <2>1
<1>7. InputInOrder(pending', typed)
  <2>1. \A i, j \in 1 .. Len(pending) - n : i < j => n + i < n + j
    BY <1>1
  <2> QED
    BY <1>6, <2>1 DEF InputInOrder, Increasing, UpTo
<1>8. Increasing(buffer')
  BY <1>5 DEF InputInOrder, Increasing
<1>9. Settled(buffer', pending', typed)
  <2>1. \A i \in 1 .. k, j \in 1 .. Len(pending) - n : i < n + j
    BY <1>1
  <2> QED
    BY <1>5, <1>6, <2>1 DEF InputInOrder, Increasing, UpTo, Settled, Before
<1>10. Narrows(pending, pending') /\ Narrows(pending, buffer')
  BY <1>5, <1>6 DEF Narrows, Before
<1> QED
  BY <1>7, <1>8, <1>9, <1>10

LEMMA NarrowerInput ==
  ASSUME NEW w, NEW t, NEW p, NEW q, NEW n, Narrows(p, q)
  PROVE  /\ WallInOrder(w, p, n) => WallInOrder(w, q, n)
         /\ NameInOrder(w, t, p, n) => NameInOrder(w, t, q, n)
BY DEF Narrows, WallInOrder, NameInOrder, Settled

LEMMA EmptyInOrder ==
  ASSUME NEW p, NEW n
  PROVE  WallInOrder(<<>>, p, n) /\ InputInOrder(<<>>, n) /\ Narrows(p, <<>>)
BY DEF WallInOrder, InputInOrder, Narrows, Increasing, UpTo, Before

\* The word typed next is newer than all that is settled.
LEMMA TypedIsLatest ==
  ASSUME NEW p \in Texts, NEW n \in Nat, NEW x \in TypedWords, x.id = n + 1, InputInOrder(p, n)
  PROVE  /\ InputInOrder(Append(p, x), n + 1)
         /\ \A t \in Texts : Settled(t, p, n) => Settled(t, Append(p, x), n + 1)
<1> DEFINE q == Append(p, x)
<1>1. /\ p \in Seq(TypedWords) /\ Len(p) \in Nat /\ DOMAIN p = 1 .. Len(p)
      /\ DOMAIN q = 1 .. Len(p) + 1
      /\ \A i \in 1 .. Len(p) : q[i] = p[i]
      /\ q[Len(p) + 1] = x
  BY TextsDef
<1> HIDE DEF q
<1>2. ASSUME NEW t \in Texts, UpTo(t, n)
      PROVE  \A i \in DOMAIN t : t[i].id \in Int /\ t[i].id < x.id /\ t[i].id <= n + 1
  BY <1>2, IdsAreNumbers DEF UpTo
<1>3. \A i \in DOMAIN q : (i \in DOMAIN p /\ q[i] = p[i]) \/ (i = Len(p) + 1 /\ q[i] = x)
  BY <1>1
<1>4. Increasing(q)
  <2> SUFFICES ASSUME NEW i \in DOMAIN q, NEW j \in DOMAIN q, i < j PROVE q[i].id < q[j].id
    BY DEF Increasing
  <2>1. i \in DOMAIN p /\ q[i] = p[i]
    BY <1>1
  <2>2. CASE j \in DOMAIN p /\ q[j] = p[j]
    BY <2>1, <2>2 DEF InputInOrder, Increasing
  <2>3. CASE q[j] = x
    BY <1>2, <2>1, <2>3 DEF InputInOrder
  <2> QED
    BY <1>3, <2>2, <2>3
<1>5. UpTo(q, n + 1)
  <2>1. \A i \in DOMAIN p : p[i].id <= n + 1
    BY <1>2 DEF InputInOrder
  <2> QED
    BY <1>3, <2>1 DEF UpTo
<1>6. ASSUME NEW t \in Texts, Settled(t, p, n) PROVE Settled(t, q, n + 1)
  <2>1. UpTo(t, n + 1) /\ \A i \in DOMAIN t : t[i].id < x.id
    BY <1>2, <1>6 DEF Settled, UpTo
  <2>2. Before(t, q)
    BY <1>3, <1>6, <2>1 DEF Settled, Before
  <2> QED
    BY <2>1, <2>2 DEF Settled
<1> QED
  BY <1>4, <1>5, <1>6 DEF InputInOrder, q

\* A message whose name and text are newer than the wall goes to its end.
LEMMA PostedInOrder ==
  ASSUME NEW w \in Seq(Messages), NEW m \in Messages, NEW p, NEW n,
         WallInOrder(w, p, n), NameInOrder(w, m.name, p, n),
         Increasing(m.text), Settled(m.text, p, n), Before(m.name, m.text),
         \A i \in DOMAIN w : Before(w[i].name, m.text) /\ Before(w[i].text, m.text)
  PROVE  WallInOrder(Append(w, m), p, n)
<1> HIDE DEF Messages
<1> DEFINE long == Append(w, m)
<1>1. /\ DOMAIN w = 1 .. Len(w) /\ Len(w) \in Nat
      /\ DOMAIN long = 1 .. Len(w) + 1
      /\ \A i \in 1 .. Len(w) : long[i] = w[i]
      /\ long[Len(w) + 1] = m
  OBVIOUS
<1> HIDE DEF long
<1>2. \A i \in DOMAIN long : (i \in DOMAIN w /\ long[i] = w[i]) \/ (i = Len(w) + 1 /\ long[i] = m)
  BY <1>1
<1>3. ASSUME NEW i \in DOMAIN long
      PROVE  /\ Increasing(long[i].name) /\ Increasing(long[i].text)
             /\ Before(long[i].name, long[i].text)
             /\ Settled(long[i].name, p, n) /\ Settled(long[i].text, p, n)
  <2>1. CASE i \in DOMAIN w /\ long[i] = w[i]
    BY <2>1 DEF WallInOrder
  <2>2. CASE long[i] = m
    BY <2>2 DEF NameInOrder
  <2> QED
    BY <1>2, <2>1, <2>2
<1>4. ASSUME NEW i \in DOMAIN long, NEW j \in DOMAIN long, i < j
      PROVE  /\ Before(long[i].name, long[j].name) /\ Before(long[i].name, long[j].text)
             /\ Before(long[i].text, long[j].name) /\ Before(long[i].text, long[j].text)
  <2>1. i \in DOMAIN w /\ long[i] = w[i]
    BY <1>1, <1>4
  <2>2. CASE j \in DOMAIN w /\ long[j] = w[j]
    BY <1>4, <2>1, <2>2 DEF WallInOrder
  <2>3. CASE long[j] = m
    BY <2>1, <2>3 DEF NameInOrder
  <2> QED
    BY <1>2, <2>2, <2>3
<1> QED
  BY <1>3, <1>4 DEF WallInOrder, long

LEMMA TailInOrder ==
  ASSUME NEW w \in Seq(Messages), Len(w) > 0, NEW p, NEW n, WallInOrder(w, p, n)
  PROVE  WallInOrder(Tail(w), p, n)
<1> HIDE DEF Messages
<1>1. \A i \in DOMAIN Tail(w) : i \in Int /\ i + 1 \in DOMAIN w /\ Tail(w)[i] = w[i + 1]
  OBVIOUS
<1>2. \A i, j \in DOMAIN Tail(w) : i < j => i + 1 < j + 1
  BY <1>1
<1> QED
  BY <1>1, <1>2 DEF WallInOrder

\* A step after which no name waits for its text.
LEMMA NoNameWaits ==
  ASSUME WallInOrder(wall, pending', typed'), wall' = wall \/ wall' = <<>>,
         InputInOrder(pending', typed'), pc' # "text"
  PROVE  OrderInv'
BY EmptyInOrder DEF OrderInv

LEMMA NextOrder == TypeOK /\ OrderInv /\ [Next]_vars => OrderInv'
<1> SUFFICES ASSUME TypeOK, OrderInv, [Next]_vars PROVE OrderInv'
  OBVIOUS
<1>1. CASE Type
  <2>1. /\ typed \in Nat /\ typed + 1 \in 1 .. MaxTyped /\ typed' = typed + 1
        /\ UNCHANGED <<wall, pc, name>>
    BY <1>1, WallAssumption DEF Type, TypeOK
  <2>2. PICK w \in DOMAIN Length : pending' = Append(pending, Word(w, typed + 1))
    BY <1>1 DEF Type
  <2> DEFINE x == Word(w, typed + 1)
  <2>3. x \in TypedWords /\ x.id = typed + 1
    BY <2>1 DEF Word, TypedWords
  <2> HIDE DEF x
  <2>4. pending \in Texts /\ name \in Texts /\ wall \in Seq(Messages)
    BY DEF TypeOK
  <2>5. /\ InputInOrder(pending', typed')
        /\ \A t \in Texts : Settled(t, pending, typed) => Settled(t, pending', typed')
    BY <2>1, <2>2, <2>3, <2>4, TypedIsLatest DEF OrderInv, x
  <2>6. \A i \in DOMAIN wall : wall[i].name \in Texts /\ wall[i].text \in Texts
    <3>1. \A m \in Messages : m.name \in Texts /\ m.text \in Texts
      BY DEF Messages
    <3> HIDE DEF Messages
    <3>2. \A i \in DOMAIN wall : wall[i] \in Messages
      BY <2>4
    <3> QED
      BY <3>1, <3>2
  <2>7. WallInOrder(wall, pending', typed')
    BY <2>5, <2>6 DEF OrderInv, WallInOrder
  <2>8. pc = "text" => NameInOrder(wall, name, pending', typed')
    BY <2>4, <2>5 DEF OrderInv, NameInOrder
  <2> QED
    BY <2>1, <2>5, <2>7, <2>8 DEF OrderInv
<1>2. CASE Accept \/ Show
  <2>1. UNCHANGED <<wall, pending, typed>> /\ pc' # "text"
    BY <1>2 DEF Accept, Show, SendThen
  <2> QED
    BY <2>1 DEF OrderInv
<1>3. CASE Close
  <2>1. UNCHANGED <<wall, typed>> /\ pending' = <<>> /\ pc' # "text"
    BY <1>3 DEF Close
  <2>2. WallInOrder(wall, pending', typed') /\ InputInOrder(pending', typed')
    BY <2>1, NarrowerInput, EmptyInOrder DEF OrderInv
  <2> QED
    BY <2>1, <2>2, NoNameWaits
<1>4. CASE ClientGone \/ Clear \/ StartPost \/ Kill \/ Quit \/ Ignore
         \/ RefuseText \/ PopFrontOfEmpty
  <2>1. /\ \E got : ReceiveMessage(got)
        /\ wall' = wall \/ wall' = <<>>
        /\ pc' # "text" /\ UNCHANGED typed
    BY <1>4 DEF ClientGone, Clear, StartPost, Kill, Quit, Ignore, RefuseText, PopFrontOfEmpty,
                ReceiveCommand, ReceiveText, SendThen
  <2>2. InputInOrder(pending', typed) /\ Narrows(pending, pending')
    BY <2>1, ReadInOrder DEF OrderInv
  <2>3. WallInOrder(wall, pending', typed)
    BY <2>2, NarrowerInput DEF OrderInv
  <2> QED
    BY <2>1, <2>2, <2>3, NoNameWaits
<1>5. CASE ReceiveName
  <2>1. /\ \E got : ReceiveMessage(got)
        /\ name' = buffer' /\ UNCHANGED <<wall, typed>>
    BY <1>5 DEF ReceiveName
  <2>2. /\ InputInOrder(pending', typed)
        /\ Increasing(buffer') /\ Settled(buffer', pending', typed)
        /\ Narrows(pending, pending') /\ Narrows(pending, buffer')
    BY <2>1, ReadInOrder DEF OrderInv
  <2>3. WallInOrder(wall, pending', typed)
    BY <2>2, NarrowerInput DEF OrderInv
  <2>4. NameInOrder(wall, buffer', pending', typed)
    BY <2>2 DEF OrderInv, WallInOrder, Settled, NameInOrder, Narrows
  <2> QED
    BY <2>1, <2>2, <2>3, <2>4 DEF OrderInv
<1>6. CASE Post
  <2> DEFINE m == Message(buffer')
  <2>1. /\ \E got : ReceiveMessage(got)
        /\ wall' = Pushed(m) /\ UNCHANGED typed /\ pc = "text" /\ pc' # "text"
    BY <1>6 DEF Post, ReceiveText, SendThen
  <2>2. /\ InputInOrder(pending', typed)
        /\ Increasing(buffer') /\ Settled(buffer', pending', typed)
        /\ Narrows(pending, pending') /\ Narrows(pending, buffer')
    BY <2>1, ReadInOrder DEF OrderInv
  <2>3. WallInOrder(wall, pending', typed) /\ NameInOrder(wall, name, pending', typed)
    BY <2>1, <2>2, NarrowerInput DEF OrderInv
  <2>4. /\ Before(name, buffer')
        /\ \A i \in DOMAIN wall : Before(wall[i].name, buffer') /\ Before(wall[i].text, buffer')
    BY <2>1, <2>2 DEF OrderInv, WallInOrder, NameInOrder, Settled, Narrows
  <2>5. m \in Messages /\ m.name = name /\ m.text = buffer' /\ wall \in Seq(Messages)
    BY <2>1, ReceivedTypes, MessageType DEF TypeOK, Message
  <2> HIDE DEF m
  <2>6. WallInOrder(Append(wall, m), pending', typed)
    BY <2>2, <2>3, <2>4, <2>5, PostedInOrder
  <2>7. Append(wall, m) \in Seq(Messages) /\ Len(Append(wall, m)) > 0
    <3> HIDE DEF Messages
    <3> QED
      BY <2>5
  <2>8. WallInOrder(wall', pending', typed)
    BY <2>1, <2>6, <2>7, TailInOrder DEF Pushed
  <2> QED
    BY <2>1, <2>2, <2>8 DEF OrderInv
<1>7. CASE Leave \/ UNCHANGED vars
  BY <1>7 DEF Leave, vars, OrderInv
<1> QED
  BY <1>1, <1>2, <1>3, <1>4, <1>5, <1>6, <1>7 DEF Next, Client, Server

LEMMA InitOrder == Init => OrderInv
BY EmptyInOrder DEF Init, OrderInv

LEMMA OrderOfWall == TypeOK /\ OrderInv => WallInTypingOrder
<1> SUFFICES ASSUME TypeOK, OrderInv PROVE WallInTypingOrder
  OBVIOUS
<1> DEFINE n == Len(wall)
           seqs == [i \in DOMAIN wall |-> wall[i].name \o wall[i].text]
<1>1. n \in Nat /\ DOMAIN wall = 1 .. n /\ \A i \in DOMAIN wall : wall[i] \in Messages
  <2> HIDE DEF Messages
  <2> QED
    BY DEF TypeOK
<1>2. ASSUME NEW i \in DOMAIN wall
      PROVE  /\ seqs[i] \in Texts /\ Increasing(seqs[i])
             /\ \A k \in DOMAIN seqs[i] :
                   \/ \E j \in DOMAIN wall[i].name : seqs[i][k] = wall[i].name[j]
                   \/ \E j \in DOMAIN wall[i].text : seqs[i][k] = wall[i].text[j]
  <2>1. wall[i].name \in Texts /\ wall[i].text \in Texts
    BY <1>1 DEF Messages
  <2>2. Increasing(wall[i].name) /\ Increasing(wall[i].text) /\ Before(wall[i].name, wall[i].text)
    BY DEF OrderInv, WallInOrder
  <2> QED
    BY <2>1, <2>2, ConcatInOrder
<1>3. seqs \in [1 .. n -> Texts]
  BY <1>1, <1>2
<1>4. InOrder(seqs)
  <2> SUFFICES ASSUME NEW i \in DOMAIN wall, NEW j \in DOMAIN wall, i < j PROVE Before(seqs[i], seqs[j])
    BY <1>2 DEF InOrder
  <2>1. /\ Before(wall[i].name, wall[j].name) /\ Before(wall[i].name, wall[j].text)
        /\ Before(wall[i].text, wall[j].name) /\ Before(wall[i].text, wall[j].text)
    BY DEF OrderInv, WallInOrder
  <2> HIDE DEF seqs
  <2> QED
    BY <1>2, <2>1 DEF Before
<1>5. Increasing(FlattenSeq(seqs))
  <2> HIDE DEF seqs, n
  <2> QED
    BY <1>1, <1>3, <1>4, FlattenInOrder
<1> QED
  BY <1>5 DEF WallInTypingOrder, Increasing

\* However the bytes arrive and whoever sends them, what is on the wall was
\* typed in that order, each word once: the buffer, wiped before each read,
\* carries nothing over from an earlier read or an earlier client.
THEOREM TypingOrderAlways == Spec => []WallInTypingOrder
<1>1. Init => TypeOK /\ OrderInv
  BY InitType, InitOrder
<1>2. TypeOK /\ OrderInv /\ [Next]_vars => (TypeOK /\ OrderInv)'
  BY NextType, NextOrder
<1> QED
  BY <1>1, <1>2, OrderOfWall, PTL DEF Spec

-----------------------------------------------------------------------------
(* The end of a session                                                    *)

Gone == client \in {"closed", "resetting"}

\* Nobody is at the other end exactly while no connection is open.
ConnectionInv == client = "none" <=> pc \in {"accept", "stopped"}

\* The steps of the dialogue the server can take at most without new input.
Turn ==
    CASE pc = "name" -> 5
      [] pc = "text" -> 4
      [] pc = "show" -> 3
      [] pc = "command" -> 2
      [] pc = "close" -> 1
      [] OTHER -> 0
TalkLeft == 4 * Len(pending) + Turn

\* The session goes on with a client that is gone, or the connection is closed.
Ends == Gone' \/ pc' \in {"accept", "stopped"}

\* A recv takes words off what is pending, unless nothing is.
LEMMA ReadTakes ==
  ASSUME TypeOK, NEW got, ReceiveMessage(got)
  PROVE  /\ Len(pending) \in Nat /\ Len(pending') \in Nat
         /\ \/ Len(pending') < Len(pending)
            \/ got = <<>> /\ Len(pending') = Len(pending)
<1>1. pending \in Seq(TypedWords) /\ Len(pending) \in Nat
  BY TextsDef DEF TypeOK
<1>2. CASE got = <<>>
  <2>1. Len(got) = 0 /\ pending' = SubSeq(pending, 1, Len(pending))
    BY <1>2 DEF ReceiveMessage
  <2>2. Len(pending') = Len(pending)
    BY <1>1, <2>1
  <2> QED
    BY <1>1, <1>2, <2>2
<1>3. CASE got # <<>>
  <2>1. PICK n \in 1 .. Len(pending) : got = SubSeq(pending, 1, n)
    BY <1>3 DEF ReceiveMessage, Incoming
  <2>2. Len(got) = n
    BY <1>1, <2>1
  <2>3. pending' = SubSeq(pending, n + 1, Len(pending))
    BY <2>2 DEF ReceiveMessage
  <2>4. Len(pending') = Len(pending) - n
    BY <1>1, <2>3
  <2> QED
    BY <1>1, <2>4
<1> QED
  BY <1>2, <1>3

\* A send leaves the client what it is, or gone.
LEMMA SendTurns ==
  ASSUME NEW number, NEW next, SendThen(number, next)
  PROVE  /\ pc' \in {next, "dead"}
         /\ client' = client \/ (Gone /\ Gone')
BY DEF SendThen, Gone

LEMMA CommandTurns ==
  ASSUME ClientGone \/ Clear \/ StartPost \/ Kill \/ Quit \/ Ignore
  PROVE  /\ pc = "command"
         /\ \E got : /\ ReceiveMessage(got)
                     /\ \/ pc' = "close" /\ client' = client
                        \/ got # <<>> /\ pc' \in {"show", "name", "close", "dead"}
         /\ client' = client \/ (Gone /\ Gone')
<1>1. CASE ClientGone
  BY <1>1 DEF ClientGone, ReceiveCommand
<1>2. CASE Clear \/ StartPost \/ Kill \/ Quit
  <2>1. PICK got \in Incoming, next \in {"show", "name", "close"} :
           ReceiveCommand(got) /\ ~ EndOfInput(got) /\ SendThen(1, next)
    BY <1>2 DEF Clear, StartPost, Kill, Quit
  <2>2. pc' \in {next, "dead"} /\ (client' = client \/ (Gone /\ Gone'))
    BY <2>1, SendTurns
  <2> QED
    BY <2>1, <2>2 DEF ReceiveCommand, EndOfInput
<1>3. CASE Ignore
  BY <1>3 DEF Ignore, ReceiveCommand, EndOfInput
<1> QED
  BY <1>1, <1>2, <1>3

LEMMA NextConnection == ConnectionInv /\ [Next]_vars => ConnectionInv'
<1> SUFFICES ASSUME ConnectionInv, [Next]_vars PROVE ConnectionInv'
  OBVIOUS
<1>1. CASE Type \/ Leave \/ UNCHANGED vars
  BY <1>1 DEF Type, Leave, vars, ConnectionInv
<1>2. CASE Accept \/ Close
  BY <1>2 DEF Accept, Close, ConnectionInv
<1>3. ASSUME pc \in {"show", "command", "name", "text"},
             pc' \in {"show", "command", "name", "text", "close", "dead"},
             client' = client \/ (Gone /\ Gone')
      PROVE  ConnectionInv'
  BY <1>3 DEF ConnectionInv, Gone
<1>4. CASE Show
  <2>1. pc = "show" /\ \E number : SendThen(number, "command")
    BY <1>4 DEF Show
  <2> QED
    BY <1>3, <2>1, SendTurns
<1>5. CASE ClientGone \/ Clear \/ StartPost \/ Kill \/ Quit \/ Ignore
  BY <1>3, <1>5, CommandTurns
<1>6. CASE ReceiveName
  <2>1. pc = "name" /\ \E next \in {"text", "show"} : SendThen(1, next)
    BY <1>6 DEF ReceiveName
  <2> QED
    BY <1>3, <2>1, SendTurns
<1>7. CASE RefuseText \/ Post \/ PopFrontOfEmpty
  <2>1. /\ pc = "text"
        /\ SendThen(1, "show") \/ (pc' = "dead" /\ client' = client)
    BY <1>7 DEF RefuseText, Post, PopFrontOfEmpty, ReceiveText
  <2> QED
    BY <1>3, <2>1, SendTurns
<1> QED
  BY <1>1, <1>2, <1>4, <1>5, <1>6, <1>7 DEF Next, Client, Server

LEMMA GoneStep ==
  ASSUME TypeOK, ConnectionInv, Gone, Next
  PROVE  TalkLeft' < TalkLeft /\ Ends
<1>1. ~ Type /\ ~ Leave /\ ~ Accept
  BY DEF Type, Leave, Accept, Gone, ConnectionInv
<1>2. Len(pending) \in Nat
  BY TextsDef DEF TypeOK
<1>3. ASSUME NEW got, ReceiveMessage(got), pc \in {"command", "name", "text"},
             pc' \in {"show", "name", "text", "close", "dead"},
             got = <<>> => Turn' < Turn
      PROVE  TalkLeft' < TalkLeft
  <2>1. /\ Len(pending') \in Nat
        /\ \/ Len(pending') < Len(pending)
           \/ got = <<>> /\ Len(pending') = Len(pending)
    BY <1>3, ReadTakes
  <2>2. Turn \in 2 .. 5 /\ Turn' \in 0 .. 5
    BY <1>3 DEF Turn
  <2> HIDE DEF Turn
  <2> QED
    BY <1>2, <1>3, <2>1, <2>2 DEF TalkLeft
<1>4. CASE Show
  <2>1. pc = "show" /\ UNCHANGED pending /\ \E number : SendThen(number, "command")
    BY <1>4 DEF Show
  <2>2. pc' \in {"command", "dead"} /\ Gone'
    BY <2>1, SendTurns DEF Gone
  <2> QED
    BY <1>2, <2>1, <2>2 DEF TalkLeft, Turn, Ends
<1>5. CASE Close
  <2>1. pc = "close" /\ pc' \in {"accept", "stopped"} /\ Len(pending') = 0
    BY <1>5 DEF Close
  <2> QED
    BY <1>2, <2>1 DEF TalkLeft, Turn, Ends
<1>6. CASE ClientGone \/ Clear \/ StartPost \/ Kill \/ Quit \/ Ignore
  <2>1. pc = "command" /\ Gone'
    BY <1>6, CommandTurns DEF Gone
  <2>2. PICK got : /\ ReceiveMessage(got)
                   /\ \/ pc' = "close"
                      \/ got # <<>> /\ pc' \in {"show", "name", "close", "dead"}
    BY <1>6, CommandTurns
  <2>3. got = <<>> => Turn' < Turn
    BY <2>1, <2>2 DEF Turn
  <2>4. TalkLeft' < TalkLeft
    BY <1>3, <2>1, <2>2, <2>3
  <2> QED
    BY <2>1, <2>4 DEF Ends
<1>7. CASE ReceiveName \/ RefuseText \/ Post \/ PopFrontOfEmpty
  <2>1. PICK got : ReceiveMessage(got)
    BY <1>7 DEF ReceiveName, RefuseText, Post, PopFrontOfEmpty, ReceiveText
  <2>2. \/ pc = "name" /\ pc' \in {"text", "show", "dead"} /\ Gone'
        \/ pc = "text" /\ pc' \in {"show", "dead"} /\ Gone'
    <3>1. \/ pc = "name" /\ \E next \in {"text", "show"} : SendThen(1, next)
          \/ pc = "text" /\ SendThen(1, "show")
          \/ pc = "text" /\ pc' = "dead" /\ client' = client
      BY <1>7 DEF ReceiveName, RefuseText, Post, PopFrontOfEmpty, ReceiveText
    <3> QED
      BY <3>1, SendTurns DEF Gone
  <2>3. Turn' < Turn
    BY <2>2 DEF Turn
  <2>4. TalkLeft' < TalkLeft
    BY <1>3, <2>1, <2>2, <2>3
  <2> QED
    BY <2>2, <2>4 DEF Ends
<1> QED
  BY <1>1, <1>4, <1>5, <1>6, <1>7 DEF Next, Client, Server

\* Once the client has gone, recv never waits, and every step of the server
\* leaves fewer for this session, whatever the client had typed and wherever in
\* the dialogue it left: this is what SessionEnds needs beside fairness.
THEOREM SessionsRunOut ==
  Spec => /\ [](TalkLeft \in Nat /\ (Gone => Incoming # {}))
          /\ [][Gone => TalkLeft' < TalkLeft /\ Ends]_vars
<1>1. Init => TypeOK /\ ConnectionInv
  <2>1. Init => ConnectionInv
    BY DEF Init, ConnectionInv
  <2> QED
    BY <2>1, InitType
<1>2. TypeOK /\ ConnectionInv /\ [Next]_vars => (TypeOK /\ ConnectionInv)'
  BY NextType, NextConnection
<1>3. TypeOK => TalkLeft \in Nat /\ (Gone => Incoming # {})
  <2> SUFFICES ASSUME TypeOK PROVE TalkLeft \in Nat /\ (Gone => Incoming # {})
    OBVIOUS
  <2>1. pending \in Seq(TypedWords) /\ Len(pending) \in Nat
    BY TextsDef DEF TypeOK
  <2>2. Turn \in Nat
    BY DEF Turn
  <2>3. TalkLeft \in Nat
    <3> HIDE DEF Turn
    <3> QED
      BY <2>1, <2>2 DEF TalkLeft
  <2>4. ASSUME Gone PROVE Incoming # {}
    <3>1. CASE pending = <<>>
      BY <2>4, <3>1 DEF Gone, Incoming
    <3>2. CASE pending # <<>>
      <4>1. 1 \in 1 .. Len(pending)
        BY <2>1, <3>2
      <4> QED
        BY <4>1 DEF Incoming
    <3> QED
      BY <3>1, <3>2
  <2> QED
    BY <2>3, <2>4
<1>4. TypeOK /\ ConnectionInv /\ [Next]_vars => [Gone => TalkLeft' < TalkLeft /\ Ends]_vars
  BY GoneStep
<1> QED
  BY <1>1, <1>2, <1>3, <1>4, PTL DEF Spec
=============================================================================
