------------------------------- MODULE ScanProofs -------------------------------
(***************************************************************************)
(* Theorems about Scan: for every set of datagrams and any number of them, *)
(* every size of the table of devices and of the kernel's queues.          *)
(***************************************************************************)
EXTENDS Scan, FiniteSetTheorems, SequenceTheorems, TLAPS

-----------------------------------------------------------------------------
(* What a device has padded is what is read.                               *)

\* aes128_ecb_decrypt() finds the text in front of any proper padding, a whole block of
\* it too.
THEOREM PaddingRemoved ==
  ASSUME NEW text \in Seq(Nat), NEW n \in 1..AES_BLOCK, (Len(text) + n) % AES_BLOCK = 0
  PROVE  Unpad(text \o Padding(n)) = Len(text)
<1> DEFINE padding == Padding(n)
           bytes == text \o padding
<1>1. n \in Nat /\ n >= 1 /\ n <= AES_BLOCK /\ AES_BLOCK \in Nat
  BY ScanAssumption
<1>2. padding \in Seq(Nat) /\ Len(padding) = n /\ \A k \in 1..n : padding[k] = n
  BY <1>1 DEF Padding
<1> HIDE DEF padding
<1>3. /\ bytes \in Seq(Nat) /\ Len(bytes) = Len(text) + n
      /\ \A k \in 1..Len(text) + n :
           bytes[k] = IF k <= Len(text) THEN text[k] ELSE padding[k - Len(text)]
  BY <1>2, ConcatProperties
<1> HIDE DEF bytes
<1>4. Len(text) \in Nat
  BY LenProperties
<1>5. \A k \in (Len(text) + 1)..(Len(text) + n) : bytes[k] = n
  <2> SUFFICES ASSUME NEW k \in (Len(text) + 1)..(Len(text) + n) PROVE bytes[k] = n
    OBVIOUS
  <2>1. k - Len(text) \in 1..n /\ k \in 1..Len(text) + n /\ ~(k <= Len(text))
    BY <1>1, <1>4
  <2> QED
    BY <1>2, <1>3, <2>1
<1>6. /\ Len(bytes) # 0 /\ Len(bytes) % AES_BLOCK = 0 /\ bytes[Len(bytes)] = n
      /\ ~(n < 1 \/ n > AES_BLOCK \/ n > Len(bytes))
      /\ ~(\E k \in (Len(bytes) - n + 1)..Len(bytes) : bytes[k] # n)
      /\ Len(bytes) - n = Len(text)
  <2>1. Len(bytes) # 0 /\ Len(bytes) - n = Len(text) /\ Len(bytes) - n + 1 = Len(text) + 1
    BY <1>1, <1>3, <1>4
  <2>2. Len(bytes) % AES_BLOCK = 0
    BY <1>3
  <2>3. Len(bytes) \in (Len(text) + 1)..(Len(text) + n)
    BY <1>1, <1>3, <1>4
  <2>4. bytes[Len(bytes)] = n
    BY <1>5, <2>3
  <2>5. ~(n < 1 \/ n > AES_BLOCK \/ n > Len(bytes))
    BY <1>1, <1>3, <1>4
  <2>6. \A k \in (Len(bytes) - n + 1)..Len(bytes) : bytes[k] = n
    BY <1>3, <1>5, <2>1
  <2> QED
    BY <2>1, <2>2, <2>4, <2>5, <2>6, Zenon
<1>7. Unpad(bytes) = Len(bytes) - n
  BY <1>6, Zenon DEF Unpad
<1> QED
  BY <1>6, <1>7 DEF bytes, padding

\* A length, or -1.
LEMMA UnpadType == ASSUME NEW bytes \in Seq(Nat) PROVE Unpad(bytes) \in Int
<1> DEFINE len == Len(bytes)
           n == bytes[len]
<1>1. len \in Nat
  BY LenProperties
<1>2. len # 0 => n \in Nat
  BY <1>1
<1> HIDE DEF len, n
<1>3. len # 0 => len - n \in Int
  BY <1>1, <1>2
<1>4. Unpad(bytes) = -1 \/ (len # 0 /\ Unpad(bytes) = len - n)
  BY Zenon DEF Unpad, len, n
<1>5. -1 \in Int
  OBVIOUS
<1> QED
  BY <1>3, <1>4, <1>5

\* It finds a text only in front of a proper padding: what is rubbish is not cut to one.
THEOREM PaddingChecked ==
  ASSUME NEW bytes \in Seq(Nat), Unpad(bytes) >= 0
  PROVE  /\ Unpad(bytes) \in 0..Len(bytes)
         /\ \E n \in 1..AES_BLOCK :
              LET text == SubSeq(bytes, 1, Unpad(bytes))
              IN (Len(text) + n) % AES_BLOCK = 0 /\ bytes = text \o Padding(n)
<1> DEFINE len == Len(bytes)
           n == bytes[len]
           plen == Unpad(bytes)
           text == SubSeq(bytes, 1, plen)
<1>1. len \in Nat /\ AES_BLOCK \in Nat /\ AES_BLOCK # 0
  BY LenProperties, ScanAssumption
<1>2. ~(len = 0 \/ len % AES_BLOCK # 0) /\ ~(n < 1 \/ n > AES_BLOCK \/ n > len)
      /\ ~(\E k \in (len - n + 1)..len : bytes[k] # n) /\ plen = len - n
  <2>1. Unpad(bytes) # -1
    OBVIOUS
  <2>2. ~(len = 0 \/ len % AES_BLOCK # 0)
    BY <2>1, Zenon DEF Unpad
  <2>3. ~(n < 1 \/ n > AES_BLOCK \/ n > len)
    BY <2>1, Zenon DEF Unpad
  <2>4. ~(\E k \in (len - n + 1)..len : bytes[k] # n)
    BY <2>1, Zenon DEF Unpad
  <2>5. plen = len - n
    BY <2>1, <2>2, <2>3, <2>4, Zenon DEF Unpad
  <2> QED
    BY <2>2, <2>3, <2>4, <2>5
<1>3. n \in Nat
  BY <1>1, <1>2
<1> HIDE DEF len, n, plen
<1>4. n \in 1..AES_BLOCK /\ plen \in 0..len /\ plen \in Nat
  BY <1>1, <1>2, <1>3
<1>5. /\ text \in Seq(Nat) /\ Len(text) = plen
      /\ \A k \in 1..plen : text[k] = bytes[k]
  BY <1>1, <1>4, SubSeqProperties DEF len
<1> DEFINE padding == Padding(n)
<1>6. padding \in Seq(Nat) /\ Len(padding) = n /\ \A k \in 1..n : padding[k] = n
  BY <1>3 DEF Padding
<1> HIDE DEF text, padding
<1> DEFINE whole == text \o padding
<1>7. /\ whole \in Seq(Nat) /\ Len(whole) = plen + n
      /\ \A k \in 1..plen + n :
           whole[k] = IF k <= plen THEN text[k] ELSE padding[k - plen]
  BY <1>5, <1>6, ConcatProperties
<1> HIDE DEF whole
<1>8. whole = bytes
  <2>1. plen + n = len
    BY <1>1, <1>2, <1>3
  <2>2. ASSUME NEW k \in 1..len PROVE whole[k] = bytes[k]
    <3>1. CASE k <= plen
      <4>1. k \in 1..plen
        BY <1>4, <3>1
      <4> QED
        BY <1>5, <1>7, <2>1, <3>1, <4>1
    <3>2. CASE ~(k <= plen)
      <4>1. k - plen \in 1..n /\ k \in (len - n + 1)..len
        BY <1>1, <1>2, <1>3, <1>4, <3>2
      <4> QED
        BY <1>2, <1>6, <1>7, <2>1, <3>2, <4>1
    <3> QED
      BY <3>1, <3>2
  <2> QED
    BY <1>7, <2>1, <2>2, SeqEqual DEF len
<1>9. (Len(text) + n) % AES_BLOCK = 0
  <2>1. plen + n = len
    BY <1>1, <1>2, <1>3
  <2> QED
    BY <1>2, <1>5, <2>1
<1> QED
  BY <1>4, <1>8, <1>9 DEF whole, text, padding, plen, len

\* The names by which the listing and its reader know the device of a datagram agree;
\* a broken broadcast has none, and on port 7000 what is not a broadcast has one too.
Faithful ==
  \A d \in Datagrams :
    IF d.port = PORT_35 THEN KeyOf(d) = Key(NoText, d.sender) /\ Announced(d) = KeyOf(d)
    ELSE KeyOf(d) = IF Proper(d) THEN Announced(d) ELSE Key(NoText, Unset)

\* A text is the part of its frame in front of the padding.
LEMMA TextInFront ==
  ASSUME NEW s \in Seq(Nat), NEW t \in Seq(Nat)
  PROVE  SubSeq(s \o t, 1, Len(s)) = s
<1>1. /\ s \o t \in Seq(Nat) /\ Len(s) \in Nat /\ Len(t) \in Nat /\ Len(s \o t) = Len(s) + Len(t)
      /\ \A k \in 1..Len(s) + Len(t) : (s \o t)[k] = IF k <= Len(s) THEN s[k] ELSE t[k - Len(s)]
  BY LenProperties, ConcatProperties
<1>2. \A k \in 1..Len(s) : k \in 1..Len(s) + Len(t) /\ k <= Len(s) /\ (s \o t)[k] = s[k]
  BY <1>1
<1>3. \A k \in 1..Len(s) : s[k] \in Nat
  OBVIOUS
<1> DEFINE u == SubSeq(s \o t, 1, Len(s))
<1>4. u \in Seq(Nat) /\ Len(u) = Len(s) /\ \A k \in 1..Len(s) : u[k] = s[k]
  <2>1. \A k \in 1..Len(s) : (s \o t)[k] \in Nat
    BY <1>2, <1>3
  <2> QED
    BY <1>1, <1>2, <2>1, SubSeqProperties
<1> HIDE DEF u
<1>5. u = s
  BY <1>4, SeqEqual
<1> QED
  BY <1>5 DEF u

\* What handle_packet() finds is the id that the datagram carries, and nothing in one
\* that carries none.
LEMMA DecodedIsId ==
  ASSUME NEW d \in Datagrams, d.port # PORT_35 PROVE Decoded(d) = d.id
<1>1. d.id \in Seq(Nat) /\ d.bytes \in Seq(Nat) /\ d.framed \in BOOLEAN
  BY ScanAssumption
<1> DEFINE plen == IF d.port = PORT_33 THEN Unpad(d.bytes) ELSE Len(d.bytes)
<1>2. Decoded(d) = IF ~d.framed \/ Len(d.bytes) = 0 \/ plen < 0 THEN NoText
                   ELSE GwId(SubSeq(d.bytes, 1, plen))
  BY Zenon DEF Decoded
<1>3. CASE d.id # NoText
  <2>1. d.framed /\ HasId(d.id) /\ Carries(d, d.id)
    BY <1>3, BroadcastAssumption
  <2>2. Len(d.id) \in Nat /\ Len(d.id) # 0
    BY <1>1, <1>3, LenProperties, EmptySeq DEF NoText
  <2>3. plen = Len(d.id) /\ SubSeq(d.bytes, 1, plen) = d.id /\ Len(d.bytes) # 0
    <3>1. CASE d.port = PORT_33
      <4>1. PICK n \in 1..AES_BLOCK :
              (Len(d.id) + n) % AES_BLOCK = 0 /\ d.bytes = d.id \o Padding(n)
        BY <2>1, <3>1 DEF Carries
      <4>2. Unpad(d.bytes) = Len(d.id)
        BY <1>1, <4>1, PaddingRemoved
      <4>3. Padding(n) \in Seq(Nat) /\ Len(Padding(n)) \in Nat
        BY <4>1, ScanAssumption DEF Padding
      <4>4. SubSeq(d.bytes, 1, Len(d.id)) = d.id
        BY <1>1, <4>1, <4>3, TextInFront
      <4>5. Len(d.bytes) = Len(d.id) + Len(Padding(n))
        BY <1>1, <4>1, <4>3, ConcatProperties
      <4> QED
        BY <2>2, <3>1, <4>2, <4>3, <4>4, <4>5
    <3>2. CASE d.port # PORT_33
      <4>1. d.bytes = d.id
        BY <2>1, <3>2 DEF Carries
      <4>2. SubSeq(d.id, 1, Len(d.id)) = d.id
        BY <1>1, SubSeqFull
      <4> QED
        BY <2>2, <3>2, <4>1, <4>2
    <3> QED
      BY <3>1, <3>2
  <2>4. GwId(d.id) = d.id
    <3>1. \A n \in DOMAIN d.id : d.id[n] \in Nat /\ d.id[n] > AES_BLOCK /\ AES_BLOCK \in Nat
      BY <1>1, <2>1, ScanAssumption DEF HasId
    <3>2. \A n \in DOMAIN d.id : ~(d.id[n] <= AES_BLOCK)
      BY <3>1
    <3> QED
      BY <3>2 DEF GwId
  <2>5. ~(plen < 0)
    BY <2>2, <2>3
  <2> HIDE DEF plen
  <2> QED
    BY <1>2, <2>1, <2>3, <2>4, <2>5
<1>4. CASE d.id = NoText
  <2>1. SUFFICES ASSUME d.framed, Len(d.bytes) # 0, ~(plen < 0)
                 PROVE  GwId(SubSeq(d.bytes, 1, plen)) = NoText
    BY <1>2, <1>4, Zenon
  <2> DEFINE text == SubSeq(d.bytes, 1, plen)
  <2>2. plen \in 0..Len(d.bytes) /\ Carries(d, text)
    <3>1. CASE d.port = PORT_33
      <4>1. Unpad(d.bytes) \in Int
        BY <1>1, UnpadType
      <4>2. plen = Unpad(d.bytes) /\ Unpad(d.bytes) >= 0
        BY <2>1, <3>1, <4>1
      <4>3. /\ Unpad(d.bytes) \in 0..Len(d.bytes)
            /\ \E n \in 1..AES_BLOCK :
                 LET t == SubSeq(d.bytes, 1, Unpad(d.bytes))
                 IN (Len(t) + n) % AES_BLOCK = 0 /\ d.bytes = t \o Padding(n)
        BY <1>1, <4>2, PaddingChecked
      <4> QED
        BY <3>1, <4>2, <4>3, Zenon DEF Carries
    <3>2. CASE d.port # PORT_33
      <4>1. SubSeq(d.bytes, 1, Len(d.bytes)) = d.bytes /\ Len(d.bytes) \in 0..Len(d.bytes)
        BY <1>1, SubSeqFull, LenProperties
      <4> QED
        BY <3>2, <4>1 DEF Carries
    <3> QED
      BY <3>1, <3>2
  <2> HIDE DEF plen
  <2>3. ~HasId(text)
    BY <1>4, <2>1, <2>2, BroadcastAssumption
  <2> HIDE DEF text
  <2>4. GwId(text) = NoText
    <3>1. CASE text = NoText
      BY <3>1 DEF GwId
    <3>2. CASE text # NoText
      <4>1. text \in Seq(Nat)
        BY <1>1, <2>2, SubSeqProperties, LenProperties DEF text
      <4>2. PICK n \in DOMAIN text : ~(text[n] > AES_BLOCK)
        BY <2>3, <3>2 DEF HasId
      <4>3. text[n] \in Nat /\ AES_BLOCK \in Nat
        BY <4>1, ScanAssumption
      <4> QED
        BY <4>2, <4>3 DEF GwId
    <3> QED
      BY <3>1, <3>2
  <2> QED
    BY <2>4 DEF text
<1> QED
  BY <1>3, <1>4

\* The network is as the listing takes it to be.
LEMMA NetworkFaithful == Faithful
<1>1. ASSUME NEW d \in Datagrams, d.port # PORT_35
      PROVE  KeyOf(d) = IF Proper(d) THEN Announced(d) ELSE Key(NoText, Unset)
  BY <1>1, DecodedIsId DEF KeyOf, Proper, Announced
<1>2. ASSUME NEW d \in Datagrams, d.port = PORT_35
      PROVE  KeyOf(d) = Key(NoText, d.sender) /\ Announced(d) = KeyOf(d)
  BY <1>2 DEF KeyOf, Announced
<1> QED
  BY <1>1, <1>2 DEF Faithful

-----------------------------------------------------------------------------
(* The inductive invariant.                                                *)

\* The types of TypeOK in groups that the provers take one at a time.
PlaceType ==
  /\ pc \in {"open", "select", "read", "done", "failed"}
  /\ socks \subseteq Ports /\ ready \subseteq socks
  /\ clock \in 0..Wait

QueueType ==
  /\ queue \in [Ports -> Seq(Datagrams)]
  /\ \A p \in Ports : Len(queue[p]) <= QueueLen

ListType ==
  /\ seen \subseteq Keys /\ IsFiniteSet(seen) /\ Cardinality(seen) <= Capacity
  /\ printed \subseteq [key : Keys, ip : STRING]
  /\ found \in 0..MaxFound
  /\ heard \subseteq Keys /\ IsFiniteSet(heard)
  /\ strays \subseteq Keys /\ IsFiniteSet(strays)

\* The ports of a round are there to be read, and only bound ones receive.
Rounds ==
  /\ pc = "open" => socks = {}
  /\ pc = "read" => ready # {}
  /\ pc = "read" => \A p \in ready : queue[p] # <<>>
  /\ \A p \in Ports \ socks : queue[p] = <<>>

\* How many ports are still to be read in this round, in all and before one of them.
In(p) == IF p \in ready THEN 1 ELSE 0
Left == In(PORT_31) + In(PORT_33) + In(PORT_35)
Before(p) == IF p = PORT_31 THEN 0
             ELSE IF p = PORT_33 THEN In(PORT_31) ELSE In(PORT_31) + In(PORT_33)

\* A datagram that came too late for this round waits for what is left of it, and then
\* for the ports before its own.
Turns ==
  /\ passed \in [Ports -> Nat]
  /\ \A p \in Ports : queue[p] = <<>> => passed[p] = 0
  /\ pc = "select" => \A p \in Ports : passed[p] <= 2
  /\ pc = "read" => \A p \in Ports :
       IF p \in ready THEN passed[p] + Before(p) <= 4 ELSE passed[p] + Left <= 2
  /\ \A p \in Ports : passed[p] <= 4

IInv ==
  /\ PlaceType
  /\ QueueType
  /\ ListType
  /\ Rounds
  /\ Turns

\* The list has the devices heard and the strays, and so has the table as long as there
\* is room.
Counted ==
  /\ seen \subseteq Listed
  /\ Listed = heard \cup strays
  /\ Cardinality(Listed) <= Capacity => seen = Listed /\ found = Cardinality(Listed)
  /\ Cardinality(Listed) > Capacity => found > Capacity

-----------------------------------------------------------------------------
(* One datagram.                                                           *)

\* The three ports differ.
LEMMA ThreePorts ==
  /\ Ports = {PORT_31, PORT_33, PORT_35}
  /\ PORT_31 # PORT_33 /\ PORT_31 # PORT_35 /\ PORT_33 # PORT_35
  /\ Cardinality(Ports) = 3
<1>1. PORT_31 # PORT_33 /\ PORT_31 # PORT_35 /\ PORT_33 # PORT_35
  BY DEF PORT_31, PORT_33, PORT_35
<1>2. IsFiniteSet({}) /\ Cardinality({}) = 0
  BY FS_EmptySet
<1>3. IsFiniteSet({PORT_31}) /\ Cardinality({PORT_31}) = 1
  BY FS_Singleton
<1>4. {PORT_31} \cup {PORT_33} = {PORT_31, PORT_33}
      /\ {PORT_31, PORT_33} \cup {PORT_35} = {PORT_31, PORT_33, PORT_35}
  OBVIOUS
<1>5. IsFiniteSet({PORT_31, PORT_33}) /\ Cardinality({PORT_31, PORT_33}) = 2
  BY <1>1, <1>3, <1>4, FS_AddElement
<1>6. Cardinality({PORT_31, PORT_33, PORT_35}) = 3
  BY <1>1, <1>4, <1>5, FS_AddElement
<1> QED
  BY <1>1, <1>6 DEF Ports

\* The first of the ports that are left.
LEMMA First ==
  ASSUME ready \subseteq Ports, ready # {}
  PROVE  /\ NextPort \in ready
         /\ PORT_31 \in ready => NextPort = PORT_31
         /\ PORT_31 \notin ready /\ PORT_33 \in ready => NextPort = PORT_33
<1> DEFINE Is(n) == ports[n] \in ready /\ \A m \in 1..(n - 1) : ports[m] \notin ready
<1>1. ports[1] = PORT_31 /\ ports[2] = PORT_33 /\ ports[3] = PORT_35
  BY DEF ports
<1>2. \E n \in 1..3 : Is(n)
  <2>1. CASE PORT_31 \in ready
    BY <1>1, <2>1
  <2>2. CASE PORT_31 \notin ready /\ PORT_33 \in ready
    BY <1>1, <2>2
  <2>3. CASE PORT_31 \notin ready /\ PORT_33 \notin ready
    <3>1. PORT_35 \in ready
      BY <2>3, ThreePorts
    <3>2. \A m \in 1..(3 - 1) : m = 1 \/ m = 2
      OBVIOUS
    <3>3. Is(3) /\ 3 \in 1..3
      BY <1>1, <2>3, <3>1, <3>2
    <3> QED
      BY <3>3
  <2> QED
    BY <2>1, <2>2, <2>3
<1>3. PICK n \in 1..3 : Is(n) /\ NextPort = ports[n]
  BY <1>2 DEF NextPort
<1>4. PORT_31 \in ready => n = 1
  BY <1>1, <1>3
<1>5. PORT_31 \notin ready /\ PORT_33 \in ready => n = 2
  BY <1>1, <1>3
<1> QED
  BY <1>1, <1>3, <1>4, <1>5

\* A datagram makes at most one entry and one line, of the device it is about.
LEMMA HandleStep ==
  ASSUME ListType, NEW d \in Datagrams, Handle(d)
  PROVE  /\ seen' \subseteq Keys /\ IsFiniteSet(seen') /\ Cardinality(seen') <= Capacity
         /\ printed' \subseteq [key : Keys, ip : STRING] /\ found' \in 0..MaxFound
<1>1. KeyOf(d) \in Keys /\ IpOf(d) \in STRING
  BY ScanAssumption DEF Keys, IpOf
<1>2. CASE ~Prints(KeyOf(d))
  BY <1>2 DEF Handle, ListType
<1>3. CASE Prints(KeyOf(d))
  <2>1. /\ seen' = IF Room THEN seen \cup {KeyOf(d)} ELSE seen
        /\ printed' = printed \cup {[key |-> KeyOf(d), ip |-> IpOf(d)]}
        /\ found' = IF found < MaxFound THEN found + 1 ELSE found
    BY <1>3 DEF Handle
  <2>2. seen' \subseteq Keys /\ IsFiniteSet(seen') /\ Cardinality(seen') <= Capacity
    <3>1. CASE Room
      <4>1. IsFiniteSet(seen') /\ KeyOf(d) \notin seen
            /\ Cardinality(seen') = Cardinality(seen) + 1
        BY <1>3, <2>1, <3>1, FS_AddElement DEF ListType, Prints, AlreadySeen
      <4>2. Cardinality(seen) \in Nat
        BY FS_CardinalityType DEF ListType
      <4> QED
        BY <1>1, <2>1, <3>1, <4>1, <4>2, ScanAssumption DEF ListType, Room
    <3>2. CASE ~Room
      BY <2>1, <3>2 DEF ListType
    <3> QED
      BY <3>1, <3>2
  <2>3. printed' \subseteq [key : Keys, ip : STRING]
    BY <1>1, <2>1 DEF ListType
  <2>4. found' \in 0..MaxFound
    BY <2>1, ScanAssumption DEF ListType
  <2> QED
    BY <2>2, <2>3, <2>4
<1> QED
  BY <1>2, <1>3

-----------------------------------------------------------------------------
(* The steps.                                                              *)

\* The datagram that is read.
LEMMA ReadWhat ==
  ASSUME IInv, Read
  PROVE  /\ NextPort \in ready /\ NextPort \in Ports /\ queue[NextPort] # <<>>
         /\ Head(queue[NextPort]) \in Datagrams
         /\ Tail(queue[NextPort]) \in Seq(Datagrams)
         /\ Len(Tail(queue[NextPort])) = Len(queue[NextPort]) - 1
<1>1. ready \subseteq Ports /\ ready # {} /\ \A p \in ready : queue[p] # <<>>
  BY DEF IInv, PlaceType, Rounds, Read
<1>2. NextPort \in ready
  BY <1>1, First
<1>3. queue[NextPort] \in Seq(Datagrams) /\ queue[NextPort] # <<>>
  BY <1>1, <1>2 DEF IInv, QueueType
<1> QED
  BY <1>1, <1>2, <1>3, HeadTailProperties

\* A port that is read waits no longer, and the others have a turn less before theirs.
LEMMA ReadTurns == ASSUME IInv, Read PROVE Turns'
<1> DEFINE p == NextPort
<1>1. /\ ready \subseteq Ports /\ ready # {} /\ p \in ready /\ p \in Ports
      /\ queue \in [Ports -> Seq(Datagrams)] /\ passed \in [Ports -> Nat] /\ pc = "read"
  BY ReadWhat DEF IInv, PlaceType, QueueType, Rounds, Turns, Read
<1>2. /\ PORT_31 \in ready => p = PORT_31
      /\ PORT_31 \notin ready /\ PORT_33 \in ready => p = PORT_33
  BY <1>1, First
<1> HIDE DEF p
<1>3. /\ passed' = [q \in Ports |-> IF q = p \/ queue[q] = <<>> THEN 0 ELSE passed[q] + 1]
      /\ ready' = ready \ {p} /\ queue' = [queue EXCEPT ![p] = Tail(@)]
      /\ pc' = IF ready' = {} THEN "select" ELSE "read"
  BY DEF p, Read, Rest
<1>4. \A q \in Ports : IF q \in ready THEN passed[q] + Before(q) <= 4
                                      ELSE passed[q] + Left <= 2
  BY <1>1 DEF IInv, Turns
<1>5. passed' \in [Ports -> Nat]
  BY <1>1, <1>3
<1>6. \A q \in Ports : queue'[q] = <<>> => passed'[q] = 0
  BY <1>1, <1>3
<1>7. Left' = Left - 1 /\ Left \in 1..3
  BY <1>1, <1>3, ThreePorts DEF Left, In
<1>8. \A q \in ready : q # p => Before(q)' = Before(q) - 1 /\ Before(q) \in 1..2
  BY <1>1, <1>2, <1>3, ThreePorts DEF Before, In
<1>9. \A q \in Ports : IF q \in ready' THEN passed'[q] + Before(q)' <= 4
                                       ELSE passed'[q] + Left' <= 2
  <2> SUFFICES ASSUME NEW q \in Ports
               PROVE  IF q \in ready' THEN passed'[q] + Before(q)' <= 4
                                      ELSE passed'[q] + Left' <= 2
    OBVIOUS
  <2>1. passed'[q] = IF q = p \/ queue[q] = <<>> THEN 0 ELSE passed[q] + 1
    BY <1>3
  <2>2. CASE q = p
    BY <1>3, <1>7, <2>1, <2>2
  <2>3. CASE q # p /\ q \in ready
    <3>1. q \in ready' /\ passed'[q] <= passed[q] + 1 /\ passed'[q] \in Nat
      BY <1>1, <1>3, <2>1, <2>3
    <3>2. passed[q] + Before(q) <= 4 /\ Before(q)' = Before(q) - 1 /\ Before(q) \in 1..2
      BY <1>4, <1>8, <2>3
    <3> QED
      BY <1>1, <3>1, <3>2
  <2>4. CASE q \notin ready
    <3>1. q \notin ready' /\ passed'[q] <= passed[q] + 1 /\ passed'[q] \in Nat
      BY <1>1, <1>3, <2>1, <2>4
    <3>2. passed[q] + Left <= 2
      BY <1>4, <2>4
    <3> QED
      BY <1>1, <1>7, <3>1, <3>2
  <2> QED
    BY <2>2, <2>3, <2>4
<1>10. pc' = "select" => \A q \in Ports : passed'[q] <= 2
  <2> SUFFICES ASSUME pc' = "select", NEW q \in Ports PROVE passed'[q] <= 2
    OBVIOUS
  <2>1. ready' = {}
    BY <1>3
  <2>2. Left' = 0
    BY <2>1 DEF Left, In
  <2>3. passed'[q] + Left' <= 2 /\ passed'[q] \in Nat
    BY <1>5, <1>9, <2>1
  <2> QED
    BY <2>2, <2>3
<1>11. \A q \in Ports : passed'[q] <= 4
  <2> SUFFICES ASSUME NEW q \in Ports PROVE passed'[q] <= 4
    OBVIOUS
  <2>1. Left' \in Nat /\ Before(q)' \in Nat /\ passed'[q] \in Nat
    BY <1>5, <1>7 DEF Before, In
  <2> QED
    BY <1>9, <2>1
<1> QED
  BY <1>5, <1>6, <1>9, <1>10, <1>11 DEF Turns

\* recvfrom() takes the first datagram of a port.
LEMMA ReadStep == ASSUME IInv, Read PROVE IInv'
<1> DEFINE p == NextPort
           d == Head(queue[p])
<1>1. /\ p \in ready /\ p \in Ports /\ queue[p] # <<>> /\ d \in Datagrams
      /\ Tail(queue[p]) \in Seq(Datagrams) /\ Len(Tail(queue[p])) = Len(queue[p]) - 1
  BY ReadWhat
<1>2. /\ IF Empty(d) THEN UNCHANGED <<seen, printed, found>> ELSE Handle(d)
      /\ heard' \in {heard, heard \cup {Announced(d)}}
      /\ strays' \in {strays, strays \cup {Announced(d)}}
      /\ queue' = [queue EXCEPT ![p] = Tail(@)]
      /\ ready' = ready \ {p} /\ pc' = IF ready' = {} THEN "select" ELSE "read"
      /\ UNCHANGED <<socks, clock>>
  BY DEF Read, Rest
<1>3. /\ heard' \subseteq Keys /\ IsFiniteSet(heard')
      /\ strays' \subseteq Keys /\ IsFiniteSet(strays')
  <2>1. Announced(d) \in Keys
    BY <1>1 DEF Keys
  <2> QED
    BY <1>2, <2>1, FS_AddElement DEF IInv, ListType
<1> HIDE DEF p, d
<1>4. PlaceType'
  BY <1>2 DEF IInv, PlaceType
<1>5. QueueType'
  <2>1. queue' \in [Ports -> Seq(Datagrams)]
    BY <1>1, <1>2 DEF IInv, QueueType
  <2>2. Len(queue[p]) \in Nat /\ Len(queue[p]) <= QueueLen /\ QueueLen \in Nat
    BY <1>1, LenProperties, ScanAssumption DEF IInv, QueueType
  <2>3. \A q \in Ports : Len(queue'[q]) <= QueueLen
    BY <1>1, <1>2, <2>2 DEF IInv, QueueType
  <2> QED
    BY <1>2, <2>1, <2>3 DEF IInv, QueueType
<1>6. ListType'
  <2>1. CASE Empty(d)
    BY <1>2, <1>3, <2>1 DEF IInv, ListType
  <2>2. CASE ~Empty(d)
    BY <1>1, <1>2, <1>3, <2>2, HandleStep DEF IInv, ListType
  <2> QED
    BY <2>1, <2>2
<1>7. Rounds'
  <2>1. \A q \in Ports : q # p => queue'[q] = queue[q]
    BY <1>2 DEF IInv, QueueType
  <2>2. p \in socks
    BY <1>1 DEF IInv, PlaceType
  <2> QED
    BY <1>2, <2>1, <2>2 DEF IInv, PlaceType, Rounds, Read
<1>8. Turns'
  BY ReadTurns
<1> QED
  BY <1>4, <1>5, <1>6, <1>7, <1>8 DEF IInv

\* A round takes up what is there when it begins.
LEMMA SelectStep == ASSUME IInv, Select PROVE IInv'
<1> USE DEF Select, Readable
<1>1. PlaceType' /\ QueueType' /\ ListType'
  BY DEF IInv, PlaceType, QueueType, ListType
<1>2. Rounds'
  BY DEF IInv, Rounds
<1>3. Turns'
  <2>1. passed \in [Ports -> Nat] /\ \A p \in Ports : passed[p] <= 2
    BY DEF IInv, Turns
  <2>2. \A p \in Ports : p \notin ready' => queue[p] = <<>>
    BY DEF IInv, Rounds
  <2>3. \A p \in Ports : p \notin ready' => passed[p] = 0 /\ Left' <= 2
    <3>1. \A p \in Ports : p \notin ready' => passed[p] = 0
      BY <2>2 DEF IInv, Turns
    <3>2. \A p \in Ports : p \notin ready' => Left' <= 2
      BY ThreePorts DEF Left, In
    <3> QED
      BY <3>1, <3>2
  <2>4. \A p \in Ports : Before(p)' \in 0..2 /\ Left' \in 0..3
    BY DEF Before, Left, In
  <2>5. \A p \in Ports : IF p \in ready' THEN passed[p] + Before(p)' <= 4
                                         ELSE passed[p] + Left' <= 2
    BY <2>1, <2>3, <2>4
  <2> QED
    BY <2>1, <2>5 DEF IInv, Turns
<1> QED
  BY <1>1, <1>2, <1>3 DEF IInv

\* The ports are opened before anything comes in.
LEMMA OpenStep == ASSUME IInv, Open PROVE IInv'
<1> USE DEF Open
<1>1. ready = {} /\ \A p \in Ports : queue[p] = <<>>
  BY DEF IInv, PlaceType, Rounds
<1>2. \A p \in Ports : passed[p] = 0
  BY <1>1 DEF IInv, Turns
<1>3. PlaceType' /\ QueueType' /\ ListType'
  BY <1>1 DEF IInv, PlaceType, QueueType, ListType
<1>4. Rounds'
  BY <1>1 DEF Rounds
<1>5. Turns'
  BY <1>2 DEF IInv, Turns
<1> QED
  BY <1>3, <1>4, <1>5 DEF IInv

\* The deadline changes nothing else.
LEMMA FinishStep == ASSUME IInv, Finish PROVE IInv'
BY DEF Finish, IInv, PlaceType, QueueType, ListType, Rounds, Turns

\* A datagram that comes in waits from now on.
LEMMA BroadcastStep == ASSUME IInv, Broadcast PROVE IInv'
<1>1. PICK d \in Datagrams :
        /\ d.port \in socks /\ Len(queue[d.port]) < QueueLen
        /\ queue' = [queue EXCEPT ![d.port] = Append(@, d)]
  BY DEF Broadcast
<1>2. UNCHANGED <<pc, socks, ready, seen, printed, found, clock, heard, strays, passed>>
  BY DEF Broadcast
<1>3. d.port \in Ports /\ queue[d.port] \in Seq(Datagrams)
      /\ queue \in [Ports -> Seq(Datagrams)]
  BY <1>1 DEF IInv, PlaceType, QueueType
<1>4. /\ Append(queue[d.port], d) \in Seq(Datagrams) /\ Append(queue[d.port], d) # <<>>
      /\ Len(Append(queue[d.port], d)) = Len(queue[d.port]) + 1
  BY <1>3, AppendProperties
<1>5. PlaceType' /\ ListType'
  BY <1>2 DEF IInv, PlaceType, ListType
<1>6. QueueType'
  <2>1. queue' \in [Ports -> Seq(Datagrams)]
    BY <1>1, <1>3, <1>4
  <2>2. Len(queue[d.port]) \in Nat /\ QueueLen \in Nat
    BY <1>3, LenProperties, ScanAssumption
  <2>3. \A q \in Ports : Len(queue'[q]) <= QueueLen
    BY <1>1, <1>3, <1>4, <2>2 DEF IInv, QueueType
  <2> QED
    BY <1>2, <2>1, <2>2, <2>3 DEF IInv, QueueType
<1>7. \A q \in Ports : queue'[q] = queue[q] \/ (queue'[q] # <<>> /\ q \in socks)
  BY <1>1, <1>3, <1>4
<1>8. Rounds'
  BY <1>2, <1>7 DEF IInv, PlaceType, Rounds
<1>9. Turns'
  BY <1>2, <1>7 DEF IInv, Turns, Before, Left, In
<1> QED
  BY <1>5, <1>6, <1>8, <1>9 DEF IInv

\* Time passes.
LEMMA TickStep == ASSUME IInv, Tick PROVE IInv'
<1> USE DEF Tick
<1>1. PlaceType'
  BY ScanAssumption DEF IInv, PlaceType
<1>2. QueueType' /\ ListType' /\ Rounds'
  BY DEF IInv, QueueType, ListType, Rounds
<1>3. Turns'
  BY DEF IInv, Turns, Before, Left, In
<1> QED
  BY <1>1, <1>2, <1>3 DEF IInv

-----------------------------------------------------------------------------
(* The invariant and what follows from it.                                 *)

\* The invariant holds before the ports are opened.
LEMMA InvInit == Init => IInv
<1> SUFFICES ASSUME Init PROVE IInv
  OBVIOUS
<1> USE DEF Init
<1>1. PlaceType
  BY ScanAssumption DEF PlaceType
<1>2. <<>> \in Seq(Datagrams) /\ Len(<<>>) = 0
  OBVIOUS
<1>3. QueueType
  BY <1>2, ScanAssumption DEF QueueType
<1>4. ListType
  BY FS_EmptySet, ScanAssumption DEF ListType
<1>5. Rounds /\ Turns
  BY DEF Rounds, Turns
<1> QED
  BY <1>1, <1>3, <1>4, <1>5 DEF IInv

\* Every step keeps the invariant.
LEMMA InvStep == IInv /\ [Next]_vars => IInv'
<1> SUFFICES ASSUME IInv, [Next]_vars PROVE IInv'
  OBVIOUS
<1>1. CASE UNCHANGED vars
  BY <1>1 DEF vars, IInv, PlaceType, QueueType, ListType, Rounds, Turns, Before,
     Left, In
<1> QED
  BY <1>1, OpenStep, FinishStep, SelectStep, ReadStep, BroadcastStep, TickStep DEF Next, Program

\* The invariant always holds.
THEOREM Invariant == Spec => []IInv
<1> QED
  BY InvInit, InvStep, PTL DEF Spec

\* Every variable keeps its type: seen_devices never has more than MAX_DEVICES entries.
THEOREM TypeCorrect == Spec => []TypeOK
<1>1. IInv => TypeOK
  BY DEF IInv, PlaceType, QueueType, ListType, Turns, TypeOK
<1> QED
  BY <1>1, Invariant, PTL

\* A datagram is passed by at most two rounds of the other ports, however long their
\* queues are and however fast they fill.
THEOREM NoStarvation == Spec => []NoPortStarves
<1>1. IInv => NoPortStarves
  BY ThreePorts DEF IInv, Turns, NoPortStarves
<1> QED
  BY <1>1, Invariant, PTL

-----------------------------------------------------------------------------
(* The list and the count.                                                 *)

\* Nothing is heard, listed or counted at the start.
LEMMA CountedInit == Init => Counted
<1>1. ASSUME Init PROVE Listed = {} /\ Cardinality({}) = 0 /\ Capacity \in Nat
  BY <1>1, FS_EmptySet, ScanAssumption DEF Init, Listed
<1> QED
  BY <1>1 DEF Init, Counted

\* A line is one of what it is about.
LEMMA OneLine ==
  ASSUME NEW k, NEW x, printed' = printed \cup {[key |-> k, ip |-> x]}
  PROVE  Listed' = Listed \cup {k}
<1> DEFINE line == [key |-> k, ip |-> x]
<1>1. line.key = k /\ printed' = printed \cup {line}
  OBVIOUS
<1> HIDE DEF line
<1> QED
  BY <1>1, Zenon DEF Listed

\* A datagram is listed if its device is not in the table, and then counted.
LEMMA ReadCounts == ASSUME Faithful, IInv, Counted, Read PROVE Counted'
<1>1. PICK d \in Datagrams :
        /\ IF Empty(d) THEN UNCHANGED <<seen, printed, found>> ELSE Handle(d)
        /\ heard' = IF Proper(d) THEN heard \cup {Announced(d)} ELSE heard
        /\ strays' = IF Stray(d) THEN strays \cup {Announced(d)} ELSE strays
  BY ReadWhat DEF Read
<1> DEFINE k == KeyOf(d)
<1>2. CASE ~Proper(d) /\ ~Stray(d)
  <2>1. Empty(d) \/ (d.port # PORT_35 /\ k = Key(NoText, Unset))
    BY <1>2 DEF Stray, Faithful
  <2>2. UNCHANGED <<seen, printed, found, heard, strays>>
    BY <1>1, <1>2, <2>1 DEF Handle, Prints
  <2> QED
    BY <2>2 DEF Counted, Listed
<1>3. CASE Proper(d) \/ Stray(d)
  <2>1. Announced(d) = k /\ k # Key(NoText, Unset)
    <3>1. CASE d.port = PORT_35
      BY <3>1, BroadcastAssumption DEF Faithful, Key
    <3>2. CASE d.port # PORT_35
      BY <1>3, <3>2 DEF Faithful, Stray, Proper, Announced, Key
    <3> QED
      BY <3>1, <3>2
  <2>2. ~Empty(d)
    <3>1. Proper(d) => d.framed
      BY BroadcastAssumption DEF Proper
    <3> QED
      BY <1>3, <3>1 DEF Empty, Stray
  <2>3. heard' \cup strays' = heard \cup strays \cup {k}
    BY <1>1, <1>3, <2>1
  <2>4. Handle(d)
    BY <1>1, <2>2
  <2> HIDE DEF k
  <2>5. CASE k \in seen
    <3>1. UNCHANGED <<seen, printed, found>>
      BY <2>4, <2>5 DEF Handle, Prints, AlreadySeen, k
    <3>2. heard' \cup strays' = heard \cup strays
      BY <2>3, <2>5 DEF Counted
    <3> QED
      BY <3>1, <3>2 DEF Counted, Listed
  <2>6. CASE k \notin seen
    <3>1. /\ seen' = IF Room THEN seen \cup {k} ELSE seen
          /\ printed' = printed \cup {[key |-> k, ip |-> IpOf(d)]}
          /\ found' = IF found < MaxFound THEN found + 1 ELSE found
      BY <2>1, <2>4, <2>6 DEF Handle, Prints, AlreadySeen, k
    <3>2. Listed' = Listed \cup {k}
      BY <3>1, OneLine
    <3>3. Listed' = heard' \cup strays' /\ seen' \subseteq Listed'
      BY <2>3, <3>1, <3>2 DEF Counted
    <3>4. /\ IsFiniteSet(Listed) /\ Cardinality(Listed) \in Nat
          /\ Capacity \in Nat /\ MaxFound \in Nat /\ MaxFound > Capacity /\ found \in 0..MaxFound
      <4>1. IsFiniteSet(Listed)
        BY FS_Union DEF IInv, ListType, Counted
      <4> QED
        BY <4>1, FS_CardinalityType, ScanAssumption DEF IInv, ListType
    <3>5. CASE Cardinality(Listed) > Capacity
      <4>1. found > Capacity /\ found' > Capacity
        BY <3>1, <3>4, <3>5 DEF Counted
      <4>2. Cardinality(Listed') >= Cardinality(Listed) /\ Cardinality(Listed') \in Nat
        BY <3>2, <3>4, FS_AddElement
      <4>3. Cardinality(Listed') > Capacity
        BY <3>4, <3>5, <4>2
      <4>4. ~(Cardinality(Listed') <= Capacity)
        BY <3>4, <4>2, <4>3
      <4> QED
        BY <3>3, <4>1, <4>4 DEF Counted
    <3>6. CASE ~(Cardinality(Listed) > Capacity)
      <4>1. seen = Listed /\ found = Cardinality(Listed) /\ found <= Capacity
        BY <3>4, <3>6 DEF Counted
      <4>2. Cardinality(Listed') = Cardinality(Listed) + 1
        BY <2>6, <3>2, <3>4, <4>1, FS_AddElement
      <4>3. found' = Cardinality(Listed') /\ found' \in Nat
        BY <3>1, <3>4, <4>1, <4>2
      <4>4. Cardinality(Listed') <= Capacity => seen' = Listed'
        BY <3>1, <3>2, <3>4, <4>1, <4>2 DEF Room
      <4> QED
        BY <3>3, <4>3, <4>4 DEF Counted
    <3> QED
      BY <3>5, <3>6
  <2> QED
    BY <2>5, <2>6
<1> QED
  BY <1>2, <1>3

\* The other steps neither hear nor list anything.
LEMMA CountedStep == Faithful => (IInv /\ Counted /\ [Next]_vars => Counted')
<1> SUFFICES ASSUME Faithful, IInv, Counted, [Next]_vars PROVE Counted'
  OBVIOUS
<1>1. CASE Read
  BY <1>1, ReadCounts
<1>2. CASE Open \/ Select \/ Finish \/ Broadcast \/ Tick \/ UNCHANGED vars
  <2>1. UNCHANGED <<seen, printed, found, heard, strays>>
    BY <1>2 DEF Open, Select, Finish, Broadcast, Tick, vars
  <2> QED
    BY <2>1 DEF Counted, Listed
<1> QED
  BY <1>1, <1>2 DEF Next, Program

\* Every device whose broadcast is read is in the list, and besides them only senders of
\* stray datagrams on port 7000: on every network whose devices broadcast their ids as
\* BroadcastAssumption says, whatever else is sent.
THEOREM ListIsRight == Spec => []ListsWhatIsHeard
<1>1. IInv /\ Counted /\ [Next]_vars => Counted'
  BY CountedStep, NetworkFaithful
<1>2. Counted => ListsWhatIsHeard
  BY DEF Counted, ListsWhatIsHeard
<1> QED
  BY <1>1, <1>2, CountedInit, Invariant, PTL DEF Spec

\* There the count is that of what is listed, as long as the table holds it.
THEOREM CountIsRight == Spec => []CountsDevices
<1>1. IInv /\ Counted /\ [Next]_vars => Counted'
  BY CountedStep, NetworkFaithful
<1>2. IInv /\ Counted => CountsDevices
  <2> SUFFICES ASSUME IInv, Counted PROVE CountsDevices
    OBVIOUS
  <2>1. Cardinality(Listed) \in Nat /\ Capacity \in Nat
    <3>1. IsFiniteSet(Listed)
      BY FS_Union DEF IInv, ListType, Counted
    <3> QED
      BY <3>1, FS_CardinalityType, ScanAssumption
  <2> QED
    BY <2>1 DEF Counted, CountsDevices
<1> QED
  BY <1>1, <1>2, CountedInit, Invariant, PTL DEF Spec

=============================================================================
