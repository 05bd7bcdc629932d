-------------------------- MODULE OtaGateway_proofs --------------------------
(***************************************************************************)
(* Proofs about OtaGateway: what a tool submits is what the card parses    *)
(* and runs, what the card answers is what the tool is told, and a tool    *)
(* that asked for a signed PoR takes nobody else's for its own.            *)
(*                                                                         *)
(* First the codecs (an SMS-DELIVER and an SMS-SUBMIT survive being        *)
(* encoded and decoded; encode_cmd adds the octets PCNTR counts), then the *)
(* inductive invariant, a lemma for each action, and the theorems.         *)
(***************************************************************************)
EXTENDS OtaGateway, SequenceTheorems, TLAPS

(* What a T-PDU codes, it gives back.                                      *)

LEMMA Halves ==
  ASSUME NEW n \in Nat
  PROVE  /\ n % 2 \in {0, 1} /\ n = 2 * (n \div 2) + (n % 2) /\ n \div 2 \in Nat
         /\ (2 * n) \div 2 = n
OBVIOUS

LEMMA Pairing ==
  ASSUME NEW h \in Nat, NEW i \in 1..(2 * h)
  PROVE  /\ (i + 1) \div 2 \in 1..h
         /\ i % 2 = 1 => i = 2 * ((i + 1) \div 2) - 1
         /\ i % 2 # 1 => i = 2 * ((i + 1) \div 2)
<1> DEFINE k == i + 1
           j == k \div 2
<1>1. k \in Nat /\ i \in Nat
  OBVIOUS
<1> HIDE DEF k
<1>2. k % 2 \in {0, 1} /\ k = 2 * j + (k % 2) /\ j \in Nat
  BY <1>1, Halves
<1>3. i % 2 \in {0, 1} /\ i = 2 * (i \div 2) + (i % 2) /\ i \div 2 \in Nat
  BY <1>1, Halves
<1> HIDE DEF j
<1>4. \E m, r, s \in Nat : k % 2 = r /\ i % 2 = s /\ i \div 2 = m
  BY <1>2, <1>3
<1>5. PICK m, r, s \in Nat : k % 2 = r /\ i % 2 = s /\ i \div 2 = m
  BY <1>4
<1>6. k = 2 * j + r /\ i = 2 * m + s /\ r \in {0, 1} /\ s \in {0, 1} /\ k = i + 1
  BY <1>2, <1>3, <1>5 DEF k
<1>7. j \in 1..h /\ (s = 1 => i = 2 * j - 1) /\ (s # 1 => i = 2 * j)
  BY <1>6, <1>2, <1>5
<1> QED BY <1>7, <1>5 DEF j, k

LEMMA FunctionIsSeq ==
  ASSUME NEW E, NEW h \in Nat, NEW f \in [1..h -> E]
  PROVE  f \in Seq(E) /\ Len(f) = h
OBVIOUS

LEMMA ThreeParts ==
  ASSUME NEW E, NEW p \in Seq(E), NEW q \in Seq(E), NEW r \in Seq(E), NEW b, b = (p \o q) \o r
  PROVE  /\ b \in Seq(E) /\ Len(b) = Len(p) + Len(q) + Len(r)
         /\ \A i \in 1..Len(p) : b[i] = p[i]
         /\ \A i \in 1..Len(q) : b[Len(p) + i] = q[i]
         /\ \A i \in 1..Len(r) : b[Len(p) + Len(q) + i] = r[i]
         /\ b = p \o (q \o r)
         /\ SubSeq(b, Len(p) + Len(q) + 1, Len(b)) = r
<1>1. Len(p) \in Nat /\ Len(q) \in Nat /\ Len(r) \in Nat
  OBVIOUS
<1>2. /\ p \o q \in Seq(E) /\ Len(p \o q) = Len(p) + Len(q)
      /\ \A i \in 1..(Len(p) + Len(q)) : (p \o q)[i] = IF i <= Len(p) THEN p[i] ELSE q[i - Len(p)]
  BY ConcatProperties
<1> DEFINE pq == p \o q
<1> HIDE DEF pq
<1>3. /\ pq \o r \in Seq(E) /\ Len(pq \o r) = Len(pq) + Len(r)
      /\ \A i \in 1..(Len(pq) + Len(r)) : (pq \o r)[i] = IF i <= Len(pq) THEN pq[i] ELSE r[i - Len(pq)]
  BY <1>2, ConcatProperties DEF pq
<1>4. b = pq \o r /\ Len(pq) = Len(p) + Len(q)
  BY <1>2 DEF pq
<1>5. b \in Seq(E) /\ Len(b) = Len(p) + Len(q) + Len(r)
  BY <1>1, <1>3, <1>4
<1>6. \A i \in 1..(Len(p) + Len(q)) : b[i] = IF i <= Len(p) THEN p[i] ELSE q[i - Len(p)]
  BY <1>1, <1>2, <1>3, <1>4 DEF pq
<1>7. \A i \in 1..Len(r) : b[Len(p) + Len(q) + i] = r[i]
  BY <1>1, <1>3, <1>4
<1>8. \A i \in 1..Len(p) : b[i] = p[i]
  BY <1>1, <1>6
<1>9. \A i \in 1..Len(q) : b[Len(p) + i] = q[i]
  BY <1>1, <1>6
<1>10. b = p \o (q \o r)
  BY ConcatAssociative, SMTT(30)
<1>11. SubSeq(b, Len(p) + Len(q) + 1, Len(b)) = r
  <2> DEFINE m == Len(p) + Len(q) + 1
             s == SubSeq(b, m, Len(b))
  <2>1. m \in 1..(Len(b) + 1) /\ Len(b) \in m - 1..Len(b)
    BY <1>1, <1>5
  <2>2. /\ s \in Seq(E) /\ Len(s) = IF m <= Len(b) THEN Len(b) - m + 1 ELSE 0
        /\ \A i \in 1..(Len(b) - m + 1) : s[i] = b[m + i - 1]
    BY <1>1, <1>5, <2>1, SubSeqProperties, SMTT(30)
  <2>3. Len(s) = Len(r)
    BY <1>1, <1>5, <2>2
  <2>4. ASSUME NEW i \in 1..Len(r) PROVE s[i] = r[i]
    <3>1. s[i] = b[m + i - 1] /\ m + i - 1 = Len(p) + Len(q) + i
      BY <1>1, <1>5, <2>2
    <3> QED BY <3>1, <1>7
  <2> HIDE DEF s
  <2> QED BY <2>2, <2>3, <2>4, SeqEqual
<1> HIDE DEF pq
<1> QED BY <1>5, <1>7, <1>8, <1>9, <1>10, <1>11

LEMMA AddressRoundTrip ==
  ASSUME NEW digits \in Seq(Int), NEW ton, NEW npi, NEW S, NEW rest \in Seq(S)
  PROVE  /\ AddressFromBytes(AddressToBytes([digits |-> digits, ton |-> ton, npi |-> npi]) \o rest)
              = [addr |-> [digits |-> digits, ton |-> ton, npi |-> npi], rest |-> rest]
         /\ \E E : AddressToBytes([digits |-> digits, ton |-> ton, npi |-> npi]) \in Seq(E)
<1> DEFINE a == [digits |-> digits, ton |-> ton, npi |-> npi]
           n == Len(digits)
           h == (n \div 2) + (n % 2)
           d == IF n % 2 = 1 THEN Append(digits, Filler) ELSE digits
           type == [ton |-> ton, npi |-> npi]
           pairs == [i \in 1..h |-> <<d[2*i - 1], d[2*i]>>]
           E == S \cup {n, type} \cup {<<d[2*i - 1], d[2*i]>> : i \in 1..h}
           two == <<n, type>>
           b == (two \o pairs) \o rest
<1>1. n \in Nat /\ h \in Nat /\ d \in Seq(Int) /\ Len(d) = 2 * h /\ Len(d) \div 2 = h /\ n <= 2 * h
  <2>1. n \in Nat /\ Filler \in Int
    BY DEF Filler
  <2>2. n % 2 \in {0, 1} /\ n = 2 * (n \div 2) + (n % 2) /\ n \div 2 \in Nat
    BY <2>1, Halves
  <2>3. d \in Seq(Int) /\ Len(d) = IF n % 2 = 1 THEN n + 1 ELSE n
    BY <2>1
  <2> HIDE DEF d
  <2>4. \E q, r \in Nat : n \div 2 = q /\ n % 2 = r
    BY <2>2
  <2>5. PICK q, r \in Nat : n \div 2 = q /\ n % 2 = r
    BY <2>4
  <2>6. r \in {0, 1} /\ n = 2 * q + r /\ h = q + r /\ Len(d) = IF r = 1 THEN n + 1 ELSE n
    BY <2>2, <2>3, <2>5
  <2> HIDE DEF h
  <2>7. Len(d) = 2 * h /\ h \in Nat /\ n <= 2 * h
    BY <2>6
  <2>8. (2 * h) \div 2 = h
    BY <2>7, Halves
  <2> QED BY <2>1, <2>3, <2>7, <2>8
<1>2. AddressToBytes(a) = two \o pairs
  BY <1>1 DEF AddressToBytes
<1> HIDE DEF d, h
<1>3. /\ two \in Seq(E) /\ Len(two) = 2 /\ two[1] = n /\ two[2] = type
      /\ pairs \in Seq(E) /\ Len(pairs) = h /\ rest \in Seq(E)
  <2>1. pairs \in [1..h -> E]
    OBVIOUS
  <2> HIDE DEF pairs, E, type
  <2>2. pairs \in Seq(E) /\ Len(pairs) = h
    BY <1>1, <2>1, FunctionIsSeq
  <2>3. rest \in Seq(E)
    <3>1. Len(rest) \in Nat /\ rest \in [1..Len(rest) -> E]
      BY DEF E
    <3> QED BY <3>1
  <2>4. n \in E /\ type \in E
    BY DEF E
  <2>5. two \in Seq(E) /\ Len(two) = 2 /\ two[1] = n /\ two[2] = type
    BY <2>4
  <2> QED BY <2>2, <2>3, <2>5
<1>4. /\ Len(b) = 2 + h + Len(rest) /\ b[1] = n /\ b[2] = type
      /\ \A i \in 1..h : b[2 + i] = pairs[i]
      /\ SubSeq(b, 3 + h, Len(b)) = rest
  <2> HIDE DEF two, E, pairs, type, b
  <2>1. b = (two \o pairs) \o rest
    BY DEF b
  <2>0. two \in Seq(E) /\ pairs \in Seq(E) /\ rest \in Seq(E)
    BY <1>3
  <2>4. /\ Len(b) = Len(two) + Len(pairs) + Len(rest)
        /\ \A i \in 1..Len(two) : b[i] = two[i]
        /\ \A i \in 1..Len(pairs) : b[Len(two) + i] = pairs[i]
        /\ SubSeq(b, Len(two) + Len(pairs) + 1, Len(b)) = rest
    <3>1. PICK c : c = (two \o pairs) \o rest
      OBVIOUS
    <3>2. /\ Len(c) = Len(two) + Len(pairs) + Len(rest)
          /\ \A i \in 1..Len(two) : c[i] = two[i]
          /\ \A i \in 1..Len(pairs) : c[Len(two) + i] = pairs[i]
          /\ SubSeq(c, Len(two) + Len(pairs) + 1, Len(c)) = rest
      BY <2>0, <3>1, ThreeParts
    <3> QED BY <2>1, <3>1, <3>2
  <2>2. /\ Len(b) = 2 + h + Len(rest)
        /\ \A i \in 1..2 : b[i] = two[i]
        /\ \A i \in 1..h : b[2 + i] = pairs[i]
        /\ SubSeq(b, 2 + h + 1, Len(b)) = rest
    BY <1>3, <2>4
  <2>3. 2 + h + 1 = 3 + h
    BY <1>1
  <2> QED BY <1>3, <2>2, <2>3
<1> DEFINE D == [i \in 1..(2 * h) |-> b[2 + ((i + 1) \div 2)][IF i % 2 = 1 THEN 1 ELSE 2]]
<1>5. ASSUME NEW i \in 1..(2 * h) PROVE b[2 + ((i + 1) \div 2)][IF i % 2 = 1 THEN 1 ELSE 2] = d[i]
  <2> DEFINE j == (i + 1) \div 2
  <2>2. /\ j \in 1..h
        /\ i % 2 = 1 => i = 2 * j - 1
        /\ i % 2 # 1 => i = 2 * j
    BY <1>1, Pairing
  <2> HIDE DEF j, b
  <2>3. b[2 + j] = <<d[2*j - 1], d[2*j]>>
    BY <1>4, <2>2
  <2>4. b[2 + j][IF i % 2 = 1 THEN 1 ELSE 2] = d[i]
    BY <2>2, <2>3
  <2> QED BY <2>4 DEF j
<1>6. D = [i \in 1..(2 * h) |-> d[i]]
  BY <1>5
<1>7. SubSeq(D, 1, n) = digits
  <2> HIDE DEF D
  <2>1. D \in Seq(Int) /\ Len(D) = 2 * h /\ \A i \in 1..(2 * h) : D[i] = d[i]
    <3>1. D \in [1..(2 * h) -> Int]
      BY <1>1, <1>6
    <3> QED BY <1>1, <1>6, <3>1, IsASeq
  <2>2. \A i \in 1..n : d[i] = digits[i]
    BY DEF d
  <2>3. SubSeq(D, 1, n) \in Seq(Int) /\ Len(SubSeq(D, 1, n)) = n /\ \A i \in 1..n : SubSeq(D, 1, n)[i] = D[i]
    BY <1>1, <2>1
  <2> QED BY <1>1, <2>1, <2>2, <2>3, SeqEqual
<1>8. AddressFromBytes(b) = [addr |-> [digits |-> SubSeq(D, 1, n), ton |-> type.ton, npi |-> type.npi],
                             rest |-> SubSeq(b, 3 + h, Len(b))]
  <2> HIDE DEF b, type
  <2> QED BY <1>4 DEF AddressFromBytes, h
<1>9. two \o pairs \in Seq(E)
  <2> HIDE DEF two, pairs, E
  <2>1. two \in Seq(E) /\ pairs \in Seq(E)
    BY <1>3
  <2> QED BY <2>1
<1> QED BY <1>2, <1>4, <1>7, <1>8, <1>9

LEMMA AddressIsSeq ==
  ASSUME NEW a, NEW digits \in Seq(Int), NEW ton, NEW npi,
         a = [digits |-> digits, ton |-> ton, npi |-> npi]
  PROVE  \E E : AddressToBytes(a) \in Seq(E)
<1>1. PICK rest : rest \in Seq(Int)
  OBVIOUS
<1>2. \E E : AddressToBytes([digits |-> digits, ton |-> ton, npi |-> npi]) \in Seq(E)
  BY <1>1, AddressRoundTrip, Zenon
<1> QED BY <1>2

LEMMA AddressIsRead ==
  ASSUME NEW a, NEW digits \in Seq(Int), NEW ton, NEW npi, NEW S, NEW rest \in Seq(S),
         a = [digits |-> digits, ton |-> ton, npi |-> npi]
  PROVE  /\ AddressFromBytes(AddressToBytes(a) \o rest).addr = a
         /\ AddressFromBytes(AddressToBytes(a) \o rest).rest = rest
<1>1. AddressFromBytes(AddressToBytes([digits |-> digits, ton |-> ton, npi |-> npi]) \o rest)
        = [addr |-> [digits |-> digits, ton |-> ton, npi |-> npi], rest |-> rest]
  BY AddressRoundTrip, Zenon
<1> QED BY <1>1

Chunks(S, p, a, x, y, z) == p \in Seq(S) /\ a \in Seq(S) /\ x \in Seq(S) /\ y \in Seq(S) /\ z \in Seq(S)
Whole(p, a, x, y, z) == (((p \o a) \o x) \o y) \o z
Behind(p, b)       == SubSeq(b, Len(p) + 1, Len(b))
Rest(a, x, y, z)   == a \o ((x \o y) \o z)

LEMMA BehindTheAddress ==
  ASSUME NEW S, NEW p, NEW a, NEW x, NEW y, NEW z, Chunks(S, p, a, x, y, z), NEW b, b = Whole(p, a, x, y, z)
  PROVE  /\ b \in Seq(S)
         /\ Behind(p, b) = Rest(a, x, y, z)
         /\ \A i \in 1..Len(p) : b[i] = p[i]
<1> DEFINE w == (x \o y) \o z
           aw == a \o w
<1>1. /\ w \in Seq(S) /\ aw \in Seq(S) /\ <<>> \in Seq(S)
      /\ p \in Seq(S) /\ x \o y \in Seq(S) /\ p \o a \in Seq(S)
  BY DEF Chunks
<1>2. b = p \o aw
  <2>1. PICK u : u = p \o a
    OBVIOUS
  <2>2. PICK v : v = x \o y
    OBVIOUS
  <2>3. PICK r : r = v \o z
    OBVIOUS
  <2>4. u \in Seq(S) /\ v \in Seq(S) /\ r \in Seq(S)
    BY <2>1, <2>2, <2>3 DEF Chunks
  <2>5. (u \o x) \o y = u \o v
    <3>1. u \in Seq(S) /\ x \in Seq(S) /\ y \in Seq(S)
      BY <2>4 DEF Chunks
    <3>2. (u \o x) \o y = u \o (x \o y)
      BY <3>1, ConcatAssociative
    <3> QED BY <3>2, <2>2
  <2>6. (u \o v) \o z = u \o r
    <3>1. u \in Seq(S) /\ v \in Seq(S) /\ z \in Seq(S)
      BY <2>4 DEF Chunks
    <3>2. (u \o v) \o z = u \o (v \o z)
      BY <3>1, ConcatAssociative, SMTT(30)
    <3> QED BY <3>2, <2>3
  <2>7. u \o r = p \o (a \o r)
    <3>1. p \in Seq(S) /\ a \in Seq(S) /\ r \in Seq(S)
      BY <2>4 DEF Chunks
    <3>2. (p \o a) \o r = p \o (a \o r)
      BY <3>1, ConcatAssociative
    <3> QED BY <3>2, <2>1
  <2>8. b = ((u \o x) \o y) \o z /\ aw = a \o r
    BY <2>1, <2>2, <2>3 DEF Whole
  <2> QED BY <2>5, <2>6, <2>7, <2>8
<1> HIDE DEF w, aw
<1>3. (p \o aw) \o <<>> = p \o aw /\ p \o <<>> = p /\ (p \o <<>>) \o aw = p \o aw
  BY <1>1
<1>4. PICK c : c = (p \o <<>>) \o aw
  OBVIOUS
<1>5. /\ c \in Seq(S)
      /\ \A i \in 1..Len(p) : c[i] = p[i]
      /\ SubSeq(c, Len(p) + Len(<<>>) + 1, Len(c)) = aw
  BY <1>1, <1>4, ThreeParts
<1>6. Len(<<>>) = 0 /\ Len(p) \in Nat
  OBVIOUS
<1>7. Len(p) + Len(<<>>) + 1 = Len(p) + 1
  BY <1>6
<1>8. c = b
  BY <1>2, <1>3, <1>4
<1> QED BY <1>5, <1>7, <1>8 DEF aw, w, Behind, Rest

LEMMA DeliverArrives ==
  ASSUME NEW digits \in Seq(Int), NEW ton, NEW npi, NEW d, d.scts = Scts,
         d.oa = [digits |-> digits, ton |-> ton, npi |-> npi]
  PROVE  LET h == DeliverFromBytes(DeliverToBytes(d)) IN
         h.oa = d.oa /\ h.pid = d.pid /\ h.udhi = d.udhi /\ h.ud = d.ud /\ h.udl = d.udl
<1> DEFINE f == [rp |-> d.rp, udhi |-> d.udhi, sri |-> d.sri, lp |-> d.lp, mms |-> d.mms, mti |-> d.mti]
           p == <<f>>
           a == AddressToBytes(d.oa)
           x == <<d.pid, d.dcs>>
           z == <<d.udl, d.ud>>
           w == (x \o Scts) \o z
           b == (((p \o a) \o x) \o Scts) \o z
<1>1. PICK E : a \in Seq(E)
  BY AddressIsSeq, Zenon
<1> DEFINE S == E \cup Int \cup {f, d.pid, d.dcs, d.udl, d.ud}
<1>2. p \in Seq(S) /\ x \in Seq(S) /\ z \in Seq(S) /\ Scts \in Seq(S) /\ Len(Scts) = 7 /\ Len(p) = 1
  <2>1. /\ f \in S /\ d.pid \in S /\ d.dcs \in S /\ d.udl \in S /\ d.ud \in S
        /\ 0 \in S /\ 2 \in S /\ 5 \in S /\ 7 \in S
    OBVIOUS
  <2> HIDE DEF S, f
  <2> QED BY <2>1 DEF Scts
<1>3. a \in Seq(S)
  <2> HIDE DEF a
  <2>1. Len(a) \in Nat /\ a \in [1..Len(a) -> E]
    BY <1>1
  <2>2. a \in [1..Len(a) -> S]
    BY <2>1
  <2> QED BY <2>1, <2>2, FunctionIsSeq
<1>4. w \in Seq(S) /\ w[1] = d.pid /\ w[2] = d.dcs /\ w[10] = d.udl /\ w[11] = d.ud
  <2> DEFINE xs == x \o Scts
  <2> HIDE DEF S
  <2>1. x[1] = d.pid /\ x[2] = d.dcs /\ z[1] = d.udl /\ z[2] = d.ud /\ Len(x) = 2 /\ Len(z) = 2
    OBVIOUS
  <2> HIDE DEF x, z
  <2>5. x \in Seq(S) /\ Scts \in Seq(S) /\ z \in Seq(S)
    BY <1>2
  <2>2. PICK c : c = (x \o Scts) \o z
    OBVIOUS
  <2>3. /\ c \in Seq(S)
        /\ \A i \in 1..Len(x) : c[i] = x[i]
        /\ \A i \in 1..Len(z) : c[Len(x) + Len(Scts) + i] = z[i]
    BY <2>5, <2>2, ThreeParts
  <2>4. c[1] = x[1] /\ c[2] = x[2] /\ c[10] = z[1] /\ c[11] = z[2]
    BY <1>2, <2>1, <2>3
  <2> QED BY <2>1, <2>2, <2>3, <2>4
<1>5. PICK c : c = (((p \o a) \o x) \o Scts) \o z
  OBVIOUS
<1>6. c = DeliverToBytes(d)
  BY <1>5 DEF DeliverToBytes
<1>7. c \in Seq(S) /\ (\A i \in 1..Len(p) : c[i] = p[i]) /\ SubSeq(c, Len(p) + 1, Len(c)) = a \o w
  <2> HIDE DEF S, p, a, x, z
  <2>1. Chunks(S, p, a, x, Scts, z)
    BY <1>2, <1>3 DEF Chunks
  <2>6. c = Whole(p, a, x, Scts, z)
    BY <1>5 DEF Whole
  <2>2. c \in Seq(S)
    BY <2>1, <2>6, BehindTheAddress
  <2>3. \A i \in 1..Len(p) : c[i] = p[i]
    BY <2>1, <2>6, BehindTheAddress
  <2> HIDE DEF w
  <2>4. Behind(p, c) = Rest(a, x, Scts, z)
    BY <2>1, <2>6, BehindTheAddress
  <2>5. SubSeq(c, Len(p) + 1, Len(c)) = a \o w
    BY <2>4 DEF Behind, Rest, w
  <2> QED BY <2>2, <2>3, <2>5
<1>8. c[1] = f /\ Tail(c) = a \o w
  <2> HIDE DEF S, a, w
  <2>1. c[1] = p[1] /\ SubSeq(c, 2, Len(c)) = a \o w
    BY <1>2, <1>7
  <2>2. Tail(c) = SubSeq(c, 2, Len(c))
    BY <1>7
  <2> QED BY <2>1, <2>2
<1>9. AddressFromBytes(a \o w).addr = d.oa /\ AddressFromBytes(a \o w).rest = w
  <2> HIDE DEF S, w
  <2> QED BY <1>4, AddressIsRead, SMTT(30)
<1> HIDE DEF w, a
<1>10. AddressFromBytes(Tail(c)).addr = d.oa /\ AddressFromBytes(Tail(c)).rest = w
  BY <1>8, <1>9
<1>11. c[1].udhi = d.udhi
  BY <1>8
<1> DEFINE h == DeliverFromBytes(c)
<1>12. h.oa = d.oa /\ h.udhi = d.udhi /\ h.pid = w[1] /\ h.udl = w[10] /\ h.ud = w[11]
  BY <1>10, <1>11 DEF DeliverFromBytes
<1> HIDE DEF h
<1> QED BY <1>4, <1>6, <1>12 DEF h

LEMMA SubmitArrives ==
  ASSUME NEW digits \in Seq(Int), NEW ton, NEW npi, NEW s, s.vpf = "none", s.vp = <<>>,
         s.da = [digits |-> digits, ton |-> ton, npi |-> npi]
  PROVE  LET h == SubmitFromBytes(SubmitToBytes(s)) IN
         h.pid = s.pid /\ h.dcs = s.dcs /\ h.ud = s.ud
<1> DEFINE f == [mti |-> 1, rd |-> s.rd, vpf |-> s.vpf, rp |-> s.rp, udhi |-> s.udhi, srr |-> s.srr]
           p == <<f, s.mr>>
           a == AddressToBytes(s.da)
           x == <<s.pid, s.dcs>>
           y == s.vp
           z == <<s.udl, s.ud>>
           w == (x \o y) \o z
<1>1. PICK E : a \in Seq(E)
  BY AddressIsSeq, Zenon
<1> DEFINE S == E \cup {f, s.mr, s.pid, s.dcs, s.udl, s.ud}
<1>2. p \in Seq(S) /\ x \in Seq(S) /\ y \in Seq(S) /\ z \in Seq(S) /\ Len(y) = 0 /\ Len(p) = 2
  <2>1. f \in S /\ s.mr \in S /\ s.pid \in S /\ s.dcs \in S /\ s.udl \in S /\ s.ud \in S
    OBVIOUS
  <2> HIDE DEF S, f
  <2> QED BY <2>1
<1>3. a \in Seq(S)
  <2> HIDE DEF a
  <2>1. Len(a) \in Nat /\ a \in [1..Len(a) -> E]
    BY <1>1
  <2>2. a \in [1..Len(a) -> S]
    BY <2>1
  <2> QED BY <2>1, <2>2, FunctionIsSeq
<1>4. w \in Seq(S) /\ w[1] = s.pid /\ w[2] = s.dcs /\ w[4] = s.ud
  <2> HIDE DEF S
  <2>1. x[1] = s.pid /\ x[2] = s.dcs /\ z[1] = s.udl /\ z[2] = s.ud /\ Len(x) = 2 /\ Len(z) = 2
    OBVIOUS
  <2> HIDE DEF x, y, z
  <2>5. x \in Seq(S) /\ y \in Seq(S) /\ z \in Seq(S)
    BY <1>2
  <2>2. PICK c : c = (x \o y) \o z
    OBVIOUS
  <2>3. /\ c \in Seq(S)
        /\ \A i \in 1..Len(x) : c[i] = x[i]
        /\ \A i \in 1..Len(z) : c[Len(x) + Len(y) + i] = z[i]
    BY <2>5, <2>2, ThreeParts
  <2>4. c[1] = x[1] /\ c[2] = x[2] /\ c[4] = z[2]
    BY <1>2, <2>1, <2>3
  <2> QED BY <2>1, <2>2, <2>3, <2>4
<1>5. PICK c : c = (((p \o a) \o x) \o y) \o z
  OBVIOUS
<1>6. c = SubmitToBytes(s)
  BY <1>5 DEF SubmitToBytes
<1>7. c \in Seq(S) /\ (\A i \in 1..Len(p) : c[i] = p[i]) /\ SubSeq(c, Len(p) + 1, Len(c)) = a \o w
  <2> HIDE DEF S, p, a, x, y, z
  <2>1. Chunks(S, p, a, x, y, z)
    BY <1>2, <1>3 DEF Chunks
  <2>6. c = Whole(p, a, x, y, z)
    BY <1>5 DEF Whole
  <2>2. c \in Seq(S)
    BY <2>1, <2>6, BehindTheAddress
  <2>3. \A i \in 1..Len(p) : c[i] = p[i]
    BY <2>1, <2>6, BehindTheAddress
  <2> HIDE DEF w
  <2>4. Behind(p, c) = Rest(a, x, y, z)
    BY <2>1, <2>6, BehindTheAddress
  <2>5. SubSeq(c, Len(p) + 1, Len(c)) = a \o w
    BY <2>4 DEF Behind, Rest, w
  <2> QED BY <2>2, <2>3, <2>5
<1>8. c[1] = f /\ SubSeq(c, 3, Len(c)) = a \o w
  <2> HIDE DEF S, a, w, f
  <2> QED BY <1>2, <1>7
<1>9. AddressFromBytes(a \o w).addr = s.da /\ AddressFromBytes(a \o w).rest = w
  <2> HIDE DEF S, w
  <2> QED BY <1>4, AddressIsRead, SMTT(30)
<1> HIDE DEF w, a
<1>10. AddressFromBytes(SubSeq(c, 3, Len(c))).rest = w
  BY <1>8, <1>9
<1>11. VpOctets(c[1].vpf) = 0
  BY <1>8 DEF VpOctets
<1> DEFINE h == SubmitFromBytes(c)
<1>12. h.pid = w[1] /\ h.dcs = w[2] /\ h.ud = w[4 + 0]
  BY <1>10, <1>11 DEF SubmitFromBytes
<1> HIDE DEF h
<1> QED BY <1>4, <1>6, <1>12 DEF h

-----------------------------------------------------------------------------
(* Packets, and what the card makes of them.                               *)

Packet(t) == EncodeCmd(conf[t].ks, conf[t].tar, conf[t].spi, [id |-> t, len |-> conf[t].len])
Encodes   == {t \in Tools : ~Raised(Packet(t))}
Pdu(t)    == [owner |-> t, id |-> conf[t].pdu,
              src |-> [digits |-> conf[t].src, ton |-> "INTERNATIONAL", npi |-> "UNKNOWN"],
              dst |-> [digits |-> <<2, 3>>, ton |-> "INTERNATIONAL", npi |-> "UNKNOWN"],
              dcs |-> conf[t].dcs, pid |-> conf[t].pid, udhi |-> TRUE, ud |-> Packet(t), udl |-> 3 + Packet(t).len]
ResponseTo(t) == Response(Packet(t), CardStatus(Packet(t)))
Responses     == {ResponseTo(t) : t \in Encodes}

LEMMA PaddingFits ==
  ASSUME NEW n \in Nat, NEW m \in {8, 16}
  PROVE  Padding(n, m) \in Nat /\ Padding(n + Padding(n, m), m) = 0
<1>1. CASE m = 8
  BY <1>1 DEF Padding
<1>2. CASE m = 16
  BY <1>2 DEF Padding
<1> QED BY <1>1, <1>2

\* the octets encode_cmd adds are those PCNTR counts: encrypt adds no more
LEMMA PacketIs ==
  ASSUME conf \in [Tools -> Configs], NEW t \in Encodes
  PROVE  LET p == Packet(t)  b == p.body.plain IN
         /\ p.head.spi = conf[t].spi /\ p.head.kic.key = conf[t].ks.kic_idx
         /\ b.data.id = t
         /\ p.head.spi.ciphering => p.body.zeroes = 0 /\ b.pad = b.pcntr /\ b.pad \in Nat
         /\ p.head.spi.rc_cc_ds = "cc" => b.check.kid = conf[t].ks.kid
<1> DEFINE c == conf[t]
           ks == c.ks
           spi == c.spi
           apdu == [id |-> t, len |-> c.len]
           sig == SigLen(spi.rc_cc_ds)
           pad == IF spi.ciphering THEN CommandPadding(ks, sig, apdu.len) ELSE 0
           head == [chl |-> 13 + sig, spi |-> spi, kic |-> [key |-> ks.kic_idx, algo |-> ks.algo_crypt],
                    kid |-> [key |-> ks.kid_idx, algo |-> ks.algo_auth], tar |-> c.tar]
           cpl == 8 + 6 + apdu.len + pad + sig
           sum == [cpl |-> cpl, head |-> head, cntr |-> ks.cntr, pcntr |-> pad, data |-> apdu, pad |-> pad]
           check == CASE spi.rc_cc_ds = "cc" -> Sign(ks, sum, cpl + 2 - sig)
                      [] spi.rc_cc_ds = "rc" -> [of |-> sum]
                      [] OTHER -> [of |-> 0]
           plain == [cntr |-> ks.cntr, pcntr |-> pad, check |-> check, data |-> apdu, pad |-> pad]
           body  == IF spi.ciphering THEN Encrypt(ks, plain, cpl - 8) ELSE Clear(plain)
           len   == IF spi.ciphering THEN 2 + cpl + body.zeroes ELSE cpl
           p == Packet(t)
<1>1. t \in Tools /\ ~Raised(p) /\ c \in Configs /\ c.len \in Nat
  BY ConfigsShape DEF Encodes
<1>2. \A e : Raised(Raise(e))
  BY DEF Raised, Raise
<1>3. p = IF sig = -1 \/ (spi.ciphering /\ ~HasCrypt(ks)) \/ (spi.rc_cc_ds = "cc" /\ ~HasAuth(ks))
          THEN Raise("ValueError")
          ELSE IF len > Limit THEN Raise("ValueError")
          ELSE [head |-> head, body |-> body, len |-> len]
  BY DEF Packet, EncodeCmd
<1> HIDE DEF sig, pad, head, cpl, sum, check, body, len, p, c
<1>4. p = [head |-> head, body |-> body, len |-> len] /\ sig # -1 /\ (spi.ciphering => HasCrypt(ks))
  <2>1. ~(sig = -1 \/ (spi.ciphering /\ ~HasCrypt(ks)) \/ (spi.rc_cc_ds = "cc" /\ ~HasAuth(ks)))
    BY <1>1, <1>2, <1>3
  <2>2. ~(len > Limit)
    BY <1>1, <1>2, <1>3
  <2> QED BY <2>1, <2>2, <1>3
<1>5. p.head.spi = spi /\ p.head.kic.key = ks.kic_idx
  BY <1>4 DEF head
<1>6. p.body.plain = plain
  BY <1>4 DEF body, Encrypt, Clear
<1>7. plain.data.id = t /\ plain.pad = plain.pcntr /\ plain.pad = pad /\ plain.check = check
  OBVIOUS
<1>8. ASSUME spi.ciphering PROVE p.body.zeroes = 0 /\ pad \in Nat
  <2>1. PICK m : m = CryptBlock[ks.algo_crypt]
    OBVIOUS
  <2>2. m \in {8, 16}
    BY <1>4, <1>8, <2>1 DEF HasCrypt, CryptBlock
  <2>3. sig \in {0, 4, 8}
    BY <1>4 DEF sig, SigLen
  <2>4. PICK n \in Nat : n = 6 + sig + c.len
    BY <1>1, <2>3
  <2>5. pad = Padding(n, m)
    BY <1>8, <2>1, <2>4 DEF pad, CommandPadding
  <2>6. pad \in Nat /\ Padding(n + pad, m) = 0
    BY <2>2, <2>5, PaddingFits
  <2>7. cpl - 8 = n + pad
    BY <1>1, <2>3, <2>4, <2>6 DEF cpl
  <2>8. p.body.zeroes = Padding(cpl - 8, m)
    BY <1>4, <1>8, <2>1 DEF body, Encrypt
  <2> QED BY <2>6, <2>7, <2>8
<1>9. ASSUME spi.rc_cc_ds = "cc" PROVE check.kid = ks.kid
  BY <1>9 DEF check, Sign
<1> HIDE DEF plain
<1> QED BY <1>5, <1>6, <1>7, <1>8, <1>9 DEF p, c

\* What the card decodes is the command, with no octet left over.
LEMMA RunIsExact ==
  ASSUME conf \in [Tools -> Configs], NEW t \in Encodes, CardStatus(Packet(t)) = "por_ok"
  PROVE  Packet(t).body.plain.data.id \in Tools /\ Over(Packet(t)) = 0
<1> DEFINE p == Packet(t)
           d == DecodeCmd(CardKeys[p.head.kic.key], p)
           b == p.body.plain
<1> HIDE DEF p
<1>1. /\ b.data.id = t /\ t \in Tools
      /\ p.head.spi.ciphering => p.body.zeroes = 0 /\ b.pad = b.pcntr /\ b.pad \in Nat
  BY PacketIs DEF p, Encodes
<1>2. ASSUME p.head.spi.ciphering, p.head.spi.rc_cc_ds # "rc" PROVE d.over = 0
  <2>1. ~Raised(d)
    BY <1>2 DEF CardStatus, p
  <2>2. \A e : Raised(Raise(e))
    BY DEF Raised, Raise
  <2>3. d.over = b.pad + p.body.zeroes - b.pcntr
    BY <2>1, <2>2 DEF DecodeCmd
  <2> QED BY <1>1, <1>2, <2>3
<1>3. Over(p) = 0
  BY <1>2 DEF Over
<1> QED BY <1>1, <1>3 DEF p

-----------------------------------------------------------------------------
(* Responses, and what a tool makes of them.                               *)

AllSigned    == \A t \in Tools : conf[t].spi.por_rc_cc_ds = "cc"
KidsAreTheirs == \A t, u \in Tools : t # u => conf[t].ks.kid # conf[u].ks.kid

LEMMA KidIsTheTools ==
  ASSUME conf \in [Tools -> Configs], KidsAreGiven, NEW t \in Encodes, CardStatus(Packet(t)) = "por_ok"
  PROVE  CardKeys[Packet(t).head.kic.key].kid = conf[t].ks.kid
<1> DEFINE p == Packet(t)
           ks == CardKeys[p.head.kic.key]
           d == DecodeCmd(ks, p)
           b == p.body.plain
<1> HIDE DEF p
<1>1. /\ p.head.spi = conf[t].spi /\ p.head.kic.key = conf[t].ks.kic_idx
      /\ p.head.spi.rc_cc_ds = "cc" => b.check.kid = conf[t].ks.kid
  BY PacketIs DEF p
<1>2. t \in Tools /\ conf[t] \in Configs
  BY DEF Encodes
<1>3. CASE p.head.spi.ciphering /\ p.head.spi.rc_cc_ds = "cc"
  <2>1. ~Raised(d)
    BY <1>3 DEF CardStatus, p
  <2>2. \A e : Raised(Raise(e))
    BY DEF Raised, Raise
  <2>3. PICK sum : b.check = Sign(ks, sum, p.len - 8)
    BY <1>3, <2>1, <2>2 DEF DecodeCmd
  <2>4. b.check.kid = ks.kid
    BY <2>3 DEF Sign
  <2> QED BY <1>1, <1>3, <2>4 DEF p
<1>4. CASE ~(p.head.spi.ciphering /\ p.head.spi.rc_cc_ds = "cc")
  BY <1>1, <1>2, <1>4 DEF KidsAreGiven, p
<1> QED BY <1>3, <1>4

LEMMA ResponseIs ==
  ASSUME NEW p, NEW s
  PROVE  LET m == Response(p, s)  b == m.body.plain IN
         /\ b.status = s
         /\ s = "por_ok" /\ p.head.spi.por_rc_cc_ds = "cc" =>
              /\ m.rhl = 18 /\ b.data.id = p.body.plain.data.id
              /\ b.check.kid = CardKeys[p.head.kic.key].kid
<1> DEFINE ks  == CardKeys[p.head.kic.key]
           spi == p.head.spi
           sig == IF spi.por_rc_cc_ds = "cc" THEN 8 ELSE 0
           n   == 7 + sig + 5
           pad == IF spi.por_shall_be_ciphered THEN Padding(n, CryptBlock[ks.algo_crypt]) ELSE 0
           dat == [id |-> p.body.plain.data.id, len |-> 5]
           sum == [tar |-> p.head.tar, rhl |-> 10 + sig, cntr |-> 0, status |-> s, data |-> dat, pcntr |-> pad]
           check == IF sig = 0 THEN [of |-> 0] ELSE Sign(ks, sum, 3 + 6 + n + pad)
           b   == [cntr |-> 0, pcntr |-> pad, status |-> s, data |-> dat, check |-> check]
           none == [b EXCEPT !.pcntr = 0, !.data = [id |-> "none", len |-> 0], !.check = [of |-> 0]]
           good == [udhl |-> 2, rpi |-> TRUE, tar |-> p.head.tar, rhl |-> 10 + sig, len |-> n + pad,
                    body |-> IF spi.por_shall_be_ciphered THEN Encrypt(ks, b, n) ELSE Clear(b)]
           bad  == [udhl |-> 2, rpi |-> TRUE, tar |-> p.head.tar, rhl |-> 10, body |-> Clear(none), len |-> 7]
           m == Response(p, s)
<1>1. m = IF s # "por_ok" THEN bad ELSE good
  BY DEF Response
<1>2. none.status = s /\ b.status = s /\ b.check = check /\ b.data = dat
  OBVIOUS
<1> HIDE DEF b, none, m
<1>3. CASE s # "por_ok"
  BY <1>1, <1>2, <1>3 DEF Clear, m
<1>4. CASE s = "por_ok"
  <2>1. m = good
    BY <1>1, <1>4
  <2>2. m.body.plain = b
    BY <2>1 DEF Encrypt, Clear
  <2>3. m.rhl = 10 + sig
    BY <2>1
  <2>4. spi.por_rc_cc_ds = "cc" => check.kid = ks.kid
    BY DEF Sign
  <2> QED BY <1>2, <1>4, <2>2, <2>3, <2>4, SMTT(30) DEF m
<1> QED BY <1>3, <1>4

LEMMA DecodedIs ==
  ASSUME NEW ks, NEW spi, NEW m, ~Raised(DecodeResp(ks, spi, m))
  PROVE  LET r == DecodeResp(ks, spi, m)  b == m.body.plain IN
         /\ m.rpi
         /\ r.dec # "none" => r.dec = b.data.id /\ b.status = "por_ok"
         /\ spi.por_rc_cc_ds = "no_rc_cc_ds" => m.rhl = 10
         /\ spi.por_rc_cc_ds = "cc" /\ r.dec # "none" => b.check.kid = ks.kid
<1> DEFINE ciphered == spi.por_shall_be_ciphered
           right == ciphered = (m.body.kic # "none") /\ (ciphered => Opens(ks, m.body))
           b == IF right THEN m.body.plain ELSE Garbled
           r == DecodeResp(ks, spi, m)
<1>1. \A e : Raised(Raise(e))
  BY DEF Raised, Raise
<1> HIDE DEF r
<1>2. r = IF m.udhl # 2 \/ ~m.rpi THEN Raise("ValueError")
          ELSE IF ciphered /\ (~HasCrypt(ks) \/ m.len % CryptBlock[ks.algo_crypt] # 0) THEN Raise("ValueError")
          ELSE IF BadResponse(ks, spi, m, b) THEN Raise("OtaCheckError")
          ELSE [status |-> b.status,
                dec |-> IF b.status = "por_ok" /\ b.data.len > 0 THEN b.data.id ELSE "none"]
  BY DEF DecodeResp, r
<1>3. ~Raised(r)
  BY DEF r
<1> HIDE DEF b
<1>4. m.rpi /\ ~BadResponse(ks, spi, m, b)
      /\ r = [status |-> b.status, dec |-> IF b.status = "por_ok" /\ b.data.len > 0 THEN b.data.id ELSE "none"]
  BY <1>1, <1>2, <1>3, Zenon
<1>5. r.dec # "none" => b.status = "por_ok" /\ r.dec = b.data.id
  BY <1>4
<1>6. b.status = "por_ok" => b = m.body.plain
  BY DEF b, Garbled
<1>7. spi.por_rc_cc_ds = "no_rc_cc_ds" => m.rhl = 10
  BY <1>4 DEF BadResponse
<1>8. ASSUME spi.por_rc_cc_ds = "cc" PROVE b.check.kid = ks.kid
  <2>1. PICK sum : b.check = Sign(ks, sum, 3 + 6 + m.len)
    BY <1>4, <1>8 DEF BadResponse
  <2> QED BY <2>1 DEF Sign
<1> QED BY <1>4, <1>5, <1>6, <1>7, <1>8 DEF r

\* Whatever response reaches a tool, it takes only its own for one.
LEMMA DecodedIsMine ==
  ASSUME conf \in [Tools -> Configs], KidsAreGiven, AllSigned, KidsAreTheirs,
         NEW t \in Tools, NEW m, m \in Responses \/ ~m.rpi, ~Raised(Received(t, m))
  PROVE  Received(t, m).dec \in {"none", t}
<1> DEFINE c == conf[t]
           plain == [c.spi EXCEPT !.por_shall_be_ciphered = FALSE, !.por_rc_cc_ds = "no_rc_cc_ds"]
           dec == DecodeResp(c.ks, c.spi, m)
           alt == DecodeResp(c.ks, plain, m)
           r == Received(t, m)
           b == m.body.plain
<1>1. r = IF Raised(dec) /\ dec.error = "ValueError" THEN alt ELSE dec
  BY DEF Received
<1> HIDE DEF r, dec, alt
<1>2. SUFFICES ASSUME r.dec # "none" PROVE r.dec = t
  BY DEF r
<1>3. (r = dec /\ ~Raised(dec)) \/ (r = alt /\ ~Raised(alt))
  BY <1>1 DEF r
<1>4. c.spi.por_rc_cc_ds = "cc"
  BY DEF AllSigned
<1>5. m.rpi
  <2>1. r = dec /\ ~Raised(dec) => m.rpi
    BY DecodedIs DEF dec
  <2>2. r = alt /\ ~Raised(alt) => m.rpi
    BY DecodedIs DEF alt
  <2> QED BY <1>3, <2>1, <2>2
<1>6. PICK u \in Encodes : m = ResponseTo(u)
  BY <1>5 DEF Responses
<1> DEFINE p == Packet(u)
           s == CardStatus(p)
<1>7. u \in Tools /\ p.head.spi = conf[u].spi /\ p.body.plain.data.id = u /\ p.head.spi.por_rc_cc_ds = "cc"
  BY PacketIs DEF Encodes, AllSigned
<1> HIDE DEF p
<1>8. /\ b.status = s
      /\ s = "por_ok" => m.rhl = 18 /\ b.data.id = u /\ b.check.kid = CardKeys[p.head.kic.key].kid
  BY <1>6, <1>7, ResponseIs DEF ResponseTo, p
<1>9. CASE r = dec /\ ~Raised(dec)
  <2>1. r.dec = b.data.id /\ b.status = "por_ok" /\ b.check.kid = c.ks.kid
    BY <1>2, <1>4, <1>9, DecodedIs DEF dec
  <2>2. CardKeys[p.head.kic.key].kid = conf[u].ks.kid
    BY <1>8, <2>1, KidIsTheTools DEF p
  <2>3. conf[u].ks.kid = conf[t].ks.kid
    BY <1>8, <2>1, <2>2
  <2>4. u = t
    BY <1>7, <2>3 DEF KidsAreTheirs
  <2> QED BY <1>8, <2>1, <2>4
<1>10. CASE r = alt /\ ~Raised(alt)
  <2>1. plain.por_rc_cc_ds = "no_rc_cc_ds"
    <3>1. "por_rc_cc_ds" \in DOMAIN c.spi
      BY ConfigsShape
    <3> QED BY <3>1
  <2> HIDE DEF plain
  <2>2. alt.dec # "none" => b.status = "por_ok"
    BY <1>10, DecodedIs DEF alt
  <2>3. m.rhl = 10
    BY <1>10, <2>1, DecodedIs DEF alt
  <2> QED BY <1>2, <1>8, <1>10, <2>2, <2>3
<1> QED BY <1>3, <1>9, <1>10

-----------------------------------------------------------------------------
(* The invariant.                                                          *)

Commands    == Unrelated \cup {SendSms(m) : m \in Responses}
FromCard(c) == DeliverToSmpp(DeliverFromSubmit(SubmitFromBytes(c.tpdu)))
Mos         == {[kind |-> "mo", ud |-> FromCard(c).ud, pid |-> FromCard(c).pid] :
                  c \in {d \in Commands : d.kind = "SendShortMessage"}}
Resps       == [kind : {"resp"}, status : {"ESME_RINVCMDID", "ESME_RINVDCS", "exception", "ESME_ROK"}]
Reports     == [kind : {"report"}, ud : Responses \cup {Nothing}]
Messages    == Mos \cup Resps \cup Reports

Said(box, t) == {box[t][i] : i \in DOMAIN box[t]}

\* The tools, and what is under way between them and the gateway.
ToolsInv ==
  /\ conf \in [Tools -> Configs] /\ tool \in [Tools -> {"start", "wait", "done", "failed"}]
  /\ DOMAIN answer = Tools /\ DOMAIN submits = Tools
  /\ \A t \in Tools : submits[t] = <<>> \/ (t \in Encodes /\ submits[t] = <<Pdu(t)>>)
  /\ inbox \in [Tools -> Seq(Messages)]

\* The card's commands: those it was made for, and messages with a response.
CardInv ==
  /\ queue \in Seq(Commands) /\ later \in Seq(Responses) /\ fetched \in Commands \cup {Nothing}
  /\ sw.c = "91" => queue # <<>>
  /\ stage = "fetch" => sw.c \in {"90", "6f"}
  /\ stage = "handle" \/ (stage = "fetch" /\ sw.c = "90") => fetched \in Commands

\* A tool submits once: until that was handled nothing is reported to it.
JobInv ==
  /\ gw # "serving" => job = NoJob
  /\ smpp \in Tools \cup {NoTool}
  /\ job = NoJob \/ \E t \in Encodes : job = Pdu(t)
  /\ \A t \in Tools : /\ tool[t] = "start" => submits[t] = <<>> /\ job.owner # t
                      /\ submits[t] # <<>> => job.owner # t
                      /\ tool[t] = "start" \/ submits[t] # <<>> \/ job.owner = t =>
                           \A m \in Said(inbox, t) : m.kind # "report"

\* What the card makes of the SMS-DELIVER is what was submitted.
HeardInv ==
  job # NoJob => /\ heard.oa = FromSmpp(job.src.digits, job.src.ton, job.src.npi)
                 /\ heard.pid = job.pid /\ heard.udhi = job.udhi /\ heard.ud = job.ud /\ heard.udl = job.udl

\* What GET RESPONSE has brought and what the card still holds are its answer.
Failing == sw.c \in {"93", "6f", "63"} /\ out = <<>>
Reading(e) ==
  \/ e = Nothing /\ data = <<>> /\ out = <<>> /\ sw.c \in {"90", "91"}
  \/ /\ e \in Responses
     /\ \/ /\ data = <<>> /\ out = Parts(e)
           /\ (sw.c \in {"61", "9f", "6c"} /\ sw.n = 2) \/ (sw.c = "62" /\ sw.n \in {0, 131})
        \/ data = <<Parts(e)[1]>> /\ out = <<Parts(e)[2]>> /\ sw.c = "61" /\ sw.n = 1
        \/ data = Parts(e) /\ out = <<>> /\ sw.c \in {"90", "91"}

Taken(t) == t \in accepted /\ Joined(rv) = por[t]
AnswerInv ==
  /\ por \in [Tools -> Responses \cup {Nothing}]
  /\ job # NoJob =>
       /\ stage = "command" => Failing \/ (job.owner \in accepted /\ Reading(por[job.owner]))
       /\ stage \in {"fetch", "handle", "answer"} => Taken(job.owner)
       /\ stage = "idle" /\ result = "ok" => Taken(job.owner)

\* What the tools have been sent.
BoxInv ==
  \A t \in Tools : \A m \in Said(inbox, t) :
    /\ m.kind = "report" => m.ud = por[t]
    /\ m = [kind |-> "resp", status |-> "ESME_ROK"] => t \in accepted

GatewayInv == ToolsInv /\ CardInv /\ JobInv /\ HeardInv /\ AnswerInv /\ BoxInv /\ CardRunsWhatWasSent

\* What the tools have read.
ReadInv ==
  \A t \in Tools : /\ answer[t] # Nothing => answer[t].dec \in {"none", t}
                   /\ tool[t] = "done" => answer[t] # Nothing /\ answer[t].dec # "none"

LEMMA SameOptions ==
  ASSUME conf' = conf
  PROVE  /\ Encodes' = Encodes /\ Responses' = Responses /\ Commands' = Commands /\ Messages' = Messages
         /\ \A t : Pdu(t)' = Pdu(t)
<1>1. \A t : Packet(t)' = Packet(t)
  BY DEF Packet
<1>2. Encodes' = Encodes
  BY <1>1 DEF Encodes
<1>3. Responses' = Responses
  <2>1. \A t : ResponseTo(t)' = ResponseTo(t)
    BY <1>1 DEF ResponseTo
  <2> QED BY <1>2, <2>1 DEF Responses
<1>4. Commands' = Commands
  BY <1>3 DEF Commands
<1>5. Messages' = Messages
  BY <1>3, <1>4 DEF Messages, Mos, Reports
<1>6. \A t : Pdu(t)' = Pdu(t)
  BY <1>1 DEF Pdu
<1> QED BY <1>2, <1>3, <1>4, <1>5, <1>6

LEMMA SaidIs ==
  ASSUME NEW M, NEW box \in [Tools -> Seq(M)], NEW t \in Tools
  PROVE  /\ Said(box, t) \subseteq M
         /\ box[t] # <<>> => Head(box[t]) \in Said(box, t)
<1>1. box[t] \in Seq(M)
  OBVIOUS
<1>2. Said(box, t) \subseteq M
  BY <1>1 DEF Said
<1>3. ASSUME box[t] # <<>> PROVE Head(box[t]) \in Said(box, t)
  <2>1. 1 \in DOMAIN box[t] /\ Head(box[t]) = box[t][1]
    BY <1>1, <1>3
  <2> QED BY <2>1 DEF Said
<1> QED BY <1>2, <1>3

LEMMA PutSays ==
  ASSUME NEW M, NEW box \in [Tools -> Seq(M)], NEW t \in Tools, NEW p \in M
  PROVE  /\ Put(box, t, p) \in [Tools -> Seq(M)]
         /\ \A u \in Tools : \A m \in Said(Put(box, t, p), u) : m \in Said(box, u) \/ (u = t /\ m = p)
         /\ ~Listening(t) => Put(box, t, p) = box
<1> DEFINE new == [box EXCEPT ![t] = Append(@, p)]
<1>1. box[t] \in Seq(M) /\ Append(box[t], p) \in Seq(M)
  OBVIOUS
<1>2. new \in [Tools -> Seq(M)]
  BY <1>1
<1>3. ASSUME NEW u \in Tools, NEW m \in Said(new, u) PROVE m \in Said(box, u) \/ (u = t /\ m = p)
  <2>1. CASE u = t
    <3>1. PICK i \in DOMAIN Append(box[t], p) : m = Append(box[t], p)[i]
      BY <1>3, <2>1 DEF Said
    <3>2. m = p \/ (i \in DOMAIN box[t] /\ m = box[t][i])
      BY <1>1, <3>1
    <3> QED BY <2>1, <3>2 DEF Said
  <2>2. CASE u # t
    BY <1>3, <2>2 DEF Said
  <2> QED BY <2>1, <2>2
<1> HIDE DEF new
<1>4. Put(box, t, p) = IF Listening(t) THEN new ELSE box
  BY DEF Put, new
<1> QED BY <1>2, <1>3, <1>4

LEMMA TakeSays ==
  ASSUME NEW M, NEW box \in [Tools -> Seq(M)], NEW t \in Tools, box[t] # <<>>
  PROVE  /\ [box EXCEPT ![t] = Tail(@)] \in [Tools -> Seq(M)]
         /\ \A u \in Tools : Said([box EXCEPT ![t] = Tail(@)], u) \subseteq Said(box, u)
<1> DEFINE new == [box EXCEPT ![t] = Tail(@)]
<1>1. box[t] \in Seq(M) /\ Tail(box[t]) \in Seq(M)
  OBVIOUS
<1>2. new \in [Tools -> Seq(M)]
  BY <1>1
<1>3. ASSUME NEW u \in Tools, NEW m \in Said(new, u) PROVE m \in Said(box, u)
  <2>1. CASE u = t
    <3>1. PICK i \in DOMAIN Tail(box[t]) : m = Tail(box[t])[i]
      BY <1>3, <2>1 DEF Said
    <3>2. i + 1 \in DOMAIN box[t] /\ m = box[t][i + 1]
      BY <1>1, <3>1
    <3> QED BY <2>1, <3>2 DEF Said
  <2>2. CASE u # t
    BY <1>3, <2>2 DEF Said
  <2> QED BY <2>1, <2>2
<1> QED BY <1>2, <1>3

LEMMA EmptySays ==
  ASSUME NEW M, NEW box \in [Tools -> Seq(M)], NEW t \in Tools
  PROVE  /\ [box EXCEPT ![t] = <<>>] \in [Tools -> Seq(M)]
         /\ \A u \in Tools : Said([box EXCEPT ![t] = <<>>], u) \subseteq Said(box, u)
<1>1. <<>> \in Seq(M)
  OBVIOUS
<1>2. ASSUME NEW u \in Tools PROVE Said([box EXCEPT ![t] = <<>>], u) \subseteq Said(box, u)
  BY DEF Said
<1> QED BY <1>1, <1>2

\* The tools' own steps leave the gateway and the card alone.
LEMMA ToolLeaves ==
  ASSUME GatewayInv, UNCHANGED <<cardvars, linkvars, conf, gwvars, later, left, history>>
  PROVE  CardInv' /\ HeardInv' /\ AnswerInv' /\ CardRunsWhatWasSent'
<1> USE DEF GatewayInv, cardvars, linkvars, gwvars, history
<1>1. Responses' = Responses /\ Commands' = Commands
  BY SameOptions
<1>2. CardInv'
  BY <1>1 DEF CardInv
<1>3. HeardInv'
  BY DEF HeardInv
<1>4. AnswerInv'
  BY <1>1 DEF AnswerInv, Failing, Reading, Taken
<1>5. CardRunsWhatWasSent'
  BY DEF CardRunsWhatWasSent
<1> QED BY <1>2, <1>3, <1>4, <1>5

LEMMA SubmitKeeps ==
  ASSUME GatewayInv, NEW t \in Tools, Submit(t)
  PROVE  GatewayInv'
<1> DEFINE p == Packet(t)
<1>1. /\ UNCHANGED <<cardvars, linkvars, conf, gwvars, later, left, history>> /\ inbox' = inbox /\ answer' = answer
      /\ tool[t] = "start"
  BY DEF Submit
<1>2. /\ tool' = [tool EXCEPT ![t] = IF Raised(p) THEN "failed" ELSE "wait"]
      /\ submits' = IF Raised(p) THEN submits ELSE [submits EXCEPT ![t] = Append(@, Pdu(t))]
  BY DEF Submit, Packet, Pdu
<1>3. /\ submits[t] = <<>> /\ job.owner # t /\ DOMAIN submits = Tools /\ tool \in [Tools -> {"start", "wait", "done", "failed"}]
      /\ \A m \in Said(inbox, t) : m.kind # "report"
  BY <1>1 DEF GatewayInv, JobInv, ToolsInv
<1>4. ~Raised(p) => t \in Encodes
  BY DEF Encodes
<1>5. /\ DOMAIN submits' = Tools /\ \A u \in Tools : u # t => submits'[u] = submits[u] /\ tool'[u] = tool[u]
      /\ submits'[t] = <<>> \/ (t \in Encodes /\ submits'[t] = <<Pdu(t)>>)
      /\ tool'[t] \in {"wait", "failed"} /\ tool' \in [Tools -> {"start", "wait", "done", "failed"}]
  <2>1. Append(<<>>, Pdu(t)) = <<Pdu(t)>>
    OBVIOUS
  <2> HIDE DEF p
  <2> QED BY <1>2, <1>3, <1>4, <2>1
<1>6. Encodes' = Encodes /\ Messages' = Messages /\ \A u : Pdu(u)' = Pdu(u)
  BY <1>1, SameOptions
<1>7. ToolsInv'
  BY <1>1, <1>5, <1>6 DEF GatewayInv, ToolsInv
<1>8. gw' = gw /\ job' = job /\ smpp' = smpp
  BY <1>1 DEF gwvars
<1>9. JobInv'
  <2>1. job' = NoJob \/ \E u \in Encodes' : job' = Pdu(u)'
    BY <1>6, <1>8 DEF GatewayInv, JobInv
  <2>2. \A u : Said(inbox, u)' = Said(inbox, u)
    BY <1>1 DEF Said
  <2> QED BY <1>3, <1>5, <1>8, <2>1, <2>2 DEF GatewayInv, JobInv
<1>10. BoxInv'
  BY <1>1 DEF GatewayInv, BoxInv, Said, history
<1> QED BY <1>1, <1>7, <1>9, <1>10, ToolLeaves DEF GatewayInv

\* A tool that takes or drops messages, and ends or goes on.
LEMMA ReaderKeeps ==
  ASSUME GatewayInv, NEW t \in Tools, Poll(t) \/ Finished(t) \/ TimeUp(t)
  PROVE  GatewayInv'
<1>1. /\ UNCHANGED <<cardvars, linkvars, conf, gwvars, later, left, history>> /\ submits' = submits
      /\ tool[t] = "wait"
  BY DEF Poll, Finished, TimeUp, Listening
<1>2. inbox \in [Tools -> Seq(Messages)] /\ tool \in [Tools -> {"start", "wait", "done", "failed"}] /\ DOMAIN answer = Tools
  BY DEF GatewayInv, ToolsInv
<1>3. /\ inbox' \in [Tools -> Seq(Messages)]
      /\ \A u \in Tools : Said(inbox', u) \subseteq Said(inbox, u)
  <2>1. CASE Poll(t)
    <3>1. inbox[t] # <<>> /\ inbox' = [inbox EXCEPT ![t] = Tail(@)]
      BY <2>1 DEF Poll
    <3> QED BY <1>2, <3>1, TakeSays
  <2>2. CASE Finished(t) \/ TimeUp(t)
    <3>1. inbox' = [inbox EXCEPT ![t] = <<>>]
      BY <2>2 DEF Finished, TimeUp
    <3> QED BY <1>2, <3>1, EmptySays
  <2> QED BY <2>1, <2>2
<1>4. \E s \in {"wait", "done", "failed"} : tool' = [tool EXCEPT ![t] = s]
  <2>1. tool = [tool EXCEPT ![t] = "wait"]
    BY <1>1, <1>2
  <2>2. CASE Poll(t)
    <3>1. tool' = tool \/ tool' = [tool EXCEPT ![t] = "failed"] \/ tool' = [tool EXCEPT ![t] = tool[t]]
      BY <2>2, Zenon DEF Poll
    <3> QED BY <1>1, <2>1, <3>1
  <2>3. CASE Finished(t)
    BY <2>3 DEF Finished
  <2>4. CASE TimeUp(t)
    BY <2>4 DEF TimeUp
  <2> QED BY <2>2, <2>3, <2>4
<1>5. /\ tool' \in [Tools -> {"start", "wait", "done", "failed"}]
      /\ \A u \in Tools : tool'[u] = "start" => tool[u] = "start"
  BY <1>2, <1>4
<1>6. DOMAIN answer' = Tools
  BY <1>2 DEF Poll, Finished, TimeUp
<1>7. Encodes' = Encodes /\ Messages' = Messages /\ \A u : Pdu(u)' = Pdu(u)
  BY <1>1, SameOptions
<1>8. ToolsInv'
  BY <1>1, <1>3, <1>5, <1>6, <1>7 DEF GatewayInv, ToolsInv
<1>9. gw' = gw /\ job' = job /\ smpp' = smpp /\ por' = por /\ accepted' = accepted
  BY <1>1 DEF gwvars, history
<1>10. \A u \in Tools : Said(inbox, u)' \subseteq Said(inbox, u)
  BY <1>3 DEF Said
<1>11. JobInv'
  <2>1. job' = NoJob \/ \E u \in Encodes' : job' = Pdu(u)'
    BY <1>7, <1>9 DEF GatewayInv, JobInv
  <2> QED BY <1>1, <1>5, <1>9, <1>10, <2>1 DEF GatewayInv, JobInv
<1>12. BoxInv'
  BY <1>9, <1>10 DEF GatewayInv, BoxInv
<1> QED BY <1>1, <1>8, <1>11, <1>12, ToolLeaves DEF GatewayInv

-----------------------------------------------------------------------------
(* The link.                                                               *)

LEMMA LinkLeaves ==
  ASSUME GatewayInv, UNCHANGED <<toolvars, netvars, gw, job, smpp, history>>, CardInv', AnswerInv'
  PROVE  GatewayInv'
<1> USE DEF GatewayInv, toolvars, netvars, history
<1>1. Encodes' = Encodes /\ Messages' = Messages /\ \A u : Pdu(u)' = Pdu(u)
  BY SameOptions
<1>2. ToolsInv'
  BY <1>1 DEF ToolsInv
<1>3. \A u : Said(inbox, u)' = Said(inbox, u)
  BY DEF Said
<1>4. JobInv'
  <2>1. job' = NoJob \/ \E u \in Encodes' : job' = Pdu(u)'
    BY <1>1 DEF JobInv
  <2> QED BY <1>3, <2>1 DEF JobInv
<1>5. HeardInv' /\ CardRunsWhatWasSent'
  BY DEF HeardInv, CardRunsWhatWasSent
<1>6. BoxInv'
  BY <1>3 DEF BoxInv
<1> QED BY <1>2, <1>4, <1>5, <1>6

LEMMA FinalIs ==
  ASSUME NEW q
  PROVE  Final(q).c \in {"90", "91"} /\ (Final(q).c = "91" => q # <<>>)
BY DEF Final, Sw

LEMMA PartsAre ==
  ASSUME NEW m
  PROVE  /\ Len(Parts(m)) = 2 /\ Parts(m) # <<>> /\ Head(Parts(m)) = Parts(m)[1] /\ Tail(Parts(m)) = <<Parts(m)[2]>>
         /\ <<>> \o Parts(m) = Parts(m) /\ <<Parts(m)[1]>> \o <<Parts(m)[2]>> = Parts(m)
         /\ <<Parts(m)[2]>> # <<>> /\ Len(<<Parts(m)[2]>>) = 1
         /\ Joined(Parts(m)) = m /\ Joined(<<>>) = Nothing
<1> DEFINE a == [of |-> m, part |-> 1]
           b == [of |-> m, part |-> 2]
<1>1. Parts(m) = <<a, b>> /\ a.of = m
  BY DEF Parts
<1>2. Joined(Parts(m)) = m /\ Joined(<<>>) = Nothing
  <2>1. Parts(m) # <<>> /\ Parts(m)[1].of = m
    BY <1>1
  <2> QED BY <2>1 DEF Joined
<1> HIDE DEF a, b
<1>3. /\ Len(Parts(m)) = 2 /\ Parts(m) # <<>> /\ Parts(m)[1] = a /\ Parts(m)[2] = b
      /\ Head(Parts(m)) = a /\ Tail(Parts(m)) = <<b>>
  BY <1>1
<1>4. <<a>> \o <<b>> = <<a, b>> /\ <<>> \o <<a, b>> = <<a, b>>
  <2>1. <<a>> \in Seq({a, b}) /\ <<b>> \in Seq({a, b}) /\ <<a, b>> \in Seq({a, b}) /\ <<>> \in Seq({a, b})
    OBVIOUS
  <2>2. <<>> \o <<a, b>> = <<a, b>>
    BY <2>1, ConcatEmptySeq
  <2>3. <<a>> \o <<b>> = <<a, b>>
    <3>1. \A i \in 1..2 : (<<a>> \o <<b>>)[i] = <<a, b>>[i]
      BY <2>1
    <3>2. Len(<<a>> \o <<b>>) = 2 /\ <<a>> \o <<b>> \in Seq({a, b}) /\ Len(<<a, b>>) = 2
      BY <2>1
    <3> QED BY <2>1, <3>1, <3>2, SeqEqual
  <2> QED BY <2>2, <2>3
<1> QED BY <1>1, <1>2, <1>3, <1>4

\* A call that ends with an exception owes nothing.
LEMMA RaisesKeeps ==
  ASSUME GatewayInv, Raises, UNCHANGED <<conf, job, por>>,
         queue' \in Seq(Commands), fetched' \in Commands \cup {Nothing}, later' = later
  PROVE  CardInv' /\ AnswerInv'
<1>1. stage' = "idle" /\ result' = "raised" /\ sw'.c = "none"
  BY DEF Raises, Finish, NoSw, Sw
<1>2. Responses' = Responses /\ Commands' = Commands
  BY SameOptions
<1>3. CardInv'
  BY <1>1, <1>2 DEF CardInv, GatewayInv
<1>4. AnswerInv'
  BY <1>1, <1>2 DEF AnswerInv, GatewayInv
<1> QED BY <1>3, <1>4

\* What GET RESPONSE brings, for whatever number of octets.
LEMMA ReplyIs ==
  ASSUME NEW n, NEW r \in Replies(n)
  PROVE  /\ out = <<>> => r.d = <<>> /\ r.o = <<>> /\ r.w.c = "6f"
         /\ out # <<>> /\ n \in {0, Len(out)} =>
              \/ r.d = out /\ r.o = <<>> /\ r.w = Final(queue)
              \/ Len(out) # 1 /\ r.d = <<Head(out)>> /\ r.o = Tail(out) /\ r.w.c = "61" /\ r.w.n = Len(out) - 1
         /\ out # <<>> /\ n \notin {0, Len(out)} => r.d = <<>> /\ r.o = out /\ r.w.c = "6c" /\ r.w.n = Len(out)
         /\ r.w.c = "91" => queue # <<>>
<1>1. CASE out = <<>>
  BY <1>1 DEF Replies, Sw
<1>2. CASE out # <<>> /\ n \in {0, Len(out)}
  <2>1. \/ r = [d |-> out, o |-> <<>>, w |-> Final(queue)]
        \/ Len(out) # 1 /\ r = [d |-> <<Head(out)>>, o |-> Tail(out), w |-> Sw("61", Len(out) - 1)]
    BY <1>2 DEF Replies
  <2> QED BY <1>2, <2>1, FinalIs DEF Sw
<1>3. CASE out # <<>> /\ n \notin {0, Len(out)}
  BY <1>3 DEF Replies, Sw
<1> QED BY <1>1, <1>2, <1>3

LEMMA GetResponseKeeps ==
  ASSUME GatewayInv, GetResponse, UNCHANGED <<conf, job, por, accepted, later>>
  PROVE  CardInv' /\ AnswerInv'
<1>1. CASE ~alive
  BY <1>1, RaisesKeeps DEF GetResponse, GatewayInv, CardInv
<1>2. CASE alive
  <2>1. PICK r \in Replies(sw.n) : data' = data \o r.d /\ out' = r.o /\ sw' = r.w
    BY <1>2 DEF GetResponse
  <2>2. UNCHANGED <<stage, rv, result, queue, fetched>> /\ stage \in {"command", "fetch", "answer"} /\ sw.c \in Again
    BY <1>2 DEF GetResponse
  <2>3. Responses' = Responses /\ Commands' = Commands
    BY SameOptions
  <2>4. stage # "fetch"
    BY <2>2 DEF Again, GatewayInv, CardInv
  <2>5. CardInv'
    BY <2>1, <2>2, <2>3, <2>4, ReplyIs DEF CardInv, GatewayInv
  <2>6. ASSUME job # NoJob, stage = "command" PROVE Failing' \/ (job.owner \in accepted /\ Reading(por[job.owner])')
    <3> DEFINE e == por[job.owner]
    <3>1. Failing \/ (job.owner \in accepted /\ Reading(e))
      BY <2>6 DEF GatewayInv, AnswerInv
    <3>2. CASE out = <<>>
      BY <2>1, <3>2, ReplyIs DEF Failing
    <3>3. CASE out # <<>>
      <4>1. job.owner \in accepted /\ e \in Responses
        BY <3>1, <3>3 DEF Failing, Reading
      <4>2. CASE data = <<>> /\ out = Parts(e) /\ ((sw.c \in {"61", "9f"} /\ sw.n = 2) \/ (sw.c = "62" /\ sw.n = 0))
        <5>1. sw.n \in {0, Len(out)}
          BY <4>2, PartsAre
        <5>2. CASE r.d = out /\ r.o = <<>> /\ r.w = Final(queue)
          <6>1. data' = Parts(e) /\ out' = <<>> /\ sw'.c \in {"90", "91"}
            BY <2>1, <4>2, <5>2, PartsAre, FinalIs
          <6> QED BY <2>2, <2>3, <4>1, <6>1 DEF Reading
        <5>3. CASE r.d = <<Head(out)>> /\ r.o = Tail(out) /\ r.w.c = "61" /\ r.w.n = Len(out) - 1
          <6>1. data' = <<Parts(e)[1]>>
            BY <2>1, <4>2, <5>3, PartsAre
          <6>2. out' = <<Parts(e)[2]>> /\ sw'.c = "61" /\ sw'.n = 1
            <7>1. Len(out) = 2 /\ Tail(out) = <<Parts(e)[2]>>
              BY <4>2, PartsAre
            <7> QED BY <2>1, <5>3, <7>1
          <6> QED BY <2>2, <2>3, <4>1, <6>1, <6>2 DEF Reading
        <5> QED BY <3>3, <5>1, <5>2, <5>3, ReplyIs
      <4>3. CASE data = <<>> /\ out = Parts(e) /\ sw.c = "62" /\ sw.n = 131
        <5>1. Len(out) = 2
          BY <4>3, PartsAre
        <5>2. r.d = <<>> /\ r.o = out /\ r.w.c = "6c" /\ r.w.n = 2
          <6>1. sw.n \notin {0, Len(out)}
            BY <4>3, <5>1
          <6> QED BY <3>3, <5>1, <6>1, ReplyIs
        <5>3. data' = <<>> /\ out' = Parts(e) /\ sw'.c = "6c" /\ sw'.n = 2
          BY <2>1, <4>3, <5>2
        <5> QED BY <2>2, <2>3, <4>1, <5>3 DEF Reading
      <4>4. CASE data = <<Parts(e)[1]>> /\ out = <<Parts(e)[2]>> /\ sw.c = "61" /\ sw.n = 1
        <5>1. Len(out) = 1 /\ sw.n \in {0, Len(out)}
          BY <4>4, PartsAre
        <5>2. r.d = out /\ r.o = <<>> /\ r.w = Final(queue)
          BY <3>3, <5>1, ReplyIs
        <5>3. data' = Parts(e) /\ out' = <<>> /\ sw'.c \in {"90", "91"}
          BY <2>1, <4>4, <5>2, PartsAre, FinalIs
        <5> QED BY <2>2, <2>3, <4>1, <5>3 DEF Reading
      <4> QED BY <2>2, <3>1, <3>3, <4>2, <4>3, <4>4 DEF Reading, Failing, Again
    <3> QED BY <3>2, <3>3
  <2>7. AnswerInv'
    <3>1. stage' = "command" /\ job' # NoJob => Failing' \/ (job'.owner \in accepted' /\ Reading(por[job.owner])')
      BY <2>2, <2>6
    <3>2. por' = por /\ job' = job /\ accepted' = accepted
      OBVIOUS
    <3> QED BY <2>2, <2>3, <3>1, <3>2 DEF AnswerInv, GatewayInv, Taken, Reading
  <2> QED BY <2>5, <2>7
<1> QED BY <1>1, <1>2

LEMMA WrongLengthKeeps ==
  ASSUME GatewayInv, WrongLength, UNCHANGED <<conf, job, por, accepted, later>>
  PROVE  CardInv' /\ AnswerInv'
<1>1. CASE ~alive
  BY <1>1, RaisesKeeps DEF WrongLength, GatewayInv, CardInv
<1>2. CASE alive
  <2>1. PICK r \in Replies(sw.n) : r.o = <<>> /\ data' = r.d /\ out' = r.o /\ sw' = r.w
    BY <1>2 DEF WrongLength
  <2>2. UNCHANGED <<stage, rv, result, queue, fetched>> /\ stage \in {"command", "fetch", "answer"} /\ sw.c = "6c"
    BY <1>2 DEF WrongLength
  <2>3. Responses' = Responses /\ Commands' = Commands
    BY SameOptions
  <2>4. stage # "fetch"
    BY <2>2 DEF GatewayInv, CardInv
  <2>5. CardInv'
    BY <2>1, <2>2, <2>3, <2>4, ReplyIs DEF CardInv, GatewayInv
  <2>6. ASSUME job # NoJob, stage = "command" PROVE Failing' \/ (job.owner \in accepted /\ Reading(por[job.owner])')
    <3> DEFINE e == por[job.owner]
    <3>1. job.owner \in accepted /\ Reading(e)
      BY <2>2, <2>6 DEF GatewayInv, AnswerInv, Failing
    <3>2. e \in Responses /\ data = <<>> /\ out = Parts(e) /\ sw.n = 2
      BY <2>2, <3>1 DEF Reading
    <3>3. Len(out) = 2 /\ out # <<>>
      BY <3>2, PartsAre
    <3>4. sw.n \in {0, Len(out)}
      BY <3>2, <3>3
    <3>5. Tail(out) # <<>>
      BY <3>2, PartsAre
    <3>6. r.d = out /\ r.o = <<>> /\ r.w = Final(queue)
      BY <2>1, <3>3, <3>4, <3>5, ReplyIs
    <3>7. data' = Parts(e) /\ out' = <<>> /\ sw'.c \in {"90", "91"}
      BY <2>1, <3>2, <3>6, FinalIs
    <3> QED BY <2>3, <3>1, <3>2, <3>7 DEF Reading
  <2>7. AnswerInv'
    <3>1. stage' = "command" /\ job' # NoJob => Failing' \/ (job'.owner \in accepted' /\ Reading(por[job.owner])')
      BY <2>2, <2>6
    <3>2. por' = por /\ job' = job /\ accepted' = accepted
      OBVIOUS
    <3> QED BY <2>2, <2>3, <3>1, <3>2 DEF AnswerInv, GatewayInv, Taken, Reading
  <2> QED BY <2>5, <2>7
<1> QED BY <1>1, <1>2

\* A command that was carried out has left the whole answer in `data`.
LEMMA WholeIsRead ==
  ASSUME GatewayInv, stage = "command", job # NoJob, sw.c \in {"90", "91"}
  PROVE  job.owner \in accepted /\ Joined(data) = por[job.owner]
<1>1. job.owner \in accepted /\ Reading(por[job.owner])
  BY DEF GatewayInv, AnswerInv, Failing
<1> QED BY <1>1, PartsAre DEF Reading

LEMMA FetchKeeps ==
  ASSUME GatewayInv, NEW kept, Fetch(kept), UNCHANGED <<conf, job, por, accepted, later>>, sw.c = "91",
         job # NoJob => job.owner \in accepted /\ Joined(kept) = por[job.owner]
  PROVE  CardInv' /\ AnswerInv'
<1>1. Responses' = Responses /\ Commands' = Commands
  BY SameOptions
<1>2. queue # <<>> /\ queue \in Seq(Commands)
  BY DEF GatewayInv, CardInv
<1>3. Head(queue) \in Commands /\ Tail(queue) \in Seq(Commands)
  BY <1>2
<1>4. CASE ~alive
  BY <1>4, RaisesKeeps DEF Fetch, GatewayInv, CardInv
<1>5. CASE alive
  <2>1. stage' = "fetch" /\ rv' = kept /\ (\/ sw'.c = "90" /\ fetched' = Head(queue) /\ queue' = Tail(queue)
                                           \/ sw'.c = "6f" /\ fetched' = fetched /\ queue' = queue)
    BY <1>5 DEF Fetch, Sw
  <2>2. CardInv'
    BY <1>1, <1>2, <1>3, <2>1 DEF CardInv, GatewayInv
  <2>3. AnswerInv'
    BY <1>1, <2>1 DEF AnswerInv, GatewayInv, Taken
  <2> QED BY <2>2, <2>3
<1> QED BY <1>4, <1>5

LEMMA CommandReturnedKeeps ==
  ASSUME GatewayInv, CommandReturned, UNCHANGED <<conf, job, por, accepted, later>>
  PROVE  CardInv' /\ AnswerInv'
<1>1. stage = "command"
  BY DEF CommandReturned
<1>2. CASE sw.c = "91"
  BY <1>1, <1>2, WholeIsRead, FetchKeeps DEF CommandReturned
<1>3. CASE sw.c = "90"
  <2>1. stage' = "idle" /\ rv' = data /\ sw'.c = "none" /\ UNCHANGED <<queue, fetched>>
    BY <1>3 DEF CommandReturned, Finish, NoSw, Sw
  <2>2. Responses' = Responses /\ Commands' = Commands
    BY SameOptions
  <2>3. CardInv'
    BY <2>1, <2>2 DEF CardInv, GatewayInv
  <2>4. job' # NoJob => Taken(job.owner)'
    BY <1>1, <1>3, <2>1, WholeIsRead DEF Taken
  <2>5. AnswerInv'
    BY <2>1, <2>2, <2>4 DEF AnswerInv, GatewayInv, Taken
  <2> QED BY <2>3, <2>5
<1>4. CASE sw.c \notin {"90", "91"}
  BY <1>4, RaisesKeeps DEF CommandReturned, GatewayInv, CardInv
<1> QED BY <1>2, <1>3, <1>4

LEMMA FetchReturnedKeeps ==
  ASSUME GatewayInv, FetchReturned, UNCHANGED <<conf, job, por, accepted, later>>
  PROVE  CardInv' /\ AnswerInv'
<1>1. stage = "fetch" /\ UNCHANGED <<queue, fetched>>
  BY DEF FetchReturned, cardvars
<1>2. CASE sw.c = "90"
  <2>1. stage' = "handle" /\ UNCHANGED <<sw, rv, result>>
    BY <1>2 DEF FetchReturned
  <2>2. Responses' = Responses /\ Commands' = Commands
    BY SameOptions
  <2>3. CardInv'
    BY <1>1, <1>2, <2>1, <2>2 DEF CardInv, GatewayInv
  <2>4. AnswerInv'
    BY <1>1, <2>1, <2>2 DEF AnswerInv, GatewayInv, Taken
  <2> QED BY <2>3, <2>4
<1>3. CASE sw.c # "90"
  BY <1>1, <1>3, RaisesKeeps DEF FetchReturned, GatewayInv, CardInv
<1> QED BY <1>2, <1>3

LEMMA AnswerReturnedKeeps ==
  ASSUME GatewayInv, AnswerReturned, UNCHANGED <<conf, job, por, accepted, later>>
  PROVE  CardInv' /\ AnswerInv'
<1>1. stage = "answer"
  BY DEF AnswerReturned
<1>2. job # NoJob => job.owner \in accepted /\ Joined(rv) = por[job.owner]
  BY <1>1 DEF GatewayInv, AnswerInv, Taken
<1>3. CASE sw.c = "91"
  BY <1>2, <1>3, FetchKeeps DEF AnswerReturned
<1>4. CASE sw.c # "91"
  <2>1. stage' = "idle" /\ rv' = rv /\ sw'.c = "none" /\ UNCHANGED <<queue, fetched>>
    BY <1>4 DEF AnswerReturned, Finish, NoSw, Sw
  <2>2. Responses' = Responses /\ Commands' = Commands
    BY SameOptions
  <2>3. CardInv'
    BY <2>1, <2>2 DEF CardInv, GatewayInv
  <2>4. AnswerInv'
    BY <1>2, <2>1, <2>2 DEF AnswerInv, GatewayInv, Taken
  <2> QED BY <2>3, <2>4
<1> QED BY <1>3, <1>4

LEMMA LinkKeeps ==
  ASSUME GatewayInv, Link \/ LinkLost
  PROVE  GatewayInv'
<1>1. UNCHANGED <<toolvars, netvars, gwvars, later, left, history>>
  BY DEF Link, LinkLost
<1>2. UNCHANGED <<conf, job, por, accepted, later>>
  BY <1>1 DEF toolvars, gwvars, history
<1>3. UNCHANGED <<toolvars, netvars, gw, job, smpp, history>>
  BY <1>1 DEF gwvars
<1>4. CASE Link
  BY <1>2, <1>3, <1>4, LinkLeaves, GetResponseKeeps, WrongLengthKeeps, CommandReturnedKeeps,
     FetchReturnedKeeps, AnswerReturnedKeeps DEF Link, LinkStep
<1>5. CASE LinkLost
  <2>1. UNCHANGED <<out, queue, fetched, stage, data, sw, rv, result>>
    BY <1>5 DEF LinkLost, Lost, linkvars
  <2>2. Responses' = Responses /\ Commands' = Commands
    BY <1>2, SameOptions
  <2>3. CardInv'
    BY <1>2, <2>1, <2>2 DEF CardInv, GatewayInv
  <2>4. AnswerInv'
    BY <1>2, <2>1, <2>2 DEF AnswerInv, GatewayInv, Failing, Reading, Taken
  <2> QED BY <1>3, <2>3, <2>4, LinkLeaves
<1> QED BY <1>4, <1>5

-----------------------------------------------------------------------------
(* The gateway.                                                            *)

LEMMA AddsFit ==
  ASSUME CardInv, NEW q \in Adds
  PROVE  /\ q \in Seq(Commands) /\ queue \o q \in Seq(Commands)
         /\ Added(q) => later' \in Seq(Responses)
<1>1. queue \in Seq(Commands) /\ later \in Seq(Responses)
  BY DEF CardInv
<1>2. \/ q = <<>>
      \/ \E u \in Unrelated : q = <<u>>
      \/ later # <<>> /\ q = <<SendSms(Head(later))>>
  BY Zenon DEF Adds
<1>3. later # <<>> => Head(later) \in Responses /\ Tail(later) \in Seq(Responses)
  BY <1>1
<1>4. q = <<>> \/ \E c \in Commands : q = <<c>>
  BY <1>2, <1>3 DEF Commands
<1>5. q \in Seq(Commands)
  <2>1. \A c \in Commands : <<c>> \in Seq(Commands)
    OBVIOUS
  <2>2. <<>> \in Seq(Commands)
    OBVIOUS
  <2> QED BY <1>4, <2>1, <2>2, Zenon
<1>6. queue \o q \in Seq(Commands)
  BY <1>1, <1>5
<1>7. ASSUME Added(q) PROVE later' \in Seq(Responses)
  <2>1. CASE q # <<>> /\ q[1] \notin Unrelated
    <3>1. later # <<>>
      BY <1>2, <2>1
    <3> QED BY <1>3, <1>7, <2>1, <3>1 DEF Added
  <2>2. CASE ~(q # <<>> /\ q[1] \notin Unrelated)
    BY <1>1, <1>7, <2>2 DEF Added
  <2> QED BY <2>1, <2>2
<1> QED BY <1>5, <1>6, <1>7

LEMMA StartUpKeeps ==
  ASSUME GatewayInv, StartUp
  PROVE  GatewayInv'
<1>1. /\ UNCHANGED <<toolvars, netvars, gw, job, smpp, history>> /\ UNCHANGED <<conf, por, fetched>> /\ gw = "starting"
  BY DEF StartUp, gwvars, toolvars, history
<1>2. job = NoJob
  BY <1>1 DEF GatewayInv, JobInv
<1>3. CASE ~alive
  <2>1. Raises /\ UNCHANGED <<queue, later>>
    BY <1>3 DEF StartUp
  <2>2. CardInv' /\ AnswerInv'
    BY <1>1, <2>1, RaisesKeeps DEF GatewayInv, CardInv
  <2> QED BY <1>1, <2>2, LinkLeaves
<1>4. CASE alive
  <2>1. PICK q \in Adds : Exchange("command", Final(q), <<>>, q) /\ Added(q)
    BY <1>4 DEF StartUp
  <2>2. q \in Seq(Commands) /\ later' \in Seq(Responses)
    BY <2>1, AddsFit DEF GatewayInv
  <2>3. stage' = "command" /\ queue' = q /\ sw' = Final(q)
    BY <2>1 DEF Exchange
  <2>4. Responses' = Responses /\ Commands' = Commands
    BY <1>1, SameOptions
  <2>5. CardInv'
    BY <1>1, <2>2, <2>3, <2>4, FinalIs DEF CardInv, GatewayInv
  <2>6. AnswerInv'
    BY <1>1, <1>2, <2>4 DEF AnswerInv, GatewayInv
  <2> QED BY <1>1, <2>5, <2>6, LinkLeaves
<1> QED BY <1>3, <1>4

LEMMA StartedKeeps ==
  ASSUME GatewayInv, Started
  PROVE  GatewayInv'
<1> USE DEF GatewayInv
<1>1. /\ UNCHANGED <<conf, tool, answer, submits, inbox, job, smpp, ran, heard, por, accepted>>
      /\ UNCHANGED <<queue, later, fetched, stage, sw>> /\ gw = "starting"
  BY DEF Started, toolvars, netvars, history, cardvars
<1>2. job = NoJob
  BY <1>1 DEF JobInv
<1>3. Encodes' = Encodes /\ Messages' = Messages /\ Responses' = Responses /\ Commands' = Commands /\ \A u : Pdu(u)' = Pdu(u)
  BY <1>1, SameOptions
<1>4. ToolsInv' /\ CardInv'
  BY <1>1, <1>3 DEF ToolsInv, CardInv
<1>5. \A u : Said(inbox, u)' = Said(inbox, u)
  BY <1>1 DEF Said
<1>6. JobInv'
  BY <1>1, <1>2, <1>5 DEF JobInv
<1>7. HeardInv' /\ AnswerInv' /\ CardRunsWhatWasSent'
  BY <1>1, <1>2, <1>3 DEF HeardInv, AnswerInv, CardRunsWhatWasSent
<1>8. BoxInv'
  BY <1>1, <1>5 DEF BoxInv
<1> QED BY <1>4, <1>6, <1>7, <1>8

\* The handler's answer is sent; the command's own answer stays where it is.
LEMMA AnswerKeeps ==
  ASSUME GatewayInv, stage = "handle", Answer, UNCHANGED <<conf, job, por, accepted>>
  PROVE  CardInv' /\ AnswerInv'
<1>1. PICK q \in Adds : Respond(queue \o q) /\ IF alive THEN Added(q) ELSE UNCHANGED <<left, later>>
  BY DEF Answer
<1>2. CASE ~alive
  BY <1>1, <1>2, RaisesKeeps DEF Respond, cardvars, GatewayInv, CardInv
<1>3. CASE alive
  <2>1. queue \o q \in Seq(Commands) /\ later' \in Seq(Responses)
    BY <1>1, <1>3, AddsFit DEF GatewayInv
  <2>2. /\ stage' = "answer" /\ queue' = queue \o q /\ rv' = rv /\ fetched' = Nothing
        /\ sw' = Final(queue \o q) \/ sw'.c = "6f"
    <3>1. PICK w \in {Final(queue \o q), Sw("6f", 0)} : Exchange("answer", w, <<>>, queue \o q)
      BY <1>1, <1>3 DEF Respond
    <3>2. fetched' = Nothing /\ rv' = rv
      BY <1>1, <1>3 DEF Respond
    <3>3. Sw("6f", 0).c = "6f"
      BY DEF Sw
    <3> QED BY <3>1, <3>2, <3>3 DEF Exchange
  <2>3. Responses' = Responses /\ Commands' = Commands
    BY SameOptions
  <2>4. sw'.c = "91" => queue' # <<>>
    BY <2>2, FinalIs
  <2>5. CardInv'
    BY <2>1, <2>2, <2>3, <2>4 DEF CardInv
  <2>6. AnswerInv'
    BY <2>2, <2>3 DEF AnswerInv, GatewayInv, Taken
  <2> QED BY <2>5, <2>6
<1> QED BY <1>2, <1>3

LEMMA HandlersKeep ==
  ASSUME GatewayInv, HandleAnswered \/ HandleOpenChannel \/ HandleNot
  PROVE  GatewayInv'
<1>1. UNCHANGED <<toolvars, netvars, gw, job, smpp, history>> /\ UNCHANGED <<conf, por, accepted>> /\ stage = "handle"
  BY DEF HandleAnswered, HandleOpenChannel, HandleNot, gwvars, toolvars, history
<1>2. Answer \/ (Raises /\ UNCHANGED <<cardvars, later>>)
  BY DEF HandleAnswered, HandleOpenChannel, HandleNot
<1>3. CASE Answer
  BY <1>1, <1>3, AnswerKeeps, LinkLeaves
<1>4. CASE Raises /\ UNCHANGED <<cardvars, later>>
  <2>1. CardInv' /\ AnswerInv'
    BY <1>1, <1>4, RaisesKeeps DEF cardvars, GatewayInv, CardInv
  <2> QED BY <1>1, <2>1, LinkLeaves
<1> QED BY <1>2, <1>3, <1>4

\* A step that only sends a tool something, which is no report.
LEMMA InboxKeeps ==
  ASSUME GatewayInv, UNCHANGED <<toolvars, submits, gw, job, smpp, history>>, CardInv', AnswerInv',
         NEW t \in Tools, NEW m \in Messages, m.kind # "report",
         m = [kind |-> "resp", status |-> "ESME_ROK"] => t \in accepted,
         inbox' = Put(inbox, t, m)
  PROVE  GatewayInv'
<1> USE DEF GatewayInv, toolvars, history
<1>1. Encodes' = Encodes /\ Messages' = Messages /\ \A u : Pdu(u)' = Pdu(u)
  BY SameOptions
<1>2. /\ inbox' \in [Tools -> Seq(Messages)]
      /\ \A u \in Tools : \A n \in Said(inbox', u) : n \in Said(inbox, u) \/ (u = t /\ n = m)
  BY PutSays DEF ToolsInv
<1>3. ToolsInv'
  BY <1>1, <1>2 DEF ToolsInv
<1>4. \A u : Said(inbox, u)' = Said(inbox', u)
  BY DEF Said
<1>5. JobInv'
  <2>1. job' = NoJob \/ \E u \in Encodes' : job' = Pdu(u)'
    BY <1>1 DEF JobInv
  <2> QED BY <1>2, <1>4, <2>1 DEF JobInv
<1>6. HeardInv' /\ CardRunsWhatWasSent'
  BY DEF HeardInv, CardRunsWhatWasSent
<1>7. BoxInv'
  BY <1>2, <1>4 DEF BoxInv
<1> QED BY <1>3, <1>5, <1>6, <1>7

LEMMA SendShortMessageKeeps ==
  ASSUME GatewayInv, HandleSendShortMessage
  PROVE  GatewayInv'
<1>1. /\ UNCHANGED <<toolvars, submits, gw, job, smpp, history>> /\ UNCHANGED <<conf, por, queue, fetched, later>>
      /\ stage = "handle" /\ fetched.kind = "SendShortMessage" /\ Raises
  BY DEF HandleSendShortMessage, gwvars, toolvars, history, cardvars
<1>2. CardInv' /\ AnswerInv'
  BY <1>1, RaisesKeeps DEF GatewayInv, CardInv
<1>3. fetched \in Commands
  BY <1>1 DEF GatewayInv, CardInv
<1> DEFINE m == [kind |-> "mo", ud |-> FromCard(fetched).ud, pid |-> FromCard(fetched).pid]
<1>4. m \in Messages
  BY <1>1, <1>3 DEF Messages, Mos
<1>5. inbox' = inbox \/ (smpp # NoTool /\ inbox' = Put(inbox, smpp, m))
  BY DEF HandleSendShortMessage, FromCard
<1>6. CASE inbox' = inbox
  BY <1>1, <1>2, <1>6, LinkLeaves DEF netvars
<1>7. CASE smpp # NoTool /\ inbox' = Put(inbox, smpp, m)
  <2>1. smpp \in Tools
    BY <1>7 DEF GatewayInv, JobInv
  <2>2. m.kind = "mo" /\ m # [kind |-> "resp", status |-> "ESME_ROK"]
    <3>1. m.kind = "mo" /\ [kind |-> "resp", status |-> "ESME_ROK"].kind = "resp"
      OBVIOUS
    <3> QED BY <3>1
  <2> HIDE DEF m
  <2> QED BY <1>1, <1>2, <1>4, <1>7, <2>1, <2>2, InboxKeeps
<1> QED BY <1>5, <1>6, <1>7

LEMMA PduIs ==
  ASSUME ToolsInv, NEW t \in Tools, submits[t] # <<>>
  PROVE  t \in Encodes /\ Head(submits[t]) = Pdu(t) /\ Tail(submits[t]) = <<>> /\ Pdu(t).owner = t
<1>1. t \in Encodes /\ submits[t] = <<Pdu(t)>>
  BY DEF ToolsInv
<1>2. Pdu(t).owner = t
  BY DEF Pdu
<1> QED BY <1>1, <1>2

LEMMA DoneKeeps ==
  ASSUME GatewayInv, Done
  PROVE  GatewayInv'
<1> USE DEF GatewayInv
<1>1. /\ UNCHANGED <<conf, tool, answer, submits, gw, smpp, ran, heard, por, accepted, queue, fetched, later, stage, sw>>
      /\ job # NoJob /\ job' = NoJob /\ stage = "idle"
  BY DEF Done, toolvars, history, cardvars
<1>2. PICK t \in Encodes : job = Pdu(t)
  BY <1>1 DEF JobInv
<1>3. t \in Tools /\ job.owner = t
  BY <1>2 DEF Encodes, Pdu
<1>4. inbox \in [Tools -> Seq(Messages)]
  BY DEF ToolsInv
<1>5. Encodes' = Encodes /\ Messages' = Messages /\ Responses' = Responses /\ Commands' = Commands /\ \A u : Pdu(u)' = Pdu(u)
  BY <1>1, SameOptions
<1>6. /\ inbox' \in [Tools -> Seq(Messages)]
      /\ \A u \in Tools : \A m \in Said(inbox', u) :
           \/ m \in Said(inbox, u)
           \/ u = t /\ (m.kind = "report" => m.ud = por[t])
                    /\ (m = [kind |-> "resp", status |-> "ESME_ROK"] => t \in accepted)
  <2>1. CASE result = "ok"
    <3> DEFINE r == [kind |-> "report", ud |-> Joined(rv)]
               k == [kind |-> "resp", status |-> "ESME_ROK"]
               mid == Put(inbox, t, r)
    <3>1. t \in accepted /\ Joined(rv) = por[t]
      BY <1>1, <1>3, <2>1 DEF AnswerInv, Taken
    <3>2. por[t] \in Responses \cup {Nothing}
      BY <1>3 DEF AnswerInv
    <3>3. r \in Messages /\ k \in Messages
      BY <3>1, <3>2 DEF Messages, Reports, Resps
    <3>4. inbox' = Put(mid, t, k)
      BY <1>3, <2>1 DEF Done, Reply
    <3>5. r.kind = "report" /\ r.ud = por[t] /\ k.kind = "resp"
      BY <3>1
    <3> HIDE DEF r, k
    <3>6. /\ mid \in [Tools -> Seq(Messages)]
          /\ \A u \in Tools : \A m \in Said(mid, u) : m \in Said(inbox, u) \/ (u = t /\ m = r)
      BY <1>3, <1>4, <3>3, PutSays
    <3> HIDE DEF mid
    <3>7. /\ inbox' \in [Tools -> Seq(Messages)]
          /\ \A u \in Tools : \A m \in Said(inbox', u) : m \in Said(mid, u) \/ (u = t /\ m = k)
      BY <1>3, <3>3, <3>4, <3>6, PutSays
    <3> QED BY <3>1, <3>5, <3>6, <3>7
  <2>2. CASE result # "ok"
    <3> DEFINE x == [kind |-> "resp", status |-> "exception"]
    <3>1. x \in Messages /\ x.kind = "resp" /\ x # [kind |-> "resp", status |-> "ESME_ROK"]
      BY DEF Messages, Resps
    <3>2. inbox' = Put(inbox, t, x)
      BY <1>3, <2>2 DEF Done, Reply
    <3> HIDE DEF x
    <3>3. /\ inbox' \in [Tools -> Seq(Messages)]
          /\ \A u \in Tools : \A m \in Said(inbox', u) : m \in Said(inbox, u) \/ (u = t /\ m = x)
      BY <1>3, <1>4, <3>1, <3>2, PutSays
    <3> QED BY <3>1, <3>3
  <2> QED BY <2>1, <2>2
<1>7. \A u : Said(inbox, u)' = Said(inbox', u)
  BY DEF Said
<1>8. ToolsInv' /\ CardInv'
  BY <1>1, <1>5, <1>6 DEF ToolsInv, CardInv
<1>9. JobInv'
  <2>1. tool[t] # "start" /\ submits[t] = <<>>
    BY <1>3 DEF JobInv
  <2>2. NoJob.owner \notin Tools
    BY ToolsShape DEF NoJob
  <2> QED BY <1>1, <1>6, <1>7, <2>1, <2>2 DEF JobInv
<1>10. HeardInv' /\ AnswerInv' /\ CardRunsWhatWasSent'
  BY <1>1, <1>5 DEF HeardInv, AnswerInv, CardRunsWhatWasSent
<1>11. BoxInv'
  BY <1>1, <1>6, <1>7 DEF BoxInv
<1> QED BY <1>8, <1>9, <1>10, <1>11

\* a submit_sm the gateway does not ask the card about
LEMMA RefusalKeeps ==
  ASSUME GatewayInv, NEW t \in Tools, Handle(t), Refusal(Head(submits[t])) # ""
  PROVE  GatewayInv'
<1> USE DEF GatewayInv
<1>1. /\ UNCHANGED <<conf, tool, answer, gw, ran, heard, por, accepted, queue, fetched, later, stage, sw, job>>
      /\ gw = "serving" /\ job = NoJob /\ submits[t] # <<>> /\ submits' = [submits EXCEPT ![t] = Tail(@)] /\ smpp' = t
  BY DEF Handle, toolvars, history, cardvars, linkvars
<1>2. t \in Encodes /\ Tail(submits[t]) = <<>>
  BY <1>1, PduIs
<1> DEFINE m == [kind |-> "resp", status |-> Refusal(Head(submits[t]))]
<1>3. m \in Messages /\ m.kind = "resp" /\ m # [kind |-> "resp", status |-> "ESME_ROK"]
  <2>1. Refusal(Head(submits[t])) \in {"ESME_RINVCMDID", "ESME_RINVDCS", "exception"}
    BY DEF Refusal
  <2> QED BY <2>1 DEF Messages, Resps
<1>4. inbox' = Put(inbox, t, m)
  BY DEF Handle, Reply
<1> HIDE DEF m
<1>5. /\ inbox' \in [Tools -> Seq(Messages)]
      /\ \A u \in Tools : \A n \in Said(inbox', u) : n \in Said(inbox, u) \/ (u = t /\ n = m)
  BY <1>3, <1>4, PutSays DEF ToolsInv
<1>6. Encodes' = Encodes /\ Messages' = Messages /\ Responses' = Responses /\ Commands' = Commands /\ \A u : Pdu(u)' = Pdu(u)
  BY <1>1, SameOptions
<1>7. /\ DOMAIN submits' = Tools /\ submits'[t] = <<>> /\ \A u \in Tools : u # t => submits'[u] = submits[u]
  BY <1>1, <1>2 DEF ToolsInv
<1>8. ToolsInv' /\ CardInv'
  BY <1>1, <1>5, <1>6, <1>7 DEF ToolsInv, CardInv
<1>9. \A u : Said(inbox, u)' = Said(inbox', u)
  BY DEF Said
<1>10. JobInv'
  BY <1>1, <1>3, <1>5, <1>7, <1>9, ZenonT(40) DEF JobInv
<1>11. HeardInv' /\ AnswerInv' /\ CardRunsWhatWasSent'
  BY <1>1, <1>6 DEF HeardInv, AnswerInv, CardRunsWhatWasSent
<1>12. BoxInv'
  BY <1>1, <1>3, <1>5, <1>9 DEF BoxInv
<1> QED BY <1>8, <1>10, <1>11, <1>12

\* what the card parses of the SMS-DELIVER is what the submit_sm said
LEMMA HeardIs ==
  ASSUME NEW p, p.src.digits \in Seq(Int)
  PROVE  LET h == DeliverFromBytes(Deliver(p)) IN
         /\ h.oa = FromSmpp(p.src.digits, p.src.ton, p.src.npi)
         /\ h.pid = p.pid /\ h.udhi = p.udhi /\ h.ud = p.ud /\ h.udl = p.udl
<1> DEFINE d == DeliverFromSmpp(p)
<1>1. /\ d.scts = Scts /\ d.oa = FromSmpp(p.src.digits, p.src.ton, p.src.npi)
      /\ d.pid = p.pid /\ d.udhi = p.udhi /\ d.ud = p.ud /\ d.udl = p.udl
  BY DEF DeliverFromSmpp
<1>2. PICK digits : digits \in Seq(Int) /\ digits = p.src.digits
  OBVIOUS
<1>3. PICK ton, npi : d.oa = [digits |-> digits, ton |-> ton, npi |-> npi]
  BY <1>1, <1>2 DEF FromSmpp
<1> HIDE DEF d
<1>4. LET h == DeliverFromBytes(DeliverToBytes(d)) IN
      h.oa = d.oa /\ h.pid = d.pid /\ h.udhi = d.udhi /\ h.ud = d.ud /\ h.udl = d.udl
  <2>1. d.scts = Scts
    BY <1>1
  <2> QED BY <1>2, <1>3, <2>1, DeliverArrives
<1>5. Deliver(p) = DeliverToBytes(d)
  BY DEF Deliver, d
<1> QED BY <1>1, <1>4, <1>5

LEMMA ErrorIs ==
  ASSUME NEW w \in {Sw("93", 0), Sw("6f", 0), Sw("63", 0)}
  PROVE  w.c \in {"93", "6f", "63"}
BY DEF Sw

LEMMA SingleIsSeq ==
  ASSUME NEW S
  PROVE  <<>> \in Seq(S) /\ \A x \in S : <<x>> \in Seq(S)
OBVIOUS

\* The card's answer is still in its hands, all of it.
LEMMA RunAnswers ==
  ASSUME conf \in [Tools -> Configs], NEW t \in Encodes, later \in Seq(Responses), NEW q \in Seq(Commands), Run(Pdu(t), q)
  PROVE  /\ stage' = "command" /\ queue' \in Seq(Commands) /\ later' \in Seq(Responses)
         /\ sw'.c = "91" => queue' # <<>>
         /\ accepted' = accepted \cup {t} /\ \A r \in ran' : r \in ran \/ (r.id \in Tools /\ r.over = 0)
         /\ \E e \in Responses \cup {Nothing} :
              /\ por' = [por EXCEPT ![t] = e]
              /\ \/ e = Nothing /\ data' = <<>> /\ out' = <<>> /\ sw'.c \in {"90", "91"}
                 \/ /\ e \in Responses /\ data' = <<>> /\ out' = Parts(e)
                    /\ (sw'.c \in {"61", "9f", "6c"} /\ sw'.n = 2) \/ (sw'.c = "62" /\ sw'.n \in {0, 131})
<1> DEFINE p == Pdu(t)
           s == CardStatus(p.ud)
           m == Response(p.ud, s)
           direct == Wanted(p.ud, s) /\ ~p.ud.head.spi.por_in_submit
           bysms  == Wanted(p.ud, s) /\ p.ud.head.spi.por_in_submit
<1>1. p.ud = Packet(t) /\ p.owner = t
  BY DEF Pdu
<1> HIDE DEF p
<1>2. m \in Responses
  BY <1>1 DEF Responses, ResponseTo
<1>3. SendSms(m) \in Commands
  BY <1>2 DEF Commands
<1> HIDE DEF m, s
<1>4. /\ ran' = IF s = "por_ok" THEN ran \cup {[id |-> p.ud.body.plain.data.id, over |-> Over(p.ud)]} ELSE ran
      /\ accepted' = accepted \cup {t}
      /\ por' = [por EXCEPT ![t] = IF direct THEN m ELSE Nothing]
  BY <1>1 DEF Run, p, s, m
<1>5. \A r \in ran' : r \in ran \/ (r.id \in Tools /\ r.over = 0)
  <2>1. s = "por_ok" => p.ud.body.plain.data.id \in Tools /\ Over(p.ud) = 0
    BY <1>1, RunIsExact DEF s
  <2> QED BY <1>4, <2>1
<1>6. CASE direct
  <2>1. PICK w \in {Sw("61", 2), Sw("9f", 2), Sw("62", 0), Sw("62", 131)} : later' = later /\ Exchange("command", w, Parts(m), q)
    BY <1>6 DEF Run, p, s, m
  <2>2. (w.c \in {"61", "9f", "6c"} /\ w.n = 2) \/ (w.c = "62" /\ w.n \in {0, 131})
    BY DEF Sw
  <2>3. stage' = "command" /\ queue' = q /\ data' = <<>> /\ out' = Parts(m) /\ sw' = w
    BY <2>1 DEF Exchange
  <2> QED BY <1>2, <1>4, <1>5, <1>6, <2>1, <2>2, <2>3
<1>7. CASE ~direct
  <2>1. PICK n : /\ n = q \/ n = Append(q, SendSms(m))
                 /\ later' = later \/ later' = Append(later, m)
                 /\ Exchange("command", Final(n), <<>>, n)
    <3>1. \/ bysms /\ later' = Append(later, m) /\ Exchange("command", Final(q), <<>>, q)
          \/ later' = later /\ LET n == IF bysms THEN Append(q, SendSms(m)) ELSE q
                               IN Exchange("command", Final(n), <<>>, n)
      BY <1>7 DEF Run, p, s, m
    <3> QED BY <3>1
  <2>2. n \in Seq(Commands) /\ later' \in Seq(Responses)
    <3>1. Append(q, SendSms(m)) \in Seq(Commands)
      BY <1>3, AppendProperties
    <3>2. Append(later, m) \in Seq(Responses)
      BY <1>2, AppendProperties
    <3> QED BY <2>1, <3>1, <3>2
  <2>3. stage' = "command" /\ queue' = n /\ data' = <<>> /\ out' = <<>> /\ sw' = Final(n)
    BY <2>1 DEF Exchange
  <2> QED BY <1>4, <1>5, <1>7, <2>2, <2>3, FinalIs
<1> QED BY <1>6, <1>7

\* a submit_sm the card is asked about
LEMMA AskingKeeps ==
  ASSUME GatewayInv, NEW t \in Tools, Handle(t), Refusal(Head(submits[t])) = ""
  PROVE  GatewayInv'
<1> USE DEF GatewayInv
<1> DEFINE p == Head(submits[t])
<1>1. /\ UNCHANGED <<conf, tool, answer, gw, inbox, rv>>
      /\ gw = "serving" /\ job = NoJob /\ submits[t] # <<>> /\ submits' = [submits EXCEPT ![t] = Tail(@)] /\ smpp' = t
      /\ job' = p /\ heard' = DeliverFromBytes(Deliver(p)) /\ fetched' = Nothing
  BY DEF Handle, toolvars
<1>2. t \in Encodes /\ p = Pdu(t) /\ Tail(submits[t]) = <<>> /\ p.owner = t
  BY <1>1, PduIs
<1>3. \/ /\ stage' = "idle" /\ result' = "raised" /\ UNCHANGED <<sw, queue, later, ran, por, accepted>>
      \/ /\ \E w \in {Sw("93", 0), Sw("6f", 0), Sw("63", 0)} : Exchange("command", w, <<>>, queue)
         /\ UNCHANGED <<later, ran, por, accepted>>
      \/ \E q \in {<<>>} \cup {<<u>> : u \in Unrelated} : Run(p, q)
  BY DEF Handle
<1> HIDE DEF p
<1>4. Encodes' = Encodes /\ Messages' = Messages /\ Responses' = Responses /\ Commands' = Commands /\ \A u : Pdu(u)' = Pdu(u)
  BY <1>1, SameOptions
<1>5. /\ DOMAIN submits' = Tools /\ submits'[t] = <<>> /\ \A u \in Tools : u # t => submits'[u] = submits[u]
  BY <1>1, <1>2 DEF ToolsInv
<1>6. ToolsInv'
  BY <1>1, <1>4, <1>5 DEF ToolsInv
<1>7. \A u : Said(inbox, u)' = Said(inbox, u)
  BY <1>1 DEF Said
<1>8. tool[t] # "start" /\ \A m \in Said(inbox, t) : m.kind # "report"
  BY <1>1 DEF JobInv
<1>9. JobInv'
  <2>1. \E u \in Encodes' : job' = Pdu(u)'
    BY <1>1, <1>2, <1>4
  <2> QED BY <1>1, <1>2, <1>5, <1>7, <1>8, <2>1 DEF JobInv
<1>10. HeardInv'
  <2>1. p.src.digits \in Seq(Int)
    BY <1>2, ConfigsShape DEF ToolsInv, Encodes, Pdu
  <2> QED BY <1>1, <2>1, HeardIs DEF HeardInv
<1>11. CASE stage' = "idle" /\ result' = "raised" /\ UNCHANGED <<sw, queue, later, ran, por, accepted>>
  <2>1. CardInv'
    BY <1>1, <1>4, <1>11 DEF CardInv
  <2>2. AnswerInv' /\ CardRunsWhatWasSent'
    BY <1>4, <1>11 DEF AnswerInv, CardRunsWhatWasSent
  <2>3. BoxInv'
    BY <1>7, <1>11 DEF BoxInv
  <2> QED BY <1>6, <1>9, <1>10, <2>1, <2>2, <2>3
<1>12. CASE /\ \E w \in {Sw("93", 0), Sw("6f", 0), Sw("63", 0)} : Exchange("command", w, <<>>, queue)
            /\ UNCHANGED <<later, ran, por, accepted>>
  <2>1. stage' = "command" /\ sw'.c \in {"93", "6f", "63"} /\ out' = <<>> /\ queue' = queue
    <3>1. PICK w \in {Sw("93", 0), Sw("6f", 0), Sw("63", 0)} : Exchange("command", w, <<>>, queue)
      BY <1>12
    <3>2. w.c \in {"93", "6f", "63"}
      BY ErrorIs
    <3> QED BY <3>1, <3>2 DEF Exchange
  <2>2. CardInv'
    BY <1>1, <1>4, <1>12, <2>1 DEF CardInv
  <2>3. AnswerInv' /\ CardRunsWhatWasSent'
    BY <1>4, <1>12, <2>1 DEF AnswerInv, CardRunsWhatWasSent, Failing
  <2>4. BoxInv'
    BY <1>7, <1>12 DEF BoxInv
  <2> QED BY <1>6, <1>9, <1>10, <2>2, <2>3, <2>4
<1>13. CASE \E q \in {<<>>} \cup {<<u>> : u \in Unrelated} : Run(p, q)
  <2>1. PICK q \in {<<>>} \cup {<<u>> : u \in Unrelated} : Run(Pdu(t), q)
    BY <1>2, <1>13
  <2>2. q \in Seq(Commands)
    <3>1. Unrelated \subseteq Commands
      BY DEF Commands
    <3> QED BY <3>1, SingleIsSeq, Zenon
  <2>3. PICK e \in Responses \cup {Nothing} :
              /\ por' = [por EXCEPT ![t] = e]
              /\ \/ e = Nothing /\ data' = <<>> /\ out' = <<>> /\ sw'.c \in {"90", "91"}
                 \/ /\ e \in Responses /\ data' = <<>> /\ out' = Parts(e)
                    /\ (sw'.c \in {"61", "9f", "6c"} /\ sw'.n = 2) \/ (sw'.c = "62" /\ sw'.n \in {0, 131})
    BY <1>2, <2>1, <2>2, RunAnswers DEF ToolsInv, CardInv
  <2>4. /\ stage' = "command" /\ queue' \in Seq(Commands) /\ later' \in Seq(Responses)
        /\ sw'.c = "91" => queue' # <<>>
        /\ accepted' = accepted \cup {t} /\ \A r \in ran' : r \in ran \/ (r.id \in Tools /\ r.over = 0)
    BY <1>2, <2>1, <2>2, RunAnswers DEF ToolsInv, CardInv
  <2>5. CardInv'
    BY <1>1, <1>4, <2>4 DEF CardInv
  <2>6. /\ por' \in [Tools -> Responses \cup {Nothing}] /\ por'[t] = e
        /\ \A u \in Tools : u # t => por'[u] = por[u]
    BY <2>3, ZenonT(40) DEF AnswerInv
  <2>7. AnswerInv'
    <3>1. job'.owner = t /\ t \in accepted'
      BY <1>1, <1>2, <2>4
    <3> QED BY <1>4, <2>3, <2>4, <2>6, <3>1 DEF AnswerInv, Reading
  <2>8. CardRunsWhatWasSent'
    BY <2>4 DEF CardRunsWhatWasSent
  <2>9. BoxInv'
    BY <1>7, <1>8, <2>4, <2>6 DEF BoxInv
  <2> QED BY <1>6, <1>9, <1>10, <2>5, <2>7, <2>8, <2>9
<1> QED BY <1>3, <1>11, <1>12, <1>13

-----------------------------------------------------------------------------
(* The theorems.                                                           *)

LEMMA InitIsRight ==
  ASSUME Init
  PROVE  GatewayInv /\ ReadInv
<1> USE DEF Init, LinkInit
<1>1. ToolsInv
  <2>1. <<>> \in Seq(Messages)
    BY SingleIsSeq
  <2>2. inbox \in [Tools -> Seq(Messages)]
    BY <2>1
  <2> QED BY <2>2 DEF ToolsInv
<1>2. CardInv
  <2>1. <<>> \in Seq(Commands) /\ <<>> \in Seq(Responses)
    BY SingleIsSeq
  <2> QED BY <2>1 DEF CardInv, NoSw, Sw
<1>3. \A t \in Tools : Said(inbox, t) = {}
  BY DEF Said
<1>4. JobInv
  <2>1. NoJob.owner \notin Tools
    BY ToolsShape DEF NoJob
  <2> QED BY <1>3, <2>1 DEF JobInv
<1>5. HeardInv /\ AnswerInv /\ CardRunsWhatWasSent
  BY DEF HeardInv, AnswerInv, CardRunsWhatWasSent
<1>6. BoxInv
  BY <1>3 DEF BoxInv
<1>7. ReadInv
  BY DEF ReadInv
<1> QED BY <1>1, <1>2, <1>4, <1>5, <1>6, <1>7 DEF GatewayInv

LEMMA StepKeeps ==
  ASSUME GatewayInv, [Next]_vars
  PROVE  GatewayInv'
<1>1. CASE UNCHANGED vars
  <2>1. /\ UNCHANGED <<toolvars, netvars, gw, job, smpp, history>> /\ UNCHANGED <<conf, por, accepted, later, queue, fetched>>
        /\ UNCHANGED <<stage, data, sw, rv, result, out>>
    BY <1>1 DEF vars, toolvars, netvars, gwvars, history, cardvars, linkvars
  <2>2. Responses' = Responses /\ Commands' = Commands
    BY <2>1, SameOptions
  <2>3. CardInv'
    BY <2>1, <2>2 DEF CardInv, GatewayInv
  <2>4. AnswerInv'
    <3>1. job' = job
      BY <2>1
    <3> QED BY <2>1, <2>2, <3>1 DEF AnswerInv, GatewayInv, Failing, Reading, Taken
  <2> QED BY <2>1, <2>3, <2>4, LinkLeaves
<1>2. CASE Link \/ LinkLost
  BY <1>2, LinkKeeps
<1>3. CASE HandleAnswered \/ HandleOpenChannel \/ HandleNot
  BY <1>3, HandlersKeep
<1>4. CASE StartUp
  BY <1>4, StartUpKeeps
<1>5. CASE Started
  BY <1>5, StartedKeeps
<1>6. CASE Done
  BY <1>6, DoneKeeps
<1>7. CASE HandleSendShortMessage
  BY <1>7, SendShortMessageKeeps
<1>8. CASE \E t \in Tools : Submit(t)
  BY <1>8, SubmitKeeps
<1>9. CASE \E t \in Tools : Poll(t) \/ Finished(t) \/ TimeUp(t)
  BY <1>9, ReaderKeeps
<1>10. CASE \E t \in Tools : Handle(t)
  BY <1>10, RefusalKeeps, AskingKeeps
<1> QED BY <1>1, <1>2, <1>3, <1>4, <1>5, <1>6, <1>7, <1>8, <1>9, <1>10 DEF Next, GatewayStep

LEMMA GatewayIsRight == Spec => []GatewayInv
<1>1. Init => GatewayInv
  BY InitIsRight
<1>2. GatewayInv /\ [Next]_vars => GatewayInv'
  BY StepKeeps
<1> QED BY <1>1, <1>2, PTL DEF Spec

\* What the card parses and runs is what the tool submitted, for any options,
\* lengths, addresses, ciphers and checksums: handle_submit_sm, SMS_DELIVER's
\* to_bytes and from_bytes, encode_cmd's padding.
THEOREM CommandsArrive == Spec => []CommandArrives
<1>1. GatewayInv => CommandArrives
  <2>1. HeardInv => MessageArrives
    BY DEF HeardInv, MessageArrives
  <2> QED BY <2>1 DEF GatewayInv, CommandArrives
<1> QED BY <1>1, GatewayIsRight, PTL

\* A tool is told all of what the card answered to its own ENVELOPE, however
\* the answer had to be fetched and whatever proactive commands came between,
\* and ESME_ROK only for a message the card took: send_apdu_checksw.
THEOREM AnswersArrive == Spec => []AnswerArrives
<1>1. GatewayInv => AnswerArrives
  <2>1. ASSUME BoxInv PROVE RelayedIsWhole /\ OkMeansAccepted
    <3>1. \A t \in Tools : \A i \in DOMAIN inbox[t] : inbox[t][i] \in Said(inbox, t)
      BY DEF Said
    <3> QED BY <2>1, <3>1 DEF BoxInv, RelayedIsWhole, OkMeansAccepted
  <2> QED BY <2>1 DEF GatewayInv, AnswerArrives
<1> QED BY <1>1, GatewayIsRight, PTL

\* The user data of every message is a response of the card, or none.
LEMMA WhatIsRead ==
  ASSUME conf \in [Tools -> Configs], NEW p \in Messages, p.kind # "resp", p.ud # Nothing
  PROVE  p.ud \in Responses \/ ~p.ud.rpi
<1>1. CASE p \in Mos
  <2>1. PICK c \in Commands : c.kind = "SendShortMessage" /\ p.ud = FromCard(c).ud
    BY <1>1 DEF Mos
  <2>2. p.ud = SubmitFromBytes(c.tpdu).ud
    BY <2>1 DEF FromCard, DeliverFromSubmit, DeliverToSmpp
  <2>3. CASE c \in Unrelated
    BY <2>1, <2>2, <2>3, UnrelatedShape
  <2>4. CASE c \notin Unrelated
    <3>1. PICK m \in Responses : c = SendSms(m)
      BY <2>4 DEF Commands
    <3> DEFINE s == [rd |-> FALSE, vpf |-> "none", rp |-> FALSE, udhi |-> TRUE, srr |-> FALSE, mr |-> 0,
                     da |-> [digits |-> <<1, 2, 7>>, ton |-> "international", npi |-> "isdn_e164"],
                     pid |-> 127, dcs |-> BinaryDcs, vp |-> <<>>, udl |-> 3 + m.len, ud |-> m]
    <3>2. c.tpdu = SubmitToBytes(s)
      BY <3>1 DEF SendSms
    <3>3. PICK digits \in Seq(Int) : digits = <<1, 2, 7>>
      <4>1. <<1, 2, 7>> \in Seq(Int)
        OBVIOUS
      <4> QED BY <4>1, Zenon
    <3>4. PICK ton, npi : s.da = [digits |-> digits, ton |-> ton, npi |-> npi]
      BY <3>3
    <3>5. s.vpf = "none" /\ s.vp = <<>> /\ s.ud = m
      OBVIOUS
    <3> HIDE DEF s
    <3>6. SubmitFromBytes(SubmitToBytes(s)).ud = s.ud
      BY <3>4, <3>5, SubmitArrives
    <3> QED BY <2>2, <3>2, <3>5, <3>6
  <2> QED BY <2>3, <2>4
<1>2. CASE p \in Reports
  BY <1>2 DEF Reports
<1>3. p \notin Resps
  BY DEF Resps
<1> QED BY <1>1, <1>2, <1>3 DEF Messages

LEMMA ReadKeeps ==
  ASSUME GatewayInv, ReadInv, AllSigned, KidsAreTheirs, KidsAreGiven, [Next]_vars
  PROVE  ReadInv'
<1>1. /\ conf \in [Tools -> Configs] /\ tool \in [Tools -> {"start", "wait", "done", "failed"}]
      /\ DOMAIN answer = Tools /\ inbox \in [Tools -> Seq(Messages)]
  BY DEF GatewayInv, ToolsInv
<1>2. CASE answer' = answer /\ \A u \in Tools : tool'[u] = "done" => tool[u] = "done"
  BY <1>2 DEF ReadInv
<1>3. CASE \E t \in Tools : Poll(t)
  <2>1. PICK t \in Tools : Poll(t)
    BY <1>3
  <2> DEFINE p == Head(inbox[t])
             r == Received(t, p.ud)
  <2>2. tool[t] = "wait" /\ inbox[t] # <<>>
    BY <2>1 DEF Poll, Listening
  <2>3. p \in Messages
    BY <1>1, <2>2
  <2>4. \A u \in Tools : tool'[u] = "done" => tool[u] = "done"
    <3>1. tool' = tool \/ tool' = [tool EXCEPT ![t] = "failed"] \/ tool' = [tool EXCEPT ![t] = tool[t]]
      BY <2>1, Zenon DEF Poll
    <3> QED BY <1>1, <2>2, <3>1
  <2>5. \/ answer' = answer
        \/ p.kind # "resp" /\ p.ud # Nothing /\ ~Raised(r) /\ answer' = [answer EXCEPT ![t] = r]
    BY <2>1, Zenon DEF Poll
  <2> HIDE DEF p, r
  <2>6. CASE p.kind # "resp" /\ p.ud # Nothing /\ ~Raised(r) /\ answer' = [answer EXCEPT ![t] = r]
    <3>1. p.ud \in Responses \/ ~p.ud.rpi
      BY <1>1, <2>3, <2>6, WhatIsRead
    <3>2. r.dec \in {"none", t}
      BY <1>1, <2>6, <3>1, DecodedIsMine DEF r
    <3>3. answer'[t] = r /\ \A u \in Tools : u # t => answer'[u] = answer[u]
      BY <1>1, <2>6
    <3>4. tool'[t] # "done"
      BY <2>2, <2>4
    <3> QED BY <2>4, <3>2, <3>3, <3>4 DEF ReadInv
  <2> QED BY <1>2, <2>4, <2>5, <2>6
<1>4. CASE \E t \in Tools : Finished(t)
  <2>1. PICK t \in Tools : Finished(t)
    BY <1>4
  <2>2. /\ answer[t] # Nothing /\ answer' = answer
        /\ tool' = [tool EXCEPT ![t] = IF answer[t].dec = "none" THEN "failed" ELSE "done"]
    BY <2>1 DEF Finished
  <2> QED BY <1>1, <2>2 DEF ReadInv
<1>5. CASE \E t \in Tools : Submit(t) \/ TimeUp(t)
  <2>1. PICK t \in Tools : Submit(t) \/ TimeUp(t)
    BY <1>5
  <2>2. answer' = answer /\ (tool' = [tool EXCEPT ![t] = "failed"] \/ tool' = [tool EXCEPT ![t] = "wait"])
    BY <2>1 DEF Submit, TimeUp
  <2> QED BY <1>1, <1>2, <2>2
<1>6. CASE UNCHANGED vars \/ GatewayStep \/ LinkLost \/ \E t \in Tools : Handle(t)
  <2>1. answer' = answer /\ tool' = tool
    BY <1>6 DEF vars, toolvars, GatewayStep, StartUp, Started, Done, Link, HandleAnswered, HandleOpenChannel,
       HandleSendShortMessage, HandleNot, LinkLost, Handle
  <2> QED BY <1>2, <2>1
<1> QED BY <1>3, <1>4, <1>5, <1>6 DEF Next

\* A tool that asked for a signed PoR prints the answer to its own command,
\* if no other tool has its key and the KID it was given is the card's:
\* message_received_handler, decode_resp.
THEOREM SignedAnswersAreMine ==
  ASSUME KidsAreGiven
  PROVE  Spec => []SignedAnswerIsMine
<1> DEFINE Mine == AllSigned /\ KidsAreTheirs => ReadInv
<1>1. Init => Mine
  BY InitIsRight
<1>2. ASSUME GatewayInv, Mine, [Next]_vars PROVE Mine'
  <2>1. conf' = conf
    BY <1>2 DEF vars, toolvars, Next, GatewayStep, StartUp, Started, Done, Link, HandleAnswered, HandleOpenChannel,
       HandleSendShortMessage, HandleNot, LinkLost, Handle, Submit, Poll, Finished, TimeUp
  <2>2. AllSigned' = AllSigned /\ KidsAreTheirs' = KidsAreTheirs
    BY <2>1 DEF AllSigned, KidsAreTheirs
  <2> QED BY <1>2, <2>2, ReadKeeps
<1>3. Mine => SignedAnswerIsMine
  BY DEF ReadInv, SignedAnswerIsMine, AllSigned, KidsAreTheirs
<1> HIDE DEF Mine
<1> QED BY <1>1, <1>2, <1>3, GatewayIsRight, PTL DEF Spec
=============================================================================
