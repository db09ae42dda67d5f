--------------------------- MODULE TlsOutputProofs ---------------------------
(***************************************************************************)
(* What the library seals reaches the platform in its order, whether a     *)
(* flush or an operation carries it, and a generation the platform has is  *)
(* none of the others.  First what an operation of the send half does to   *)
(* the generations, then what the platform has of them and what it posted, *)
(* then each operation of the socket and each handler of its owner: the    *)
(* output of a socket is whole, on the wire, in the platform or waiting.   *)
(***************************************************************************)
EXTENDS TlsConnectionProofs

-----------------------------------------------------------------------------
(* Lists of generations.                                                   *)

Listed(q) == {q[i] : i \in DOMAIN q}
Distinct(q) == \A i, j \in DOMAIN q : q[i] = q[j] => i = j

LEMMA DomainOf ==
  ASSUME NEW S, NEW q \in Seq(S)
  PROVE  DOMAIN q = 1 .. Len(q) /\ Len(q) \in Nat /\ \A i \in 1 .. Len(q) : q[i] \in S
OBVIOUS

LEMMA OneOf ==
  ASSUME NEW S, NEW x \in S
  PROVE  <<x>> \in Seq(S) /\ Len(<<x>>) = 1 /\ <<x>>[1] = x /\ DOMAIN <<x>> = 1 .. 1
OBVIOUS

LEMMA NothingListed ==
  Listed(<<>>) = {} /\ Distinct(<<>>)
BY DEF Listed, Distinct

LEMMA ListedAppend ==
  ASSUME NEW S, NEW q \in Seq(S), NEW x \in S
  PROVE  /\ Listed(Append(q, x)) = Listed(q) \cup {x}
         /\ Distinct(q) /\ x \notin Listed(q) => Distinct(Append(q, x))
<1>1. PICK n \in Nat : n = Len(q) /\ DOMAIN q = 1 .. n
  OBVIOUS
<1>2. PICK p \in Seq(S) : /\ p = Append(q, x) /\ DOMAIN p = 1 .. n + 1 /\ p[n + 1] = x
                          /\ \A i \in 1 .. n : p[i] = q[i]
  <2>1. /\ Append(q, x) \in Seq(S) /\ Len(Append(q, x)) = Len(q) + 1
        /\ \A i \in 1 .. Len(q) : Append(q, x)[i] = q[i]
        /\ Append(q, x)[Len(q) + 1] = x
    BY AppendProperties
  <2>2. DOMAIN Append(q, x) = 1 .. Len(Append(q, x))
    BY <2>1, DomainOf
  <2> QED  BY <1>1, <2>1, <2>2
<1>3. \A i \in 1 .. n + 1 : i = n + 1 \/ i \in 1 .. n
  OBVIOUS
<1>4. n + 1 \in 1 .. n + 1 /\ \A i \in 1 .. n : i \in 1 .. n + 1
  OBVIOUS
<1>5. Listed(p) = Listed(q) \cup {x}
  BY <1>1, <1>2, <1>3, <1>4 DEF Listed
<1>6. ASSUME Distinct(q), x \notin Listed(q)
      PROVE  Distinct(p)
  <2>1. \A i \in 1 .. n : q[i] # x
    BY <1>1, <1>6 DEF Listed
  <2> QED  BY <1>1, <1>2, <1>3, <1>6, <2>1 DEF Distinct
<1> QED  BY <1>2, <1>5, <1>6

LEMMA ListedJoined ==
  ASSUME NEW S, NEW p \in Seq(S), NEW q \in Seq(S)
  PROVE  Listed(Joined(p, q)) = Listed(p) \cup Listed(q)
<1>1. PICK n \in Nat : n = Len(p) /\ DOMAIN p = 1 .. n
  OBVIOUS
<1>2. PICK m \in Nat : m = Len(q) /\ DOMAIN q = 1 .. m
  OBVIOUS
<1>3. PICK j \in Seq(S) : /\ j = Joined(p, q) /\ DOMAIN j = 1 .. n + m
                          /\ \A i \in 1 .. n : j[i] = p[i]
                          /\ \A i \in 1 .. m : j[n + i] = q[i]
  <2>1. Joined(p, q) \in Seq(S) /\ Len(Joined(p, q)) = Len(p) + Len(q)
    BY JoinedIs
  <2>2. \A i \in 1 .. Len(p) : Joined(p, q)[i] = p[i]
    BY JoinedIs
  <2>3. \A i \in 1 .. Len(q) : Joined(p, q)[Len(p) + i] = q[i]
    BY JoinedIs
  <2> QED  BY <1>1, <1>2, <2>1, <2>2, <2>3
<1>4. \A i \in 1 .. n + m : i \in 1 .. n \/ \E k \in 1 .. m : i = n + k
  <2> TAKE i \in 1 .. n + m
  <2>1. CASE i > n
    <3>1. i - n \in 1 .. m /\ i = n + (i - n)
      BY <2>1
    <3> QED  BY <3>1
  <2> QED  BY <2>1
<1>5. \A i \in 1 .. n : i \in 1 .. n + m
  OBVIOUS
<1>6. \A i \in 1 .. m : n + i \in 1 .. n + m
  OBVIOUS
<1>7. Listed(j) \subseteq Listed(p) \cup Listed(q)
  <2> SUFFICES ASSUME NEW i \in 1 .. n + m PROVE j[i] \in Listed(p) \cup Listed(q)
    BY ZenonT(60), <1>3 DEF Listed
  <2>1. CASE i \in 1 .. n
    BY <1>1, <1>3, <2>1 DEF Listed
  <2>2. CASE \E k \in 1 .. m : i = n + k
    BY <1>2, <1>3, <2>2 DEF Listed
  <2> QED  BY <1>4, <2>1, <2>2
<1>8. Listed(p) \subseteq Listed(j)
  BY <1>1, <1>3, <1>5 DEF Listed
<1>9. Listed(q) \subseteq Listed(j)
  BY SMTT(60), <1>2, <1>3, <1>6 DEF Listed
<1> QED  BY <1>3, <1>7, <1>8, <1>9

\* A sequence by its first element.
LEMMA FirstOf ==
  ASSUME NEW S, NEW q \in Seq(S), q # <<>>
  PROVE  /\ Head(q) \in S /\ Tail(q) \in Seq(S) /\ Len(q) \in Nat /\ Len(q) >= 1
         /\ Len(Tail(q)) = Len(q) - 1
         /\ q[1] = Head(q) /\ \A i \in 1 .. Len(q) - 1 : Tail(q)[i] = q[i + 1]
         /\ q = Joined(<<Head(q)>>, Tail(q))
<1>1. /\ Head(q) \in S /\ Tail(q) \in Seq(S) /\ Len(q) \in Nat /\ Len(q) >= 1
      /\ Len(Tail(q)) = Len(q) - 1 /\ q[1] = Head(q)
      /\ \A i \in 1 .. Len(q) - 1 : Tail(q)[i] = q[i + 1]
  OBVIOUS
<1>2. PICK x \in S : x = Head(q)
  BY <1>1
<1>3. PICK t \in Seq(S) : t = Tail(q)
  BY <1>1
<1>4. PICK o \in Seq(S) : o = <<x>> /\ Len(o) = 1 /\ o[1] = x
  BY OneOf
<1>5. PICK j \in Seq(S) : /\ j = Joined(o, t) /\ Len(j) = 1 + Len(t)
                          /\ j[1] = x /\ \A i \in 1 .. Len(t) : j[1 + i] = t[i]
  <2>1. Joined(o, t) \in Seq(S) /\ Len(Joined(o, t)) = Len(o) + Len(t)
    BY JoinedIs
  <2>2. \A i \in 1 .. Len(o) : Joined(o, t)[i] = o[i]
    BY JoinedIs
  <2>3. \A i \in 1 .. Len(t) : Joined(o, t)[Len(o) + i] = t[i]
    BY JoinedIs
  <2>4. 1 \in 1 .. Len(o)
    BY <1>4
  <2> QED  BY <1>4, <2>1, <2>2, <2>3, <2>4
<1>6. Len(j) = Len(q)
  BY <1>1, <1>3, <1>5
<1>7. \A i \in 1 .. Len(q) : j[i] = q[i]
  <2> TAKE i \in 1 .. Len(q)
  <2>1. CASE i = 1
    BY <1>1, <1>2, <1>5, <2>1
  <2>2. CASE i # 1
    <3>1. PICK k \in 1 .. Len(t) : i = k + 1 /\ i = 1 + k
      <4>1. i - 1 \in 1 .. Len(t) /\ i = (i - 1) + 1
        BY <1>1, <1>3, <2>2
      <4> QED  BY <4>1
    <3>2. k \in 1 .. Len(q) - 1
      BY <1>1, <1>3, <3>1
    <3>3. t[k] = q[k + 1]
      BY <1>1, <1>3, <3>2
    <3> QED  BY <1>5, <3>1, <3>3
  <2> QED  BY <2>1, <2>2
<1>8. j = q
  BY <1>6, <1>7, SeqEqual
<1> QED  BY <1>1, <1>2, <1>3, <1>4, <1>5, <1>8

LEMMA ListedTail ==
  ASSUME NEW S, NEW q \in Seq(S), q # <<>>
  PROVE  /\ Listed(q) = {Head(q)} \cup Listed(Tail(q))
         /\ Distinct(q) => Distinct(Tail(q)) /\ Head(q) \notin Listed(Tail(q))
<1>1. PICK n \in Nat : n = Len(q) /\ n >= 1 /\ DOMAIN q = 1 .. n /\ q[1] = Head(q)
  BY FirstOf
<1>2. PICK t \in Seq(S) : /\ t = Tail(q) /\ DOMAIN t = 1 .. n - 1
                          /\ \A i \in 1 .. n - 1 : t[i] = q[i + 1]
  <2>1. Tail(q) \in Seq(S) /\ Len(Tail(q)) = Len(q) - 1
    BY FirstOf
  <2>2. \A i \in 1 .. Len(q) - 1 : Tail(q)[i] = q[i + 1]
    BY FirstOf
  <2>3. DOMAIN Tail(q) = 1 .. Len(Tail(q))
    BY <2>1, DomainOf
  <2> QED  BY <1>1, <2>1, <2>2, <2>3
<1>3. \A i \in 1 .. n : i = 1 \/ \E k \in 1 .. n - 1 : i = k + 1
  <2> TAKE i \in 1 .. n
  <2>1. CASE i # 1
    <3>1. i - 1 \in 1 .. n - 1 /\ i = (i - 1) + 1
      BY <2>1
    <3> QED  BY <3>1
  <2> QED  BY <2>1
<1>4. 1 \in 1 .. n /\ \A k \in 1 .. n - 1 : k + 1 \in 1 .. n /\ k + 1 # 1
  BY <1>1
<1>5. Listed(q) \subseteq {q[1]} \cup Listed(t)
  <2> SUFFICES ASSUME NEW i \in 1 .. n PROVE q[i] \in {q[1]} \cup Listed(t)
    BY <1>1 DEF Listed
  <2>1. ASSUME NEW k \in 1 .. n - 1, i = k + 1 PROVE q[i] \in Listed(t)
    <3>1. t[k] = q[i]
      BY ONLY <1>2, <2>1
    <3>2. t[k] \in {t[j] : j \in DOMAIN t}
      BY ONLY <1>2, <2>1
    <3> QED  BY ONLY <3>1, <3>2 DEF Listed
  <2> QED  BY ONLY <1>3, <2>1, i \in 1 .. n
<1>6. {q[1]} \cup Listed(t) \subseteq Listed(q)
  BY <1>1, <1>2, <1>4 DEF Listed
<1>7. ASSUME Distinct(q)
      PROVE  Distinct(t) /\ q[1] \notin Listed(t)
  <2>1. \A i, k \in 1 .. n : q[i] = q[k] => i = k
    BY <1>1, <1>7 DEF Distinct
  <2>2. Distinct(t)
    <3> SUFFICES ASSUME NEW i \in 1 .. n - 1, NEW k \in 1 .. n - 1, t[i] = t[k] PROVE i = k
      BY <1>2 DEF Distinct
    <3>1. i + 1 \in 1 .. n /\ k + 1 \in 1 .. n /\ q[i + 1] = q[k + 1]
      BY <1>2, <1>4
    <3>2. i + 1 = k + 1
      BY <2>1, <3>1
    <3> QED  BY <3>2
  <2>3. \A k \in 1 .. n - 1 : q[1] # q[k + 1]
    BY <1>4, <2>1
  <2> QED  BY <1>2, <2>2, <2>3 DEF Listed
<1> QED  BY <1>1, <1>2, <1>5, <1>6, <1>7

LEMMA ListedPut ==
  ASSUME NEW S, NEW x \in S, NEW q \in Seq(S)
  PROVE  /\ Joined(<<x>>, q) \in Seq(S) /\ Joined(<<x>>, q) # <<>>
         /\ Listed(Joined(<<x>>, q)) = {x} \cup Listed(q)
         /\ Distinct(q) /\ x \notin Listed(q) => Distinct(Joined(<<x>>, q))
<1>1. PICK o \in Seq(S) : o = <<x>> /\ Len(o) = 1 /\ o[1] = x /\ DOMAIN o = 1 .. 1
  BY OneOf
<1>2. PICK n \in Nat : n = Len(q) /\ DOMAIN q = 1 .. n
  OBVIOUS
<1>3. PICK j \in Seq(S) : /\ j = Joined(o, q) /\ Len(j) = 1 + n /\ DOMAIN j = 1 .. 1 + n
                          /\ j[1] = x /\ \A i \in 1 .. n : j[1 + i] = q[i]
  <2>1. Joined(o, q) \in Seq(S) /\ Len(Joined(o, q)) = Len(o) + Len(q)
    BY JoinedIs
  <2>2. \A i \in 1 .. Len(o) : Joined(o, q)[i] = o[i]
    BY JoinedIs
  <2>3. \A i \in 1 .. Len(q) : Joined(o, q)[Len(o) + i] = q[i]
    BY JoinedIs
  <2>4. 1 \in 1 .. Len(o)
    BY <1>1
  <2> QED  BY <1>1, <1>2, <2>1, <2>2, <2>3, <2>4
<1>4. Listed(o) = {x}
  BY <1>1 DEF Listed
<1>5. Listed(j) = {x} \cup Listed(q)
  BY <1>3, <1>4, ListedJoined
<1>6. j # <<>>
  BY <1>3
<1>7. ASSUME Distinct(q), x \notin Listed(q)
      PROVE  Distinct(j)
  <2>1. \A i \in 1 .. n : q[i] # x
    BY <1>2, <1>7 DEF Listed
  <2>2. \A i \in 1 .. 1 + n : i = 1 \/ \E k \in 1 .. n : i = 1 + k
    <3> TAKE i \in 1 .. 1 + n
    <3>1. CASE i # 1
      <4>1. i - 1 \in 1 .. n /\ i = 1 + (i - 1)
        BY <3>1
      <4> QED  BY <4>1
    <3> QED  BY <3>1
  <2>3. \A i \in 1 .. n : j[1 + i] = q[i] /\ j[1 + i] # j[1]
    BY <1>3, <2>1
  <2>4. \A i, k \in 1 .. n : q[i] = q[k] => i = k
    BY <1>2, <1>7 DEF Distinct
  <2> SUFFICES ASSUME NEW a \in 1 .. 1 + n, NEW b \in 1 .. 1 + n, j[a] = j[b] PROVE a = b
    BY <1>3 DEF Distinct
  <2>5. CASE a = 1 \/ b = 1
    BY <2>2, <2>3, <2>5
  <2>6. CASE a # 1 /\ b # 1
    <3>1. PICK i \in 1 .. n : a = 1 + i
      BY <2>2, <2>6
    <3>2. PICK k \in 1 .. n : b = 1 + k
      BY <2>2, <2>6
    <3>3. q[i] = q[k]
      BY <2>3, <3>1, <3>2
    <3> QED  BY <2>4, <3>1, <3>2, <3>3
  <2> QED  BY <2>5, <2>6
<1> QED  BY <1>1, <1>3, <1>5, <1>6, <1>7

-----------------------------------------------------------------------------
(* The generations of the send half.                                       *)

Generation == [records : Datas, pinned : Nat]

\* The records of some generations, one after the other.
RecordsOf(out, q) == [k \in 1 .. Len(q) |-> out[q[k]].records]
Unsent(out, q) == Concatenated(RecordsOf(out, q))

Generations(out) == out \in Seq(Generation)

LEMMA RecordsAre ==
  ASSUME NEW out, Generations(out), NEW b \in DOMAIN out
  PROVE  out[b] \in Generation /\ out[b].records \in Datas /\ out[b].pinned \in Nat /\ b \in Nat
         /\ DOMAIN out[b] = {"records", "pinned"}
<1>1. out[b] \in Generation /\ b \in Nat
  <2>1. PICK n \in Nat : n = Len(out) /\ DOMAIN out = 1 .. n
    BY DEF Generations
  <2> QED  BY <2>1, DomainOf DEF Generations
<1>2. out[b] \in [records : Datas, pinned : Nat]
  BY <1>1 DEF Generation
<1> QED  BY <1>1, <1>2

LEMMA RecordsOfType ==
  ASSUME NEW out, Generations(out), NEW q \in Seq(Nat), Listed(q) \subseteq DOMAIN out
  PROVE  RecordsOf(out, q) \in Seq(Datas) /\ Len(RecordsOf(out, q)) = Len(q)
<1>1. PICK n \in Nat : n = Len(q) /\ DOMAIN q = 1 .. n
  OBVIOUS
<1>2. \A k \in 1 .. n : out[q[k]].records \in Datas
  BY <1>1, RecordsAre DEF Listed
<1>3. PICK f : f = [k \in 1 .. n |-> out[q[k]].records]
  OBVIOUS
<1>4. f \in [1 .. n -> Datas]
  BY <1>2, <1>3
<1>5. f \in Seq(Datas) /\ Len(f) = n
  BY <1>4
<1> QED  BY <1>1, <1>3, <1>5 DEF RecordsOf

LEMMA RecordsOfIs ==
  ASSUME NEW out, NEW q
  PROVE  \A i \in 1 .. Len(q) : RecordsOf(out, q)[i] = out[q[i]].records
BY DEF RecordsOf

LEMMA UnsentType ==
  ASSUME NEW out, Generations(out), NEW q \in Seq(Nat), Listed(q) \subseteq DOMAIN out
  PROVE  Unsent(out, q) \in Datas
BY RecordsOfType, ConcatType DEF Unsent

LEMMA UnsentNone ==
  ASSUME NEW out
  PROVE  Unsent(out, <<>>) = <<>>
<1>1. RecordsOf(out, <<>>) = <<>>
  BY DEF RecordsOf
<1> QED  BY <1>1, ConcatNone DEF Unsent

\* Generations that are as they were.
LEMMA UnsentAgrees ==
  ASSUME NEW out, NEW new, NEW q \in Seq(Nat),
         \A b \in Listed(q) : new[b].records = out[b].records
  PROVE  Unsent(new, q) = Unsent(out, q)
<1>1. \A k \in 1 .. Len(q) : new[q[k]].records = out[q[k]].records
  BY DEF Listed
<1>2. RecordsOf(new, q) = RecordsOf(out, q)
  BY <1>1 DEF RecordsOf
<1> QED  BY <1>2 DEF Unsent

LEMMA RecordsOfJoined ==
  ASSUME NEW out, NEW p \in Seq(Nat), NEW q \in Seq(Nat), Generations(out),
         Listed(p) \subseteq DOMAIN out, Listed(q) \subseteq DOMAIN out
  PROVE  RecordsOf(out, Joined(p, q)) = Joined(RecordsOf(out, p), RecordsOf(out, q))
<1>1. PICK n \in Nat : n = Len(p)
  OBVIOUS
<1>2. PICK m \in Nat : m = Len(q)
  OBVIOUS
<1>3. PICK j \in Seq(Nat) : /\ j = Joined(p, q) /\ Len(j) = n + m
                            /\ \A i \in 1 .. n : j[i] = p[i]
                            /\ \A i \in 1 .. m : j[n + i] = q[i]
  <2>1. Joined(p, q) \in Seq(Nat) /\ Len(Joined(p, q)) = Len(p) + Len(q)
    BY JoinedIs
  <2>2. \A i \in 1 .. Len(p) : Joined(p, q)[i] = p[i]
    BY JoinedIs
  <2>3. \A i \in 1 .. Len(q) : Joined(p, q)[Len(p) + i] = q[i]
    BY JoinedIs
  <2> QED  BY <1>1, <1>2, <2>1, <2>2, <2>3
<1>4. PICK f \in Seq(Datas) : f = RecordsOf(out, p) /\ Len(f) = n
                              /\ \A i \in 1 .. n : f[i] = out[p[i]].records
  <2>1. RecordsOf(out, p) \in Seq(Datas) /\ Len(RecordsOf(out, p)) = Len(p)
    BY <1>1, RecordsOfType
  <2>2. \A i \in 1 .. Len(p) : RecordsOf(out, p)[i] = out[p[i]].records
    BY RecordsOfIs
  <2> QED  BY <1>1, <2>1, <2>2
<1>5. PICK g \in Seq(Datas) : g = RecordsOf(out, q) /\ Len(g) = m
                              /\ \A i \in 1 .. m : g[i] = out[q[i]].records
  <2>1. RecordsOf(out, q) \in Seq(Datas) /\ Len(RecordsOf(out, q)) = Len(q)
    BY <1>2, RecordsOfType
  <2>2. \A i \in 1 .. Len(q) : RecordsOf(out, q)[i] = out[q[i]].records
    BY RecordsOfIs
  <2> QED  BY <1>2, <2>1, <2>2
<1>6. Listed(j) \subseteq DOMAIN out
  BY <1>3, ListedJoined
<1>7. PICK h \in Seq(Datas) : h = RecordsOf(out, j) /\ Len(h) = n + m
                              /\ \A i \in 1 .. n + m : h[i] = out[j[i]].records
  <2>1. RecordsOf(out, j) \in Seq(Datas) /\ Len(RecordsOf(out, j)) = Len(j)
    BY <1>3, <1>6, RecordsOfType
  <2>2. \A i \in 1 .. Len(j) : RecordsOf(out, j)[i] = out[j[i]].records
    BY RecordsOfIs
  <2> QED  BY <1>3, <1>6, <2>1, <2>2
<1>8. PICK u \in Seq(Datas) : /\ u = Joined(f, g) /\ Len(u) = n + m
                              /\ \A i \in 1 .. n : u[i] = f[i]
                              /\ \A i \in 1 .. m : u[n + i] = g[i]
  <2>1. Joined(f, g) \in Seq(Datas) /\ Len(Joined(f, g)) = Len(f) + Len(g)
    BY JoinedIs
  <2>2. \A i \in 1 .. Len(f) : Joined(f, g)[i] = f[i]
    BY JoinedIs
  <2>3. \A i \in 1 .. Len(g) : Joined(f, g)[Len(f) + i] = g[i]
    BY JoinedIs
  <2> QED  BY <1>4, <1>5, <2>1, <2>2, <2>3
<1>9. \A i \in 1 .. n + m : i \in 1 .. n \/ \E k \in 1 .. m : i = n + k
  <2> TAKE i \in 1 .. n + m
  <2>1. CASE i > n
    <3>1. i - n \in 1 .. m /\ i = n + (i - n)
      BY <2>1
    <3> QED  BY <3>1
  <2> QED  BY <2>1
<1>10. \A i \in 1 .. n : i \in 1 .. n + m
  OBVIOUS
<1>11. \A i \in 1 .. m : n + i \in 1 .. n + m
  OBVIOUS
<1>12. \A i \in 1 .. n + m : h[i] = u[i]
  <2> TAKE i \in 1 .. n + m
  <2>1. CASE i \in 1 .. n
    <3>1. h[i] = out[j[i]].records /\ j[i] = p[i]
      BY <1>3, <1>7, <2>1
    <3>2. u[i] = f[i] /\ f[i] = out[p[i]].records
      BY <1>4, <1>8, <2>1
    <3> QED  BY <3>1, <3>2
  <2>2. CASE \E k \in 1 .. m : i = n + k
    <3>1. PICK k \in 1 .. m : i = n + k
      BY <2>2
    <3>2. h[n + k] = out[j[n + k]].records /\ j[n + k] = q[k]
      BY <1>3, <1>7, <1>11
    <3>3. u[n + k] = out[q[k]].records
      BY <1>5, <1>8
    <3> QED  BY <3>1, <3>2, <3>3
  <2> QED  BY <1>9, <2>1, <2>2
<1>13. h = u
  BY <1>7, <1>8, <1>12, SeqEqual
<1> QED  BY <1>3, <1>4, <1>5, <1>7, <1>8, <1>13

LEMMA UnsentJoined ==
  ASSUME NEW out, NEW p \in Seq(Nat), NEW q \in Seq(Nat), Generations(out),
         Listed(p) \subseteq DOMAIN out, Listed(q) \subseteq DOMAIN out
  PROVE  Unsent(out, Joined(p, q)) = Joined(Unsent(out, p), Unsent(out, q))
<1>1. RecordsOf(out, p) \in Seq(Datas) /\ RecordsOf(out, q) \in Seq(Datas)
  BY RecordsOfType
<1>2. Concatenated(Joined(RecordsOf(out, p), RecordsOf(out, q)))
        = Joined(Concatenated(RecordsOf(out, p)), Concatenated(RecordsOf(out, q)))
  BY <1>1, ConcatBoth
<1> QED  BY <1>2, RecordsOfJoined DEF Unsent

LEMMA ConcatOne ==
  ASSUME NEW x \in Datas
  PROVE  Concatenated(<<x>>) = x
<1>1. <<>> \in Seq(Datas) /\ Append(<<>>, x) = <<x>>
  OBVIOUS
<1>2. Concatenated(Append(<<>>, x)) = Joined(Concatenated(<<>>), x)
  BY <1>1, ConcatNext
<1> QED  BY <1>1, <1>2, ConcatNone, DataJoins

LEMMA UnsentOne ==
  ASSUME NEW out, Generations(out), NEW b \in DOMAIN out
  PROVE  Unsent(out, <<b>>) = out[b].records /\ <<b>> \in Seq(Nat) /\ Listed(<<b>>) = {b}
<1>1. b \in Nat /\ out[b].records \in Datas
  BY RecordsAre
<1>2. <<b>> \in Seq(Nat) /\ Len(<<b>>) = 1 /\ <<b>>[1] = b /\ DOMAIN <<b>> = 1 .. 1
  BY <1>1, OneOf
<1>3. Listed(<<b>>) = {b}
  BY <1>2 DEF Listed
<1>4. RecordsOf(out, <<b>>) = <<out[b].records>>
  BY <1>2 DEF RecordsOf
<1> QED  BY <1>1, <1>2, <1>3, <1>4, ConcatOne DEF Unsent

LEMMA UnsentPut ==
  ASSUME NEW out, Generations(out), NEW b \in DOMAIN out,
         NEW q \in Seq(Nat), Listed(q) \subseteq DOMAIN out
  PROVE  /\ Unsent(out, Joined(<<b>>, q)) = Joined(out[b].records, Unsent(out, q))
         /\ Unsent(out, Append(q, b)) = Joined(Unsent(out, q), out[b].records)
<1>1. PICK o \in Seq(Nat) : o = <<b>> /\ Unsent(out, o) = out[b].records /\ Listed(o) = {b}
  BY UnsentOne
<1>2. b \in Nat
  BY RecordsAre
<1>3. Append(q, b) = Joined(q, <<b>>)
  BY <1>2, AppendIsConcat DEF Joined
<1>4. Listed(o) \subseteq DOMAIN out
  BY <1>1
<1>5. Unsent(out, Joined(o, q)) = Joined(Unsent(out, o), Unsent(out, q))
  BY <1>4, UnsentJoined
<1>6. Unsent(out, Joined(q, o)) = Joined(Unsent(out, q), Unsent(out, o))
  BY <1>4, UnsentJoined
<1> QED  BY <1>1, <1>3, <1>5, <1>6

-----------------------------------------------------------------------------
(* Where the generations are: one is filled, some wait to be sent, some    *)
(* are free, and those that are pinned are none of these.                  *)

Filling(out, fill) == Generations(out) /\ fill \in DOMAIN out /\ out[fill].pinned = 0

Waiting(out, fill, unsent) ==
  /\ unsent \in Seq(Nat) /\ Distinct(unsent)
  /\ \A b \in Listed(unsent) : b \in DOMAIN out /\ out[b].pinned = 0 /\ out[b].records # <<>>
  /\ \A k \in DOMAIN unsent : unsent[k] = fill => k = Len(unsent)
  /\ out[fill].records # <<>> => fill \in Listed(unsent)

Spare(out, fill, free) ==
  /\ free \in Seq(Nat) /\ Distinct(free)
  /\ \A b \in Listed(free) :
       b \in DOMAIN out /\ b # fill /\ out[b].pinned = 0 /\ out[b].records = <<>>

Pins(out) == {b \in DOMAIN out : out[b].pinned # 0}

\* A generation that was changed.
Changed(out, b, g) == [out EXCEPT ![b] = g]

LEMMA ChangedIs ==
  ASSUME NEW out, Generations(out), NEW b \in DOMAIN out, NEW g \in Generation
  PROVE  /\ Generations(Changed(out, b, g)) /\ DOMAIN Changed(out, b, g) = DOMAIN out
         /\ Changed(out, b, g)[b] = g
         /\ \A a \in DOMAIN out : a # b => Changed(out, b, g)[a] = out[a]
<1>1. PICK n \in Nat : n = Len(out) /\ DOMAIN out = 1 .. n /\ out \in [1 .. n -> Generation]
  BY DEF Generations
<1>2. PICK new : new = [out EXCEPT ![b] = g]
  OBVIOUS
<1>3. new \in [1 .. n -> Generation]
  BY <1>1, <1>2
<1>4. new \in Seq(Generation)
  BY <1>3
<1>5. new[b] = g /\ \A a \in DOMAIN out : a # b => new[a] = out[a]
  BY <1>1, <1>2
<1> QED  BY <1>1, <1>2, <1>3, <1>4, <1>5 DEF Changed, Generations

\* The last of those that wait is the fill, if it has anything.
LEMMA FillWaits ==
  ASSUME NEW out, NEW fill, NEW unsent, Waiting(out, fill, unsent), fill \in Listed(unsent)
  PROVE  \E p \in Seq(Nat) : /\ unsent = Append(p, fill)
                             /\ fill \notin Listed(p) /\ Listed(unsent) = Listed(p) \cup {fill}
<1>1. PICK k \in DOMAIN unsent : unsent[k] = fill
  BY DEF Listed
<1>2. unsent \in Seq(Nat) /\ k = Len(unsent)
  BY <1>1 DEF Waiting
<1>3. PICK n \in Nat : n = Len(unsent) /\ DOMAIN unsent = 1 .. n
  BY <1>2
<1>4. PICK m \in Nat : n = m + 1
  <2>1. n >= 1
    BY <1>1, <1>2, <1>3
  <2>2. n - 1 \in Nat /\ n = (n - 1) + 1
    BY <2>1
  <2> QED  BY <2>2
<1>5. PICK p \in Seq(Nat), x \in Nat : unsent = Append(p, x) /\ Len(p) = m
  <2>1. unsent \in Seq(Nat) /\ Len(unsent) = m + 1
    BY <1>2, <1>3, <1>4
  <2> QED  BY ZenonT(60), <2>1, LastOf
<1>6. Append(p, x)[m + 1] = x /\ \A i \in 1 .. m : Append(p, x)[i] = p[i]
  <2>1. /\ \A i \in 1 .. Len(p) : Append(p, x)[i] = p[i]
        /\ Append(p, x)[Len(p) + 1] = x
    BY AppendProperties
  <2> QED  BY <1>5, <2>1
<1>7. x = fill
  BY <1>1, <1>2, <1>3, <1>4, <1>5, <1>6
<1>8. \A i \in 1 .. m : p[i] # fill
  <2> SUFFICES ASSUME NEW i \in 1 .. m, p[i] = fill PROVE FALSE
    OBVIOUS
  <2>1. i \in 1 .. n /\ i # n
    BY <1>4
  <2>2. unsent[i] = fill
    BY <1>5, <1>6
  <2> QED  BY <1>3, <2>1, <2>2 DEF Waiting
<1>9. DOMAIN p = 1 .. m
  BY <1>5
<1>10. fill \notin Listed(p)
  BY <1>8, <1>9 DEF Listed
<1>11. Listed(Append(p, x)) = Listed(p) \cup {x}
  BY ListedAppend
<1> QED  BY <1>5, <1>7, <1>10, <1>11

LEMMA JoinedSome ==
  ASSUME NEW p \in Datas, NEW q \in Datas
  PROVE  Joined(p, q) = <<>> => p = <<>> /\ q = <<>>
<1>1. p \in Seq(Nat) /\ q \in Seq(Nat)
  BY DEF Datas
<1>2. Joined(p, q) \in Seq(Nat) /\ Len(Joined(p, q)) = Len(p) + Len(q)
  BY <1>1, JoinedIs
<1>3. ASSUME Joined(p, q) = <<>> PROVE p = <<>> /\ q = <<>>
  <2>1. Len(p) + Len(q) = 0
    BY <1>2, <1>3
  <2>2. Len(p) = 0 /\ Len(q) = 0
    BY <1>1, <2>1
  <2> QED  BY <1>1, <2>2, NoneOf
<1> QED  BY <1>3

\* The records of an element are those of no other list.
LEMMA ListedIn ==
  ASSUME NEW q, NEW k \in DOMAIN q
  PROVE  q[k] \in Listed(q)
BY DEF Listed

Arranged(out, fill, unsent, free) ==
  Filling(out, fill) /\ Waiting(out, fill, unsent) /\ Spare(out, fill, free)

LEMMA ArrangedIs ==
  ASSUME NEW out, NEW fill, NEW unsent, NEW free, Arranged(out, fill, unsent, free)
  PROVE  /\ Generations(out) /\ fill \in DOMAIN out /\ fill \in Nat /\ out[fill].pinned = 0
         /\ out[fill].records \in Datas
         /\ unsent \in Seq(Nat) /\ free \in Seq(Nat) /\ Distinct(unsent) /\ Distinct(free)
         /\ Listed(unsent) \subseteq DOMAIN out /\ Listed(free) \subseteq DOMAIN out
         /\ fill \notin Listed(free)
         /\ \A b \in Listed(unsent) : out[b].pinned = 0 /\ out[b].records # <<>>
         /\ \A b \in Listed(free) : out[b].pinned = 0 /\ out[b].records = <<>>
         /\ out[fill].records # <<>> <=> fill \in Listed(unsent)
<1>1. Generations(out) /\ fill \in DOMAIN out
  BY DEF Arranged, Filling
<1>2. fill \in Nat /\ out[fill].records \in Datas
  BY <1>1, RecordsAre
<1> QED  BY <1>1, <1>2 DEF Arranged, Filling, Waiting, Spare

\* Generations that hold what they did, those of the lists at least.
LEMMA ArrangedOn ==
  ASSUME NEW out, NEW fill, NEW unsent, NEW free, Arranged(out, fill, unsent, free),
         NEW new, Generations(new), DOMAIN out \subseteq DOMAIN new,
         \A b \in Listed(unsent) \cup Listed(free) \cup {fill} : new[b] = out[b]
  PROVE  Arranged(new, fill, unsent, free) /\ Unsent(new, unsent) = Unsent(out, unsent)
<1>1. Filling(new, fill)
  BY DEF Arranged, Filling
<1>2. Waiting(new, fill, unsent)
  BY DEF Arranged, Waiting, Filling
<1>3. Spare(new, fill, free)
  BY DEF Arranged, Spare
<1>4. unsent \in Seq(Nat)
  BY ArrangedIs
<1> QED  BY <1>1, <1>2, <1>3, <1>4, UnsentAgrees DEF Arranged

\* The fill with more records, and what waits then.
GainedFill(out, fill, x) == [records |-> Joined(out[fill].records, x), pinned |-> 0]
GainedWait(out, fill, unsent, x) ==
  IF out[fill].records = <<>> /\ x # <<>> THEN Append(unsent, fill) ELSE unsent

LEMMA Gains ==
  ASSUME NEW out, NEW fill, NEW unsent, NEW free, Arranged(out, fill, unsent, free),
         NEW x \in Datas
  PROVE  LET new == Changed(out, fill, GainedFill(out, fill, x))
             more == GainedWait(out, fill, unsent, x) IN
         /\ Arranged(new, fill, more, free)
         /\ DOMAIN new = DOMAIN out /\ \A b \in DOMAIN out : b # fill => new[b] = out[b]
         /\ new[fill].records = Joined(out[fill].records, x)
         /\ Unsent(new, more) = Joined(Unsent(out, unsent), x)
<1> SUFFICES ASSUME NEW g, g = GainedFill(out, fill, x),
                    NEW more, more = GainedWait(out, fill, unsent, x)
             PROVE  LET new == Changed(out, fill, g) IN
                    /\ Arranged(new, fill, more, free)
                    /\ DOMAIN new = DOMAIN out /\ \A b \in DOMAIN out : b # fill => new[b] = out[b]
                    /\ new[fill].records = Joined(out[fill].records, x)
                    /\ Unsent(new, more) = Joined(Unsent(out, unsent), x)
  OBVIOUS
<1> USE DEF GainedFill, GainedWait
<1>0. /\ Generations(out) /\ fill \in DOMAIN out /\ fill \in Nat /\ out[fill].pinned = 0
      /\ out[fill].records \in Datas
      /\ unsent \in Seq(Nat) /\ free \in Seq(Nat) /\ Distinct(unsent) /\ Distinct(free)
      /\ Listed(unsent) \subseteq DOMAIN out /\ Listed(free) \subseteq DOMAIN out
      /\ fill \notin Listed(free)
      /\ \A b \in Listed(unsent) : out[b].pinned = 0 /\ out[b].records # <<>>
      /\ \A b \in Listed(free) : out[b].pinned = 0 /\ out[b].records = <<>>
      /\ out[fill].records # <<>> <=> fill \in Listed(unsent)
  BY ArrangedIs
<1>1. PICK r \in Datas : r = out[fill].records
  BY <1>0
<1>2. PICK j \in Datas : j = Joined(r, x)
  BY DataJoins
<1>3. g \in Generation /\ g.records = j /\ g.pinned = 0
  BY <1>1, <1>2 DEF Generation
<1>4. PICK new : new = Changed(out, fill, g)
  OBVIOUS
<1>5. /\ Generations(new) /\ DOMAIN new = DOMAIN out /\ new[fill] = g
      /\ \A a \in DOMAIN out : a # fill => new[a] = out[a]
  BY <1>0, <1>3, <1>4, ChangedIs
<1>6. Filling(new, fill)
  BY <1>0, <1>3, <1>5 DEF Filling
<1>7. Spare(new, fill, free)
  BY <1>0, <1>5 DEF Spare
<1>8. PICK U \in Datas : U = Unsent(out, unsent)
  BY <1>0, UnsentType
<1>9. ASSUME fill \in Listed(unsent)
      PROVE  Waiting(new, fill, more) /\ Unsent(new, more) = Joined(U, x)
  <2>1. r # <<>> /\ more = unsent
    BY <1>0, <1>1, <1>9
  <2>2. j # <<>>
    BY <1>2, <2>1, JoinedSome
  <2>3. Waiting(out, fill, unsent)
    BY DEF Arranged
  <2>4. Waiting(new, fill, unsent)
    BY <1>0, <1>3, <1>5, <1>9, <2>2, <2>3 DEF Waiting
  <2>5. PICK p \in Seq(Nat) : /\ unsent = Append(p, fill)
                              /\ fill \notin Listed(p) /\ Listed(unsent) = Listed(p) \cup {fill}
    BY <1>9, <2>3, FillWaits
  <2>6. Listed(p) \subseteq DOMAIN out
    BY <1>0, <2>5
  <2>7. PICK P \in Datas : P = Unsent(out, p)
    BY <1>0, <2>6, UnsentType
  <2>8. U = Joined(P, r)
    BY ZenonT(60), <1>0, <1>1, <1>8, <2>5, <2>6, <2>7, UnsentPut
  <2>9. Unsent(new, p) = P
    BY <1>5, <2>5, <2>6, <2>7, UnsentAgrees
  <2>10. Unsent(new, Append(p, fill)) = Joined(Unsent(new, p), new[fill].records)
    BY <1>0, <1>5, <2>6, UnsentPut
  <2>11. Unsent(new, unsent) = Joined(P, Joined(r, x))
    BY <1>2, <1>3, <1>5, <2>5, <2>9, <2>10
  <2>12. Joined(Joined(P, r), x) = Joined(P, Joined(r, x))
    BY DataJoinsBoth
  <2> QED  BY <2>1, <2>4, <2>8, <2>11, <2>12
<1>10. ASSUME fill \notin Listed(unsent), x = <<>>
       PROVE  Waiting(new, fill, more) /\ Unsent(new, more) = Joined(U, x)
  <2>1. r = <<>> /\ more = unsent
    BY <1>0, <1>1, <1>10
  <2>2. j = <<>>
    BY <1>2, <1>10, <2>1, DataJoins
  <2>3. Waiting(out, fill, unsent)
    BY DEF Arranged
  <2>4. Waiting(new, fill, unsent)
    BY <1>0, <1>3, <1>5, <1>10, <2>2, <2>3 DEF Waiting
  <2>5. Unsent(new, unsent) = U
    BY <1>0, <1>5, <1>8, <1>10, UnsentAgrees
  <2>6. Joined(U, x) = U
    BY <1>10, DataJoins
  <2> QED  BY <2>1, <2>4, <2>5, <2>6
<1>11. ASSUME fill \notin Listed(unsent), x # <<>>
       PROVE  Waiting(new, fill, more) /\ Unsent(new, more) = Joined(U, x)
  <2>1. r = <<>> /\ more = Append(unsent, fill)
    BY <1>0, <1>1, <1>11
  <2>2. j = x
    BY <1>2, <2>1, DataJoins
  <2>3. Listed(more) = Listed(unsent) \cup {fill} /\ Distinct(more)
    BY <1>0, <1>11, <2>1, ListedAppend
  <2>4. PICK n \in Nat : n = Len(unsent) /\ DOMAIN unsent = 1 .. n
    BY <1>0
  <2>5. /\ more \in Seq(Nat) /\ Len(more) = n + 1 /\ DOMAIN more = 1 .. n + 1
        /\ \A k \in 1 .. n : more[k] = unsent[k]
    <3>1. /\ Append(unsent, fill) \in Seq(Nat) /\ Len(Append(unsent, fill)) = Len(unsent) + 1
          /\ \A k \in 1 .. Len(unsent) : Append(unsent, fill)[k] = unsent[k]
      BY <1>0, AppendProperties
    <3> QED  BY <2>1, <2>4, <3>1, DomainOf
  <2>6. \A k \in DOMAIN more : more[k] = fill => k = Len(more)
    <3> SUFFICES ASSUME NEW k \in 1 .. n + 1, more[k] = fill PROVE k = n + 1
      BY <2>5
    <3>1. CASE k \in 1 .. n
      <4>1. unsent[k] \in Listed(unsent)
        BY <2>4, <3>1, ListedIn
      <4> QED  BY <1>11, <2>5, <3>1, <4>1
    <3> QED  BY <3>1
  <2>7. \A b \in Listed(more) : b \in DOMAIN new /\ new[b].pinned = 0 /\ new[b].records # <<>>
    BY <1>0, <1>3, <1>5, <1>11, <2>2, <2>3
  <2>8. Waiting(new, fill, more)
    BY <2>3, <2>5, <2>6, <2>7 DEF Waiting
  <2>9. Unsent(new, unsent) = U
    BY ZenonT(60), <1>0, <1>5, <1>8, <1>11, UnsentAgrees
  <2>10. Unsent(new, Append(unsent, fill)) = Joined(Unsent(new, unsent), new[fill].records)
    BY <1>0, <1>5, UnsentPut
  <2> QED  BY <1>3, <1>5, <2>1, <2>2, <2>8, <2>9, <2>10
<1>12. Waiting(new, fill, more) /\ Unsent(new, more) = Joined(U, x)
  BY <1>9, <1>10, <1>11
<1>13. Arranged(new, fill, more, free)
  BY <1>6, <1>7, <1>12 DEF Arranged
<1> QED  BY <1>1, <1>2, <1>3, <1>4, <1>5, <1>8, <1>12, <1>13

\* The oldest generation that waits is pinned.
LEMMA Pinning ==
  ASSUME NEW out, NEW fill, NEW unsent, NEW free, Arranged(out, fill, unsent, free),
         unsent # <<>>, NEW i, i = Head(unsent), NEW n \in Nat, n # 0,
         NEW g, g = [records |-> out[i].records, pinned |-> n]
  PROVE  LET new == Changed(out, i, g) IN
         /\ i \in DOMAIN out /\ out[i].pinned = 0 /\ i \notin Listed(free)
         /\ i \notin Listed(Tail(unsent))
         /\ Generations(new) /\ DOMAIN new = DOMAIN out
         /\ new[i] = g /\ \A b \in DOMAIN out : b # i => new[b] = out[b]
         /\ Unsent(out, unsent) = Joined(out[i].records, Unsent(new, Tail(unsent)))
         /\ i # fill => Arranged(new, fill, Tail(unsent), free)
         /\ i = fill => Tail(unsent) = <<>>
<1>0. /\ Generations(out) /\ fill \in DOMAIN out /\ fill \in Nat /\ out[fill].pinned = 0
      /\ unsent \in Seq(Nat) /\ free \in Seq(Nat) /\ Distinct(unsent) /\ Distinct(free)
      /\ Listed(unsent) \subseteq DOMAIN out /\ Listed(free) \subseteq DOMAIN out
      /\ fill \notin Listed(free)
      /\ \A b \in Listed(unsent) : out[b].pinned = 0 /\ out[b].records # <<>>
      /\ \A b \in Listed(free) : out[b].pinned = 0 /\ out[b].records = <<>>
      /\ out[fill].records # <<>> <=> fill \in Listed(unsent)
  BY ArrangedIs
<1>1. PICK t \in Seq(Nat) : t = Tail(unsent)
  BY <1>0, FirstOf
<1>2. i \in Nat /\ Listed(unsent) = {i} \cup Listed(t) /\ Distinct(t) /\ i \notin Listed(t)
      /\ unsent = Joined(<<i>>, t)
  BY <1>0, <1>1, FirstOf, ListedTail
<1>3. i \in DOMAIN out /\ out[i].pinned = 0 /\ out[i].records # <<>> /\ i \notin Listed(free)
  BY <1>0, <1>2
<1>4. PICK r \in Datas : r = out[i].records
  BY <1>0, <1>3, RecordsAre
<1>5. g \in Generation /\ g.records = r
  BY <1>4 DEF Generation
<1>6. PICK new : new = Changed(out, i, g)
  OBVIOUS
<1>7. /\ Generations(new) /\ DOMAIN new = DOMAIN out /\ new[i] = g
      /\ \A a \in DOMAIN out : a # i => new[a] = out[a]
  BY <1>0, <1>3, <1>5, <1>6, ChangedIs
<1>8. Listed(t) \subseteq DOMAIN out
  BY <1>0, <1>2
<1>9. Unsent(out, unsent) = Joined(r, Unsent(out, t))
  <2>1. Unsent(out, Joined(<<i>>, t)) = Joined(out[i].records, Unsent(out, t))
    BY <1>0, <1>3, <1>8, UnsentPut
  <2> QED  BY <1>2, <1>4, <2>1
<1>10. Unsent(new, t) = Unsent(out, t)
  BY ONLY <1>2, <1>7, <1>8, UnsentAgrees
<1>11. PICK m \in Nat : m = Len(unsent) /\ m >= 1 /\ DOMAIN unsent = 1 .. m /\ unsent[1] = i
  <2>1. unsent \in Seq(Nat) /\ unsent # <<>> /\ i = Head(unsent)
    BY <1>0
  <2>2. Len(unsent) \in Nat /\ Len(unsent) >= 1 /\ unsent[1] = i
    BY ONLY <2>1, FirstOf
  <2>3. DOMAIN unsent = 1 .. Len(unsent)
    BY ONLY <2>1
  <2> QED  BY ONLY <2>2, <2>3
<1>12. Len(t) = m - 1 /\ \A k \in 1 .. m - 1 : t[k] = unsent[k + 1]
  BY <1>0, <1>1, <1>11, FirstOf
<1>13. \A k \in DOMAIN unsent : unsent[k] = fill => k = m
  BY <1>11 DEF Arranged, Waiting
<1>14. ASSUME i # fill
       PROVE  Arranged(new, fill, t, free)
  <2>1. Filling(new, fill)
    BY <1>0, <1>7, <1>14 DEF Filling
  <2>2. Spare(new, fill, free)
    BY <1>0, <1>3, <1>7 DEF Spare
  <2>3. \A k \in DOMAIN t : t[k] = fill => k = Len(t)
    <3> SUFFICES ASSUME NEW k \in 1 .. m - 1, t[k] = fill PROVE k = m - 1
      BY <1>12
    <3>1. k + 1 \in 1 .. m /\ unsent[k + 1] = fill
      BY <1>12
    <3>2. k + 1 = m
      BY <1>11, <1>13, <3>1
    <3> QED  BY <3>2
  <2>4. \A b \in Listed(t) : b \in DOMAIN new /\ new[b].pinned = 0 /\ new[b].records # <<>>
    BY <1>0, <1>2, <1>7
  <2>5. new[fill].records # <<>> => fill \in Listed(t)
    BY <1>0, <1>2, <1>7, <1>14
  <2>6. Waiting(new, fill, t)
    BY <1>2, <2>3, <2>4, <2>5 DEF Waiting
  <2> QED  BY <2>1, <2>2, <2>6 DEF Arranged
<1>15. ASSUME i = fill
       PROVE  t = <<>>
  <2>1. 1 = m
    BY <1>11, <1>13, <1>15
  <2>2. Len(t) = 0
    BY <1>12, <2>1
  <2> QED  BY <2>2, NoneOf
<1> QED  BY <1>1, <1>2, <1>3, <1>4, <1>6, <1>7, <1>9, <1>10, <1>14, <1>15

\* The fill moves to a generation that is free.
LEMMA AdvancesToFree ==
  ASSUME NEW out, NEW free, Generations(out), free # <<>>,
         free \in Seq(Nat), Distinct(free),
         \A b \in Listed(free) : b \in DOMAIN out /\ out[b].pinned = 0 /\ out[b].records = <<>>
  PROVE  Arranged(out, Head(free), <<>>, Tail(free))
<1>1. PICK t \in Seq(Nat) : t = Tail(free)
  BY FirstOf
<1>2. PICK i \in Nat : i = Head(free)
  BY FirstOf
<1>3. Listed(free) = {i} \cup Listed(t) /\ Distinct(t) /\ i \notin Listed(t)
  BY <1>1, <1>2, ListedTail
<1>4. Filling(out, i)
  BY <1>3 DEF Filling
<1>5. <<>> \in Seq(Nat) /\ DOMAIN <<>> = {}
  OBVIOUS
<1>6. Waiting(out, i, <<>>)
  BY <1>3, <1>5, NothingListed DEF Waiting
<1>7. Spare(out, i, t)
  BY <1>3 DEF Spare
<1> QED  BY <1>1, <1>2, <1>4, <1>6, <1>7 DEF Arranged

LEMMA EmptyIs == EmptyGeneration \in Generation /\ EmptyGeneration.records = <<>>
                 /\ EmptyGeneration.pinned = 0
BY DataNone DEF EmptyGeneration, Generation

\* Or to one more.
LEMMA AdvancesToNew ==
  ASSUME NEW out, Generations(out), NEW n, n = Len(out) + 1
  PROVE  LET new == Append(out, EmptyGeneration) IN
         /\ Arranged(new, n, <<>>, <<>>)
         /\ DOMAIN new = DOMAIN out \cup {n} /\ n \notin DOMAIN out
         /\ new[n] = EmptyGeneration /\ \A b \in DOMAIN out : new[b] = out[b]
<1>1. PICK m \in Nat : m = Len(out) /\ DOMAIN out = 1 .. m
  BY DEF Generations
<1>2. out \in Seq(Generation) /\ EmptyGeneration \in Generation
  BY EmptyIs DEF Generations
<1>3. PICK new : new = Append(out, EmptyGeneration)
  OBVIOUS
<1>4. /\ new \in Seq(Generation) /\ Len(new) = m + 1 /\ DOMAIN new = 1 .. m + 1
      /\ \A b \in 1 .. m : new[b] = out[b]
      /\ new[m + 1] = EmptyGeneration
  <2>1. /\ Append(out, EmptyGeneration) \in Seq(Generation)
        /\ Len(Append(out, EmptyGeneration)) = Len(out) + 1
        /\ \A i \in 1 .. Len(out) : Append(out, EmptyGeneration)[i] = out[i]
        /\ Append(out, EmptyGeneration)[Len(out) + 1] = EmptyGeneration
    BY <1>2, AppendProperties
  <2>2. new \in Seq(Generation)
    BY <1>3, <2>1
  <2>3. DOMAIN new = 1 .. Len(new)
    BY <2>2, DomainOf
  <2> QED  BY <1>1, <1>3, <2>1, <2>3
<1>5. DOMAIN new = DOMAIN out \cup {n} /\ n \notin DOMAIN out /\ n \in DOMAIN new
  BY <1>1, <1>4
<1>6. Filling(new, n)
  BY <1>1, <1>4, <1>5, EmptyIs DEF Filling, Generations
<1>7. <<>> \in Seq(Nat) /\ DOMAIN <<>> = {}
  OBVIOUS
<1>8. new[n].records = <<>>
  BY <1>1, <1>4, EmptyIs
<1>9. Waiting(new, n, <<>>) /\ Spare(new, n, <<>>)
  BY <1>7, <1>8, NothingListed DEF Waiting, Spare
<1> QED  BY <1>1, <1>3, <1>4, <1>5, <1>6, <1>9 DEF Arranged

\* A generation that is pinned, whatever becomes of it, is none of the others.
LEMMA PinnedApart ==
  ASSUME NEW out, NEW fill, NEW unsent, NEW free, Arranged(out, fill, unsent, free),
         NEW i \in DOMAIN out, out[i].pinned # 0, NEW g \in Generation
  PROVE  LET new == Changed(out, i, g) IN
         /\ i # fill /\ i \notin Listed(unsent) /\ i \notin Listed(free)
         /\ Generations(new) /\ DOMAIN new = DOMAIN out
         /\ new[i] = g /\ \A b \in DOMAIN out : b # i => new[b] = out[b]
         /\ Arranged(new, fill, unsent, free)
         /\ Unsent(new, unsent) = Unsent(out, unsent)
<1>0. /\ Generations(out) /\ fill \in DOMAIN out /\ out[fill].pinned = 0
      /\ Listed(unsent) \subseteq DOMAIN out /\ Listed(free) \subseteq DOMAIN out
      /\ \A b \in Listed(unsent) : out[b].pinned = 0
      /\ \A b \in Listed(free) : out[b].pinned = 0
  BY ArrangedIs
<1>1. i # fill /\ i \notin Listed(unsent) /\ i \notin Listed(free)
  BY <1>0
<1>2. PICK new : new = Changed(out, i, g)
  OBVIOUS
<1>3. /\ Generations(new) /\ DOMAIN new = DOMAIN out /\ new[i] = g
      /\ \A a \in DOMAIN out : a # i => new[a] = out[a]
  BY <1>0, <1>2, ChangedIs
<1>4. \A b \in Listed(unsent) \cup Listed(free) \cup {fill} : new[b] = out[b]
  BY <1>0, <1>1, <1>3
<1>5. Arranged(new, fill, unsent, free) /\ Unsent(new, unsent) = Unsent(out, unsent)
  BY <1>3, <1>4, ArrangedOn
<1> QED  BY <1>1, <1>2, <1>3, <1>5

\* A generation that was drained and is released is free.
LEMMA Releasing ==
  ASSUME NEW out, NEW fill, NEW unsent, NEW free, Arranged(out, fill, unsent, free),
         NEW i \in DOMAIN out, out[i].pinned # 0, out[i].records = <<>>,
         NEW g, g = [records |-> out[i].records, pinned |-> 0]
  PROVE  LET new == Changed(out, i, g) IN
         /\ Arranged(new, fill, unsent, Joined(<<i>>, free))
         /\ Unsent(new, unsent) = Unsent(out, unsent)
         /\ DOMAIN new = DOMAIN out
         /\ new[i] = g /\ \A b \in DOMAIN out : b # i => new[b] = out[b]
<1>1. g \in Generation
  BY DataNone DEF Generation
<1>2. PICK new : new = Changed(out, i, g)
  OBVIOUS
<1>3. /\ i # fill /\ i \notin Listed(unsent) /\ i \notin Listed(free)
      /\ Generations(new) /\ DOMAIN new = DOMAIN out
      /\ new[i] = g /\ \A b \in DOMAIN out : b # i => new[b] = out[b]
      /\ Arranged(new, fill, unsent, free)
      /\ Unsent(new, unsent) = Unsent(out, unsent)
  BY <1>1, <1>2, PinnedApart
<1>4. free \in Seq(Nat) /\ Distinct(free) /\ i \in Nat
  <2>1. Generations(out)
    BY ArrangedIs
  <2> QED  BY <2>1, ArrangedIs, RecordsAre
<1>5. PICK q \in Seq(Nat) : q = Joined(<<i>>, free) /\ Listed(q) = {i} \cup Listed(free) /\ Distinct(q)
  BY <1>3, <1>4, ListedPut
<1>6. new[i].pinned = 0 /\ new[i].records = <<>>
  BY <1>3
<1>7. Spare(new, fill, free)
  BY <1>3 DEF Arranged
<1>8. Spare(new, fill, q)
  BY <1>3, <1>5, <1>6, <1>7 DEF Spare
<1> QED  BY <1>2, <1>3, <1>5, <1>8 DEF Arranged

-----------------------------------------------------------------------------
(* A flush: the oldest records that are not pinned leave.                  *)

LEMMA FirstMore ==
  ASSUME NEW S, NEW q \in Seq(S), NEW k \in Nat, NEW m \in Nat, m = k + 1, m <= Len(q)
  PROVE  First(q, m) = Append(First(q, k), q[m]) /\ q[m] \in S
<1>1. k \in 0 .. Len(q) /\ m \in 0 .. Len(q) /\ m \in 1 .. Len(q)
  OBVIOUS
<1>2. q[m] \in S
  BY <1>1
<1>3. PICK x \in S : x = q[m]
  BY <1>2
<1>4. PICK a \in Seq(S) : a = First(q, k) /\ Len(a) = k /\ \A i \in 1 .. k : a[i] = q[i]
  BY <1>1, FirstIs
<1>5. PICK b \in Seq(S) : b = First(q, m) /\ Len(b) = m /\ \A i \in 1 .. m : b[i] = q[i]
  BY <1>1, FirstIs
<1>6. PICK g \in Seq(S) : g = Append(a, x) /\ Len(g) = m /\ g[m] = x /\ \A i \in 1 .. k : g[i] = a[i]
  <2>1. /\ Append(a, x) \in Seq(S) /\ Len(Append(a, x)) = Len(a) + 1
        /\ Append(a, x)[Len(a) + 1] = x
    BY AppendProperties
  <2>2. \A i \in 1 .. Len(a) : Append(a, x)[i] = a[i]
    BY AppendProperties
  <2> QED  BY <1>4, <2>1, <2>2
<1>7. \A i \in 1 .. Len(b) : b[i] = g[i]
  <2> TAKE i \in 1 .. Len(b)
  <2>1. i = m \/ i \in 1 .. k
    BY <1>5
  <2>2. i \in 1 .. m
    BY <1>5
  <2> QED  BY <1>3, <1>4, <1>5, <1>6, <2>1, <2>2
<1>8. b = g
  BY <1>5, <1>6, <1>7, SeqEqual
<1> QED  BY <1>2, <1>3, <1>4, <1>5, <1>6, <1>8

\* What comes first of two.
LEMMA FirstJoined ==
  ASSUME NEW p \in Datas, NEW q \in Datas, NEW n \in Nat, n = Len(p)
  PROVE  First(Joined(p, q), n) = p
<1>1. p \in Seq(Nat) /\ q \in Seq(Nat)
  BY DEF Datas
<1>2. PICK j \in Seq(Nat) : j = Joined(p, q) /\ Len(j) = n + Len(q) /\ \A i \in 1 .. n : j[i] = p[i]
  <2>1. Joined(p, q) \in Seq(Nat) /\ Len(Joined(p, q)) = Len(p) + Len(q)
    BY <1>1, JoinedIs
  <2>2. \A i \in 1 .. Len(p) : Joined(p, q)[i] = p[i]
    BY ZenonT(60), <1>1, JoinedIs
  <2> QED  BY <2>1, <2>2
<1>3. n \in 0 .. Len(j)
  BY <1>1, <1>2
<1>4. PICK f \in Seq(Nat) : f = First(j, n) /\ Len(f) = n /\ \A i \in 1 .. n : f[i] = j[i]
  <2>1. j \in Seq(Nat)
    OBVIOUS
  <2>2. First(j, n) \in Seq(Nat) /\ Len(First(j, n)) = n /\ \A i \in 1 .. n : First(j, n)[i] = j[i]
    BY ONLY <1>3, <2>1, FirstIs
  <2> QED  BY ONLY <2>2
<1>5. f = p
  BY <1>1, <1>2, <1>4, SeqEqual
<1> QED  BY <1>2, <1>4, <1>5

LEMMA FirstAll ==
  ASSUME NEW p \in Datas, NEW n \in Nat, n = Len(p)
  PROVE  First(p, n) = p
<1>1. <<>> \in Datas /\ Joined(p, <<>>) = p
  BY DataNone, DataJoins
<1> QED  BY <1>1, FirstJoined

\* A cut of what is put together of three, inside the middle one.
LEMMA CutBoth ==
  ASSUME NEW a \in Datas, NEW x \in Datas, NEW b \in Datas, NEW k \in 0 .. Len(x)
  PROVE  /\ From(x, k) \in Datas /\ First(x, k) \in Datas
         /\ Joined(First(x, k), From(x, k)) = x
         /\ From(Joined(Joined(a, x), b), Len(a) + k) = Joined(From(x, k), b)
         /\ First(Joined(Joined(a, x), b), Len(a) + k) = Joined(a, First(x, k))
<1>1. PICK u \in Nat : u = Len(a)
  BY DEF Datas
<1>2. k \in 0 .. Len(x) /\ x \in Seq(Nat) /\ k \in Nat
  BY DEF Datas
<1>3. PICK f \in Datas : f = First(x, k) /\ Len(f) = k
  BY <1>2, FirstIs DEF Datas
<1>4. PICK g \in Datas : g = From(x, k)
  BY <1>2, FromIs DEF Datas
<1>5. x = Joined(f, g)
  BY <1>2, <1>3, <1>4, SplitAt
<1>6. PICK y \in Datas : y = Joined(a, f)
  BY DataJoins
<1>7. Len(y) = u + k
  <2>1. a \in Seq(Nat) /\ f \in Seq(Nat)
    BY DEF Datas
  <2>2. Len(Joined(a, f)) = Len(a) + Len(f)
    BY <2>1, JoinedIs
  <2> QED  BY <1>1, <1>3, <1>6, <2>2
<1>8. PICK z \in Datas : z = Joined(g, b)
  BY DataJoins
<1>9. Joined(a, Joined(f, g)) = Joined(y, g)
  BY <1>6, DataJoinsBoth
<1>10. Joined(Joined(y, g), b) = Joined(y, z)
  BY <1>8, DataJoinsBoth
<1>11. u + k \in Nat
  BY <1>2
<1>12. From(Joined(y, z), u + k) = z
  BY <1>7, <1>11, FromJoined
<1>13. First(Joined(y, z), u + k) = y
  BY <1>7, <1>11, FirstJoined
<1> QED  BY <1>1, <1>3, <1>4, <1>5, <1>6, <1>8, <1>9, <1>10, <1>12, <1>13

\* A list cut in two.
LEMMA ListedCut ==
  ASSUME NEW S, NEW q \in Seq(S), NEW e \in 0 .. Len(q)
  PROVE  /\ Listed(First(q, e)) = {q[k] : k \in 1 .. e}
         /\ Listed(q) = Listed(First(q, e)) \cup Listed(From(q, e))
         /\ Distinct(q) => /\ Distinct(From(q, e))
                           /\ \A x \in Listed(First(q, e)) : x \notin Listed(From(q, e))
<1>1. PICK n \in Nat : n = Len(q) /\ DOMAIN q = 1 .. n /\ e \in Nat /\ e <= n
  OBVIOUS
<1>2. PICK a \in Seq(S) : a = First(q, e) /\ DOMAIN a = 1 .. e /\ \A i \in 1 .. e : a[i] = q[i]
  <2>1. First(q, e) \in Seq(S) /\ Len(First(q, e)) = e
    BY FirstIs
  <2>2. \A i \in 1 .. e : First(q, e)[i] = q[i]
    BY FirstIs
  <2> QED  BY <2>1, <2>2, DomainOf
<1>3. PICK b \in Seq(S) : /\ b = From(q, e) /\ DOMAIN b = 1 .. n - e
                          /\ \A i \in 1 .. n - e : b[i] = q[e + i]
  <2>1. From(q, e) \in Seq(S) /\ Len(From(q, e)) = Len(q) - e
    BY FromIs
  <2>2. \A i \in 1 .. Len(q) - e : From(q, e)[i] = q[e + i]
    BY FromIs
  <2> QED  BY <1>1, <2>1, <2>2, DomainOf
<1>4. Listed(a) = {q[k] : k \in 1 .. e}
  BY <1>2 DEF Listed
<1>5. q = Joined(a, b)
  BY <1>2, <1>3, SplitAt
<1>6. Listed(q) = Listed(a) \cup Listed(b)
  BY <1>5, ListedJoined
<1>7. ASSUME Distinct(q)
      PROVE  Distinct(b) /\ \A x \in Listed(a) : x \notin Listed(b)
  <2>1. \A i, k \in 1 .. n : q[i] = q[k] => i = k
    BY <1>1, <1>7 DEF Distinct
  <2>2. \A i \in 1 .. n - e : e + i \in 1 .. n
    BY <1>1
  <2>3. Distinct(b)
    <3> SUFFICES ASSUME NEW i \in 1 .. n - e, NEW k \in 1 .. n - e, b[i] = b[k] PROVE i = k
      BY <1>3 DEF Distinct
    <3>1. e + i = e + k
      BY ZenonT(60), <1>3, <2>1, <2>2
    <3> QED  BY <1>1, <3>1
  <2>4. ASSUME NEW i \in 1 .. e, NEW k \in 1 .. n - e PROVE q[i] # b[k]
    <3>1. i \in 1 .. n /\ e + k \in 1 .. n /\ i # e + k
      BY <1>1
    <3> QED  BY <1>3, <2>1, <3>1
  <2> QED  BY ZenonT(60), <1>3, <1>4, <2>3, <2>4 DEF Listed
<1> QED  BY <1>2, <1>3, <1>4, <1>6, <1>7

\* What is left of a list by its first element.
LEMMA FromByFirst ==
  ASSUME NEW S, NEW q \in Seq(S), NEW e \in Nat, NEW m \in Nat, m = e + 1, m <= Len(q)
  PROVE  /\ q[m] \in S /\ From(q, m) \in Seq(S) /\ From(q, e) \in Seq(S)
         /\ From(q, e) = Joined(<<q[m]>>, From(q, m))
<1>1. e \in 0 .. Len(q) /\ m \in 0 .. Len(q) /\ m \in 1 .. Len(q)
  OBVIOUS
<1>2. PICK n \in Nat : n = Len(q) /\ m <= n
  OBVIOUS
<1>3. PICK b \in Seq(S) : /\ b = From(q, e) /\ Len(b) = n - e
                          /\ \A i \in 1 .. n - e : b[i] = q[e + i]
  <2>1. From(q, e) \in Seq(S) /\ Len(From(q, e)) = Len(q) - e
    BY <1>1, FromIs
  <2>2. \A i \in 1 .. Len(q) - e : From(q, e)[i] = q[e + i]
    BY <1>1, FromIs
  <2> QED  BY <1>2, <2>1, <2>2
<1>4. PICK d \in Seq(S) : /\ d = From(q, m) /\ Len(d) = n - m
                          /\ \A i \in 1 .. n - m : d[i] = q[m + i]
  <2>1. From(q, m) \in Seq(S) /\ Len(From(q, m)) = Len(q) - m
    BY <1>1, FromIs
  <2>2. \A i \in 1 .. Len(q) - m : From(q, m)[i] = q[m + i]
    BY <1>1, FromIs
  <2> QED  BY <1>2, <2>1, <2>2
<1>5. Len(b) >= 1
  BY <1>2, <1>3
<1>6. b # <<>>
  BY <1>5
<1>7. /\ Tail(b) \in Seq(S) /\ Len(Tail(b)) = n - m /\ b[1] = Head(b)
      /\ \A i \in 1 .. n - m : Tail(b)[i] = b[i + 1]
      /\ b = Joined(<<Head(b)>>, Tail(b))
  <2>1. Len(b) - 1 = n - m
    BY <1>2, <1>3
  <2> QED  BY <1>3, <1>6, <2>1, FirstOf
<1>8. Head(b) = q[m]
  BY <1>2, <1>3, <1>7
<1>9. PICK t \in Seq(S) : t = Tail(b)
  BY <1>7
<1>10. \A i \in 1 .. n - m : t[i] = d[i]
  <2> TAKE i \in 1 .. n - m
  <2>1. i + 1 \in 1 .. n - e /\ e + (i + 1) = m + i
    BY <1>2
  <2> QED  BY <1>3, <1>4, <1>7, <1>9, <2>1
<1>11. t = d
  BY <1>4, <1>7, <1>9, <1>10, SeqEqual
<1>12. q[m] \in S
  BY <1>1
<1>13. b = Joined(<<q[m]>>, d)
  BY <1>7, <1>8, <1>9, <1>11
<1> QED  BY <1>3, <1>4, <1>12, <1>13

\* How many records the first k of a list have.
Sent(out, q, k) == Len(Unsent(out, First(q, k)))

LEMMA SentNext ==
  ASSUME NEW out, Generations(out), NEW q \in Seq(Nat), Listed(q) \subseteq DOMAIN out,
         NEW k \in Nat, NEW m \in Nat, m = k + 1, m <= Len(q)
  PROVE  /\ Sent(out, q, k) \in Nat /\ out[q[m]].records \in Datas /\ Len(out[q[m]].records) \in Nat
         /\ Sent(out, q, m) = Sent(out, q, k) + Len(out[q[m]].records)
<1>1. k \in 0 .. Len(q) /\ m \in 1 .. Len(q)
  OBVIOUS
<1>2. PICK a \in Seq(Nat) : a = First(q, k) /\ Listed(a) \subseteq DOMAIN out
  <2>1. Listed(First(q, k)) \subseteq Listed(q)
    BY <1>1, ListedCut
  <2> QED  BY <1>1, <2>1, FirstIs
<1>3. First(q, m) = Append(a, q[m]) /\ q[m] \in Nat
  BY <1>2, FirstMore
<1>4. PICK b \in DOMAIN out : b = q[m]
  <2>1. m \in DOMAIN q
    BY <1>1
  <2> QED  BY <2>1, ListedIn
<1>5. PICK r \in Datas : r = out[b].records
  BY RecordsAre
<1>6. PICK u \in Datas : u = Unsent(out, a)
  BY <1>2, UnsentType
<1>7. Unsent(out, Append(a, b)) = Joined(u, r)
  BY <1>2, <1>5, <1>6, UnsentPut
<1>8. Len(u) \in Nat /\ Len(r) \in Nat /\ Len(Joined(u, r)) = Len(u) + Len(r)
  <2>1. u \in Seq(Nat) /\ r \in Seq(Nat)
    BY DEF Datas
  <2>2. Len(u) \in Nat /\ Len(r) \in Nat
    BY <2>1
  <2> QED  BY <2>1, <2>2, JoinedIs
<1> QED  BY <1>2, <1>3, <1>4, <1>5, <1>6, <1>7, <1>8 DEF Sent

LEMMA SentNone ==
  ASSUME NEW out, NEW q \in Seq(Nat)
  PROVE  Sent(out, q, 0) = 0
<1>1. First(q, 0) \in Seq(Nat) /\ Len(First(q, 0)) = 0
  <2>1. 0 \in 0 .. Len(q)
    OBVIOUS
  <2> QED  BY <2>1, FirstIs
<1>2. First(q, 0) = <<>>
  BY <1>1, NoneOf
<1>3. Unsent(out, First(q, 0)) = <<>>
  BY <1>2, UnsentNone
<1>4. Len(<<>>) = 0
  OBVIOUS
<1> QED  BY <1>3, <1>4 DEF Sent

\* Up to which of a list n records go.
LEMMA SentUpTo ==
  ASSUME NEW out, Generations(out), NEW q \in Seq(Nat), Listed(q) \subseteq DOMAIN out, NEW n \in Nat
  PROVE  \E e \in 0 .. Len(q) : \A k \in 1 .. Len(q) : Sent(out, q, k) <= n <=> k <= e
<1>1. PICK N \in Nat : N = Len(q)
  OBVIOUS
<1> DEFINE Upto(m) == \E e \in 0 .. m : \A k \in 1 .. m : Sent(out, q, k) <= n <=> k <= e
           S == {m \in Nat : m <= N => Upto(m)}
<1>2. 0 \in S
  <2>1. 0 \in 0 .. 0 /\ \A k \in 1 .. 0 : FALSE
    OBVIOUS
  <2> QED  BY <2>1
<1>3. ASSUME NEW m \in S PROVE m + 1 \in S
  <2> SUFFICES ASSUME m + 1 <= N PROVE Upto(m + 1)
    OBVIOUS
  <2>0. m \in Nat
    OBVIOUS
  <2>1. Upto(m)
    BY <1>1, <2>0
  <2>2. PICK e \in 0 .. m : \A k \in 1 .. m : Sent(out, q, k) <= n <=> k <= e
    BY <2>1
  <2> HIDE DEF S, Upto
  <2>3. e \in Nat /\ e <= m
    BY <2>0
  <2>4. PICK l \in Nat : l = m + 1 /\ l <= Len(q)
    BY <1>1, <2>0
  <2>5. /\ Sent(out, q, m) \in Nat /\ Len(out[q[l]].records) \in Nat
        /\ Sent(out, q, l) = Sent(out, q, m) + Len(out[q[l]].records)
    BY <2>0, <2>4, SentNext
  <2>6. PICK v \in Nat, w \in Nat : v = Sent(out, q, m) /\ w = Sent(out, q, l) /\ v <= w
    BY <2>5
  <2>7. CASE w <= n
    <3>1. e = m
      <4>1. CASE m = 0
        BY <2>3, <4>1
      <4>2. CASE m # 0
        <5>1. m \in 1 .. m
          BY <2>0, <4>2
        <5>2. v <= n
          BY <2>6, <2>7
        <5>3. m <= e
          BY <2>2, <2>6, <5>1, <5>2
        <5> QED  BY <2>0, <2>3, <5>3
      <4> QED  BY <4>1, <4>2
    <3>2. l \in 0 .. m + 1
      BY <2>0, <2>4
    <3>3. \A k \in 1 .. m + 1 : Sent(out, q, k) <= n <=> k <= l
      <4> TAKE k \in 1 .. m + 1
      <4>1. k \in Nat /\ k <= l /\ (k = l \/ k \in 1 .. m)
        BY <2>0, <2>3, <2>4
      <4>2. k = l \/ k <= e
        BY <2>3, <2>4, <3>1, <4>1
      <4> QED  BY <2>2, <2>6, <2>7, <4>1, <4>2
    <3> QED  BY <3>2, <3>3 DEF Upto
  <2>8. CASE ~(w <= n)
    <3>1. e \in 0 .. m + 1
      BY <2>0, <2>3
    <3>2. \A k \in 1 .. m + 1 : Sent(out, q, k) <= n <=> k <= e
      <4> TAKE k \in 1 .. m + 1
      <4>1. k = l \/ k \in 1 .. m
        BY <2>0, <2>3, <2>4
      <4>2. ~(l <= e)
        BY <2>0, <2>3, <2>4
      <4> QED  BY <2>2, <2>6, <2>8, <4>1, <4>2
    <3> QED  BY <3>1, <3>2 DEF Upto
  <2> QED  BY <2>7, <2>8
<1> HIDE DEF S
<1>4. S = Nat
  BY <1>2, <1>3, Induct DEF S
<1>5. Upto(N)
  <2> HIDE DEF Upto
  <2>1. N \in S
    BY <1>4
  <2> QED  BY <2>1 DEF S
<1> QED  BY <1>1, <1>5

LEMMA SentIs ==
  ASSUME NEW tx, tx.unsent \in Seq(Nat), NEW k \in 0 .. Len(tx.unsent)
  PROVE  RecordsBefore(tx, k) = Sent(tx.out, tx.unsent, k)
<1>1. PICK q \in Seq(Nat) : q = tx.unsent
  OBVIOUS
<1>2. PICK f \in Seq(Nat) : f = First(q, k) /\ Len(f) = k /\ \A i \in 1 .. k : f[i] = q[i]
  <2>1. First(q, k) \in Seq(Nat) /\ Len(First(q, k)) = k
    BY <1>1, FirstIs
  <2>2. \A i \in 1 .. k : First(q, k)[i] = q[i]
    BY <1>1, FirstIs
  <2> QED  BY <2>1, <2>2
<1>3. RecordsOf(tx.out, f) = [j \in 1 .. k |-> tx.out[q[j]].records]
  BY <1>2 DEF RecordsOf
<1> QED  BY <1>1, <1>2, <1>3 DEF RecordsBefore, Sent, Unsent

\* As many generations are drained as go whole.
LEMMA DrainedIs ==
  ASSUME NEW tx, Generations(tx.out), tx.unsent \in Seq(Nat), Listed(tx.unsent) \subseteq DOMAIN tx.out,
         NEW n \in Nat
  PROVE  \E e \in 0 .. Len(tx.unsent) :
           /\ DrainedBy(tx, n) = e
           /\ \A k \in 1 .. Len(tx.unsent) : Sent(tx.out, tx.unsent, k) <= n <=> k <= e
<1>1. PICK e \in 0 .. Len(tx.unsent) :
        \A k \in 1 .. Len(tx.unsent) : Sent(tx.out, tx.unsent, k) <= n <=> k <= e
  BY SentUpTo
<1>2. PICK N \in Nat : N = Len(tx.unsent) /\ e \in Nat /\ e <= N
  OBVIOUS
<1>3. \A k \in 1 .. N : RecordsBefore(tx, k) = Sent(tx.out, tx.unsent, k)
  <2> TAKE k \in 1 .. N
  <2>1. k \in 0 .. Len(tx.unsent)
    BY <1>2
  <2> QED  BY <2>1, SentIs
<1>4. {k \in 1 .. N : RecordsBefore(tx, k) <= n} = 1 .. e
  BY <1>1, <1>2, <1>3
<1>5. Cardinality(1 .. e) = e
  BY <1>2, FS_Interval
<1> QED  BY <1>1, <1>2, <1>4, <1>5 DEF DrainedBy

\* What a flush of n records makes of the generations, when e of those that wait
\* are drained.
Went(out, q, e, n) ==
  [i \in DOMAIN out |->
     IF \E k \in 1 .. e : i = q[k] THEN EmptyGeneration
     ELSE IF e < Len(q) /\ i = q[e + 1]
     THEN [out[i] EXCEPT !.records = From(out[i].records, n - Sent(out, q, e))]
     ELSE out[i]]

LEMMA SeqMade ==
  ASSUME NEW S, NEW n \in Nat, NEW f \in [1 .. n -> S]
  PROVE  f \in Seq(S) /\ Len(f) = n
OBVIOUS

LEMMA WentIs ==
  ASSUME NEW out, Generations(out), NEW q \in Seq(Nat), Distinct(q), Listed(q) \subseteq DOMAIN out,
         \A b \in Listed(q) : out[b].pinned = 0,
         NEW e \in 0 .. Len(q), NEW n \in Nat, Sent(out, q, e) <= n,
         \A k \in 1 .. Len(q) : Sent(out, q, k) <= n <=> k <= e
  PROVE  LET new == Went(out, q, e, n) IN
         /\ Generations(new) /\ DOMAIN new = DOMAIN out
         /\ \A b \in Listed(First(q, e)) : new[b] = EmptyGeneration
         /\ \A b \in DOMAIN out : b \notin Listed(q) => new[b] = out[b]
         /\ \A b \in DOMAIN out : new[b].pinned = out[b].pinned
         /\ \A k \in 1 .. Len(q) : k > e + 1 => new[q[k]] = out[q[k]]
         /\ e < Len(q) =>
              /\ n - Sent(out, q, e) \in 0 .. Len(out[q[e + 1]].records)
              /\ new[q[e + 1]].records = From(out[q[e + 1]].records, n - Sent(out, q, e))
              /\ new[q[e + 1]].records # <<>>
<1>1. PICK N \in Nat : N = Len(q) /\ DOMAIN q = 1 .. N /\ e \in Nat /\ e <= N
  OBVIOUS
<1>2. PICK m \in Nat : m = Len(out) /\ DOMAIN out = 1 .. m /\ out \in Seq(Generation)
  BY DEF Generations
<1>3. \A i, k \in 1 .. N : q[i] = q[k] => i = k
  BY <1>1 DEF Distinct
<1>4. \A k \in 1 .. N : q[k] \in DOMAIN out /\ out[q[k]].pinned = 0
  BY <1>1, ListedIn
<1>5. PICK u \in Nat : u = n - Sent(out, q, e) /\ Sent(out, q, e) \in Nat
  <2>1. CASE e = 0
    BY <2>1, SentNone
  <2>2. CASE e # 0
    <3>1. PICK k \in Nat : e = k + 1
      <4>1. e - 1 \in Nat /\ e = (e - 1) + 1
        BY <1>1, <2>2
      <4> QED  BY <4>1
    <3>0. e \in Nat /\ e = k + 1 /\ e <= Len(q)
      BY <1>1, <3>1
    <3>2. /\ Sent(out, q, k) \in Nat /\ Len(out[q[e]].records) \in Nat
          /\ Sent(out, q, e) = Sent(out, q, k) + Len(out[q[e]].records)
      BY ONLY <3>0, k \in Nat, Generations(out), q \in Seq(Nat), Listed(q) \subseteq DOMAIN out, SentNext
    <3>3. \A a, b, c \in Nat : a = b + c => a \in Nat
      OBVIOUS
    <3>4. PICK v \in Nat, w \in Nat : Sent(out, q, e) = v + w
      BY <3>2
    <3>6. v + w \in Nat
      OBVIOUS
    <3>5. Sent(out, q, e) \in Nat
      BY <3>4, <3>6
    <3> QED  BY <3>5
  <2> QED  BY <2>1, <2>2
<1>6. PICK new : new = Went(out, q, e, n)
  OBVIOUS
<1>7. /\ DOMAIN new = DOMAIN out /\ new = [i \in DOMAIN out |-> new[i]]
      /\ \A i \in DOMAIN out :
           new[i] = IF \E k \in 1 .. e : i = q[k] THEN EmptyGeneration
                    ELSE IF e < N /\ i = q[e + 1]
                    THEN [out[i] EXCEPT !.records = From(out[i].records, u)] ELSE out[i]
  BY <1>1, <1>5, <1>6 DEF Went
<1>8. Listed(First(q, e)) = {q[k] : k \in 1 .. e}
  BY ListedCut
<1>9. \A k \in 1 .. e : k \in 1 .. N /\ new[q[k]] = EmptyGeneration
  BY <1>1, <1>4, <1>7
<1>10. \A b \in DOMAIN out : b \notin Listed(q) => new[b] = out[b]
  <2> SUFFICES ASSUME NEW b \in DOMAIN out, b \notin Listed(q) PROVE new[b] = out[b]
    OBVIOUS
  <2>1. \A k \in 1 .. N : b # q[k]
    BY <1>1, ListedIn
  <2>2. \A k \in 1 .. e : b # q[k]
    BY <1>9, <2>1
  <2>3. e < N => e + 1 \in 1 .. N
    BY <1>1
  <2> QED  BY <1>7, <2>1, <2>2, <2>3
<1>11. ASSUME NEW k \in 1 .. N, k > e + 1 PROVE new[q[k]] = out[q[k]]
  <2>1. \A j \in 1 .. e : q[k] # q[j]
    BY <1>1, <1>3, <1>9, <1>11
  <2>2. e < N => q[k] # q[e + 1]
    <3>1. e < N => e + 1 \in 1 .. N /\ k # e + 1
      BY <1>1, <1>11
    <3> QED  BY <1>3, <3>1
  <2> QED  BY <1>4, <1>7, <2>1, <2>2
<1>12. ASSUME e < N
       PROVE  \E l \in 1 .. N, r \in Datas :
                /\ l = e + 1 /\ r = out[q[l]].records /\ u \in 0 .. Len(r) /\ u < Len(r)
                /\ From(r, u) \in Datas /\ From(r, u) # <<>>
                /\ new[q[l]] = [out[q[l]] EXCEPT !.records = From(r, u)]
                /\ new[q[l]] \in Generation /\ new[q[l]].records = From(r, u) /\ new[q[l]].pinned = 0
  <2>1. PICK l \in 1 .. N : l = e + 1 /\ l \in Nat /\ l <= N
    <3>1. e + 1 \in 1 .. N
      BY <1>1, <1>12
    <3> QED  BY <3>1
  <2>20. e \in Nat /\ l \in Nat /\ l = e + 1 /\ l <= Len(q)
    BY <1>1, <2>1
  <2>21. /\ out[q[l]].records \in Datas
         /\ Sent(out, q, l) = Sent(out, q, e) + Len(out[q[l]].records)
    BY <2>20, SentNext
  <2>2. PICK r \in Datas : r = out[q[l]].records /\ Sent(out, q, l) = Sent(out, q, e) + Len(r)
    BY <2>21
  <2>3. Len(r) \in Nat /\ r \in Seq(Nat)
    BY DEF Datas
  <2>4. ~(Sent(out, q, l) <= n)
    <3>1. ~(l <= e)
      BY <1>1, <2>1
    <3> QED  BY <1>1, <3>1
  <2>5. u < Len(r)
    BY ONLY <1>5, <2>2, <2>3, <2>4
  <2>6. u \in 0 .. Len(r)
    BY <2>3, <2>5
  <2>7. From(r, u) \in Datas /\ Len(From(r, u)) = Len(r) - u
    BY <2>3, <2>6, FromIs DEF Datas
  <2>8. From(r, u) # <<>>
    BY <2>3, <2>5, <2>7
  <2>9. \A k \in 1 .. e : q[l] # q[k]
    BY <1>1, <1>3, <1>9, <2>1
  <2>10. new[q[l]] = [out[q[l]] EXCEPT !.records = From(r, u)]
    BY <1>4, <1>7, <1>12, <2>1, <2>2, <2>9
  <2>11. PICK g : g = out[q[l]]
    OBVIOUS
  <2>12. g \in [records : Datas, pinned : Nat] /\ g.pinned = 0
    <3>1. q[l] \in DOMAIN out /\ out[q[l]].pinned = 0
      BY <1>4, <2>1
    <3>2. out[q[l]] \in Generation
      BY <3>1, RecordsAre
    <3> QED  BY <2>11, <3>1, <3>2 DEF Generation
  <2>13. PICK d \in Datas : d = From(r, u)
    BY <2>7
  <2>14. [g EXCEPT !.records = d] \in Generation /\ [g EXCEPT !.records = d].records = d
         /\ [g EXCEPT !.records = d].pinned = 0
    <3>1. DOMAIN g = {"records", "pinned"}
      BY <2>12
    <3>2. [g EXCEPT !.records = d] = [records |-> d, pinned |-> 0]
      BY <2>12, <3>1
    <3>3. [records |-> d, pinned |-> 0] \in [records : Datas, pinned : Nat]
      OBVIOUS
    <3> QED  BY <3>2, <3>3 DEF Generation
  <2>15. new[q[l]] \in Generation /\ new[q[l]].records = d /\ new[q[l]].pinned = 0
    BY <2>10, <2>11, <2>13, <2>14
  <2>16. /\ l = e + 1 /\ r = out[q[l]].records /\ u \in 0 .. Len(r) /\ u < Len(r)
         /\ From(r, u) \in Datas /\ From(r, u) # <<>>
         /\ new[q[l]] = [out[q[l]] EXCEPT !.records = From(r, u)]
         /\ new[q[l]] \in Generation /\ new[q[l]].records = From(r, u) /\ new[q[l]].pinned = 0
    BY <2>1, <2>2, <2>5, <2>6, <2>7, <2>8, <2>10, <2>13, <2>15
  <2> QED  BY <2>16
<1>13. \A b \in DOMAIN out : new[b] \in Generation /\ new[b].pinned = out[b].pinned
  <2> TAKE b \in DOMAIN out
  <2>1. out[b] \in Generation
    BY <1>2
  <2>2. CASE b \notin Listed(q)
    BY <1>10, <2>1, <2>2
  <2>3. CASE b \in Listed(q)
    <3>1. PICK k \in 1 .. N : b = q[k]
      BY <1>1, <2>3 DEF Listed
    <3>2. CASE k <= e
      <4>1. k \in 1 .. e
        BY <1>1, <3>2
      <4> QED  BY <1>4, <1>9, <3>1, <4>1, EmptyIs
    <3>3. CASE k = e + 1
      <4>1. e < N
        BY <1>1, <3>3
      <4> QED  BY <1>4, <1>12, <3>1, <3>3, <4>1
    <3>4. CASE k > e + 1
      BY <1>11, <2>1, <3>1, <3>4
    <3>5. k <= e \/ k = e + 1 \/ k > e + 1
      BY <1>1
    <3> QED  BY <3>2, <3>3, <3>4, <3>5
  <2> QED  BY <2>2, <2>3
<1>14. Generations(new)
  <2>1. new \in [1 .. m -> Generation]
    BY <1>2, <1>7, <1>13
  <2>2. new \in Seq(Generation)
    BY <2>1, SeqMade
  <2> QED  BY <2>2 DEF Generations
<1>15. e < N => /\ u \in 0 .. Len(out[q[e + 1]].records)
                /\ new[q[e + 1]].records = From(out[q[e + 1]].records, u)
                /\ new[q[e + 1]].records # <<>>
  BY <1>12
<1> QED  BY <1>1, <1>5, <1>6, <1>7, <1>8, <1>9, <1>10, <1>11, <1>13, <1>14, <1>15

\* What is free behind the first k of those that waited, when they are drained.
FreedNext(q, fill, was, x) == IF x = fill THEN was ELSE Joined(<<x>>, was)
IsFreeing(q, fill, free, n, r) ==
  r = [k \in 0 .. n |-> IF k = 0 THEN free ELSE FreedNext(q, fill, r[k - 1], q[k])]

LEMMA FreeingExists ==
  ASSUME NEW q, NEW fill, NEW free, NEW n \in Nat
  PROVE  \E r : IsFreeing(q, fill, free, n, r)
<1> DEFINE g(r, k) == IF k = 0 THEN free ELSE FreedNext(q, fill, r[k - 1], q[k])
           Is(r, m) == DOMAIN r = 0 .. m /\ r = [k \in DOMAIN r |-> r[k]]
                       /\ \A k \in 0 .. m : r[k] = g(r, k)
           S == {m \in Nat : \E r : Is(r, m)}
<1>0. \A r, m : Is(r, m) => r = [k \in 0 .. m |-> g(r, k)]
  <2> HIDE DEF g
  <2> QED  OBVIOUS
<1>1. 0 \in S
  <2>1. Is([k \in 0 .. 0 |-> free], 0)
    OBVIOUS
  <2> QED  BY <2>1
<1>2. ASSUME NEW m \in S PROVE m + 1 \in S
  <2>1. PICK t : Is(t, m)
    OBVIOUS
  <2> DEFINE more == FreedNext(q, fill, t[m], q[m + 1])
             u == [k \in 0 .. m + 1 |-> IF k <= m THEN t[k] ELSE more]
  <2>2. \A k \in 0 .. m : u[k] = t[k]
    OBVIOUS
  <2>3. u[m + 1] = more /\ u[m] = t[m]
    OBVIOUS
  <2>4. DOMAIN u = 0 .. m + 1 /\ u = [k \in DOMAIN u |-> u[k]]
    OBVIOUS
  <2> HIDE DEF u
  <2>5. \A k \in 0 .. m : u[k] = g(u, k)
    <3> TAKE k \in 0 .. m
    <3>1. u[k] = t[k] /\ t[k] = g(t, k)
      BY <2>1, <2>2
    <3>2. CASE k = 0
      BY <3>1, <3>2
    <3>3. CASE k # 0
      <4>1. k - 1 \in 0 .. m
        BY <3>3
      <4>2. u[k - 1] = t[k - 1]
        BY <2>2, <4>1
      <4>3. /\ g(t, k) = FreedNext(q, fill, t[k - 1], q[k])
            /\ g(u, k) = FreedNext(q, fill, u[k - 1], q[k])
        BY <3>3, Zenon
      <4> QED  BY <3>1, <4>2, <4>3
    <3> QED  BY <3>2, <3>3
  <2>6. u[m + 1] = g(u, m + 1)
    <3>1. ~(m + 1 = 0) /\ m + 1 - 1 = m
      OBVIOUS
    <3>2. PICK k : k = m + 1 /\ k # 0
      BY <3>1
    <3>3. g(u, k) = FreedNext(q, fill, u[k - 1], q[k])
      BY <3>2
    <3> QED  BY <2>3, <3>1, <3>2, <3>3
  <2> HIDE DEF g
  <2>7. \A k \in 0 .. m + 1 : u[k] = g(u, k)
    <3> TAKE k \in 0 .. m + 1
    <3>1. k = m + 1 \/ k \in 0 .. m
      OBVIOUS
    <3> QED  BY <2>5, <2>6, <3>1
  <2> QED  BY <2>4, <2>7
<1> HIDE DEF S
<1>3. S = Nat
  BY <1>1, <1>2, Induct DEF S
<1>4. PICK r : Is(r, n)
  BY <1>3 DEF S
<1>5. r = [k \in 0 .. n |-> g(r, k)]
  BY <1>0, <1>4
<1> QED  BY <1>5, Zenon DEF IsFreeing

LEMMA FreeingIs ==
  ASSUME NEW q, NEW fill, NEW free, NEW n \in Nat, NEW r, IsFreeing(q, fill, free, n, r)
  PROVE  r[0] = free /\ \A k \in 1 .. n : r[k] = FreedNext(q, fill, r[k - 1], q[k])
<1>1. r = [k \in 0 .. n |-> IF k = 0 THEN free ELSE FreedNext(q, fill, r[k - 1], q[k])]
  BY Zenon DEF IsFreeing
<1>2. \A k \in 0 .. n : r[k] = IF k = 0 THEN free ELSE FreedNext(q, fill, r[k - 1], q[k])
  <2> TAKE k \in 0 .. n
  <2> DEFINE f(i) == IF i = 0 THEN free ELSE FreedNext(q, fill, r[i - 1], q[i])
  <2>1. r = [i \in 0 .. n |-> f(i)]
    BY <1>1, Zenon
  <2> HIDE DEF f
  <2>2. r[k] = f(k)
    BY <2>1
  <2> QED  BY <2>2 DEF f
<1>3. 0 \in 0 .. n /\ \A k \in 1 .. n : k \in 0 .. n /\ k # 0
  OBVIOUS
<1> QED  BY <1>2, <1>3

\* The drained generations are free, but the fill.
LEMMA FreedAre ==
  ASSUME NEW q \in Seq(Nat), Distinct(q), NEW free \in Seq(Nat), Distinct(free), NEW fill,
         \A b \in Listed(q) : b \notin Listed(free),
         NEW r, IsFreeing(q, fill, free, Len(q), r), NEW e \in 0 .. Len(q)
  PROVE  /\ r[e] \in Seq(Nat) /\ Distinct(r[e])
         /\ Listed(r[e]) = Listed(free) \cup (Listed(First(q, e)) \ {fill})
<1>1. PICK N \in Nat : N = Len(q) /\ DOMAIN q = 1 .. N
  OBVIOUS
<1>2. r[0] = free /\ \A k \in 1 .. N : r[k] = FreedNext(q, fill, r[k - 1], q[k])
  <2>1. IsFreeing(q, fill, free, N, r)
    BY <1>1
  <2> QED  BY ONLY <2>1, N \in Nat, FreeingIs
<1> DEFINE Free(k, x) == /\ x \in Seq(Nat) /\ Distinct(x)
                         /\ Listed(x) = Listed(free) \cup (Listed(First(q, k)) \ {fill})
           S == {k \in Nat : k <= N => Free(k, r[k])}
<1>3. 0 \in S
  <2>1. First(q, 0) = <<>>
    <3>1. 0 \in 0 .. Len(q)
      BY <1>1
    <3>2. First(q, 0) \in Seq(Nat) /\ Len(First(q, 0)) = 0
      BY <3>1, FirstIs
    <3> QED  BY <3>2, NoneOf
  <2>2. Listed(<<>>) = {}
    BY NothingListed
  <2> QED  BY <1>2, <2>1, <2>2
<1>4. ASSUME NEW k \in S PROVE k + 1 \in S
  <2> SUFFICES ASSUME k + 1 <= N PROVE Free(k + 1, r[k + 1])
    OBVIOUS
  <2>1. PICK m \in Nat : m = k + 1 /\ m <= N /\ k \in Nat /\ m - 1 = k /\ m \in 1 .. N /\ k \in 0 .. N
                         /\ m \in 0 .. N
    OBVIOUS
  <2>2. Free(k, r[k])
    BY <2>1
  <2> HIDE DEF S
  <2>3. PICK was \in Seq(Nat) : was = r[k] /\ Free(k, was)
    BY <2>2
  <2>4. PICK x \in Nat : x = q[m] /\ x \in Listed(q)
    BY <1>1, <2>1, ListedIn
  <2>5. r[m] = FreedNext(q, fill, was, x)
    BY <1>2, <2>1, <2>3, <2>4
  <2>6. Listed(First(q, m)) = Listed(First(q, k)) \cup {x}
    <3>0. k \in Nat /\ m = k + 1 /\ m <= Len(q)
      BY <1>1, <2>1
    <3>1. First(q, m) = Append(First(q, k), q[m])
      BY <3>0, FirstMore
    <3>2. First(q, k) \in Seq(Nat)
      BY <1>1, <2>1, FirstIs
    <3> QED  BY <2>4, <3>1, <3>2, ListedAppend
  <2>7. x \notin Listed(First(q, k))
    <3>0. k \in 0 .. Len(q)
      BY <1>1, <2>1
    <3>1. Listed(First(q, k)) = {q[i] : i \in 1 .. k}
      BY <3>0, ListedCut
    <3>2. \A i \in 1 .. k : i \in 1 .. N /\ i # m
      BY <2>1
    <3>3. \A i \in 1 .. k : q[i] # q[m]
      BY <1>1, <2>1, <3>2 DEF Distinct
    <3> QED  BY <2>4, <3>1, <3>3
  <2>8. x # fill => x \notin Listed(was)
    BY <2>3, <2>4, <2>7
  <2>9. CASE x = fill
    <3>1. r[m] = was
      BY <2>5, <2>9 DEF FreedNext
    <3>2. Listed(First(q, m)) \ {fill} = Listed(First(q, k)) \ {fill}
      BY <2>6, <2>9
    <3> QED  BY <2>1, <2>3, <3>1, <3>2
  <2>10. CASE x # fill
    <3>1. r[m] = Joined(<<x>>, was)
      BY <2>5, <2>10 DEF FreedNext
    <3>2. Joined(<<x>>, was) \in Seq(Nat) /\ Listed(Joined(<<x>>, was)) = {x} \cup Listed(was)
      <4>1. Joined(<<x>>, was) \in Seq(Nat)
        BY ListedPut
      <4>2. Listed(Joined(<<x>>, was)) = {x} \cup Listed(was)
        BY ONLY x \in Nat, was \in Seq(Nat), ListedPut
      <4> QED  BY <4>1, <4>2
    <3>3. Distinct(Joined(<<x>>, was))
      BY <2>3, <2>8, <2>10, ListedPut
    <3>4. Listed(First(q, m)) \ {fill} = (Listed(First(q, k)) \ {fill}) \cup {x}
      BY <2>6, <2>10
    <3> QED  BY <2>1, <2>3, <3>1, <3>2, <3>3, <3>4
  <2> QED  BY <2>9, <2>10
<1> HIDE DEF S, Free
<1>5. S = Nat
  BY <1>3, <1>4, Induct DEF S
<1>6. e \in Nat /\ e <= N
  BY <1>1
<1>7. Free(e, r[e])
  BY <1>5, <1>6 DEF S
<1> QED  BY <1>7 DEF Free

-----------------------------------------------------------------------------
(* The operations of the send half.                                        *)

TxFields ==
  {"out", "fill", "unsent", "free", "nPinned", "nPinnedBytes", "pending", "unpinned",
   "depth", "window", "effective", "completion"}

TxOk(tx) ==
  /\ DOMAIN tx = TxFields
  /\ Arranged(tx.out, tx.fill, tx.unsent, tx.free)
  /\ tx.nPinned = Cardinality(Pins(tx.out))

Left(tx) == Unsent(tx.out, tx.unsent)

\* What is pinned stays as it is.
Holding(out, new) ==
  \A b \in DOMAIN out : out[b].pinned # 0 => b \in DOMAIN new /\ new[b] = out[b]

\* The generations of one are those of the other.
TxAs(tx, d) ==
  /\ DOMAIN d = DOMAIN tx /\ d.out = tx.out /\ d.fill = tx.fill /\ d.unsent = tx.unsent
  /\ d.free = tx.free /\ d.nPinned = tx.nPinned

LEMMA TxStays ==
  ASSUME NEW tx, NEW d, TxOk(tx), TxAs(tx, d)
  PROVE  TxOk(d) /\ Left(d) = Left(tx) /\ d.out = tx.out
BY DEF TxOk, TxAs, Left

LEMMA TxWindows ==
  ASSUME NEW tx, TxOk(tx), NEW n
  PROVE  /\ TxAs(tx, WithWindow(tx, n)) /\ TxAs(tx, WithDepth(tx, n))
         /\ TxAs(tx, [tx EXCEPT !.effective = n]) /\ TxAs(tx, [tx EXCEPT !.completion = n])
         /\ TxAs(tx, tx)
BY DEF TxOk, TxFields, TxAs, WithWindow, WithDepth

LEMMA TxGrown ==
  ASSUME NEW tx, TxOk(tx), NEW d \in GrownWindows(tx)
  PROVE  TxAs(tx, d)
<1>1. d = tx \/ \E n : d = [tx EXCEPT !.effective = n]
  BY DEF GrownWindows
<1> QED  BY ZenonT(60), <1>1, TxWindows

LEMMA TxAsOnward ==
  ASSUME NEW tx, NEW d, NEW e, TxAs(tx, d), TxAs(d, e)
  PROVE  TxAs(tx, e)
BY DEF TxAs

LEMMA PinsFinite ==
  ASSUME NEW out, Generations(out)
  PROVE  IsFiniteSet(Pins(out)) /\ Cardinality(Pins(out)) \in Nat
         /\ (Cardinality(Pins(out)) = 0 => Pins(out) = {})
<1>1. PICK n \in Nat : n = Len(out) /\ DOMAIN out = 1 .. n
  BY DEF Generations
<1>2. IsFiniteSet(1 .. n)
  BY FS_Interval
<1>3. IsFiniteSet(Pins(out))
  BY <1>1, <1>2, FS_Subset DEF Pins
<1> QED  BY <1>3, FS_CardinalityType, FS_EmptySet

LEMMA GenerationWith ==
  ASSUME NEW g \in Generation, NEW x
  PROVE  /\ [g EXCEPT !.records = x] = [records |-> x, pinned |-> g.pinned]
         /\ [g EXCEPT !.pinned = x] = [records |-> g.records, pinned |-> x]
BY DEF Generation

\* Of what is pinned, nothing comes or goes.
LEMMA PinsAs ==
  ASSUME NEW out, NEW new, DOMAIN new = DOMAIN out,
         \A b \in DOMAIN out : new[b].pinned # 0 <=> out[b].pinned # 0
  PROVE  Pins(new) = Pins(out)
BY DEF Pins

LEMMA TxGains ==
  ASSUME NEW tx, TxOk(tx), NEW x \in Datas
  PROVE  LET d == Gain(tx, x) IN
         TxOk(d) /\ Left(d) = Joined(Left(tx), x) /\ Holding(tx.out, d.out)
<1>0. /\ Generations(tx.out) /\ tx.fill \in DOMAIN tx.out /\ tx.out[tx.fill].pinned = 0
      /\ tx.out[tx.fill].records \in Datas /\ DOMAIN tx = TxFields
  BY ArrangedIs DEF TxOk
<1>1. PICK g : g = [records |-> Joined(tx.out[tx.fill].records, x), pinned |-> 0]
  OBVIOUS
<1>2. PICK d : d = Gain(tx, x)
  OBVIOUS
<1>3. /\ DOMAIN d = TxFields /\ d.fill = tx.fill /\ d.free = tx.free /\ d.nPinned = tx.nPinned
      /\ d.unsent = (IF tx.out[tx.fill].records = <<>> /\ x # <<>> THEN Append(tx.unsent, tx.fill)
                     ELSE tx.unsent)
  BY <1>0, <1>2 DEF Gain, AppendToFill, TxFields
<1>4. d.out = [tx.out EXCEPT ![tx.fill] = [tx.out[tx.fill] EXCEPT !.records = tx.out[tx.fill].records \o x]]
  BY <1>0, <1>2 DEF Gain, AppendToFill, TxFields
<1>5. d.out = Changed(tx.out, tx.fill, g)
  <2>1. tx.out[tx.fill] \in Generation
    BY <1>0, RecordsAre
  <2>2. [tx.out[tx.fill] EXCEPT !.records = tx.out[tx.fill].records \o x] = g
    BY <1>0, <1>1, <2>1, GenerationWith DEF Joined
  <2> QED  BY <1>4, <2>2 DEF Changed
<1>6. PICK more : more = d.unsent
  OBVIOUS
<1>7. LET new == Changed(tx.out, tx.fill, g) IN
      /\ Arranged(new, tx.fill, more, tx.free)
      /\ DOMAIN new = DOMAIN tx.out /\ \A b \in DOMAIN tx.out : b # tx.fill => new[b] = tx.out[b]
      /\ new[tx.fill].records = Joined(tx.out[tx.fill].records, x)
      /\ Unsent(new, more) = Joined(Unsent(tx.out, tx.unsent), x)
  <2>1. Arranged(tx.out, tx.fill, tx.unsent, tx.free)
    BY DEF TxOk
  <2>2. more = GainedWait(tx.out, tx.fill, tx.unsent, x) /\ g = GainedFill(tx.out, tx.fill, x)
    BY <1>1, <1>3, <1>6 DEF GainedFill, GainedWait
  <2> QED  BY <2>1, <2>2, Gains
<1>8. d.out[tx.fill].pinned = 0
  BY <1>3, <1>5, <1>7, ArrangedIs
<1>9. Pins(d.out) = Pins(tx.out)
  BY <1>0, <1>5, <1>7, <1>8, PinsAs
<1>10. Holding(tx.out, d.out)
  BY <1>0, <1>5, <1>7 DEF Holding
<1>11. TxOk(d)
  BY <1>3, <1>5, <1>6, <1>7, <1>9 DEF TxOk
<1> QED  BY <1>2, <1>5, <1>6, <1>7, <1>10, <1>11 DEF Left

LEMMA PinsMore ==
  ASSUME NEW out, Generations(out), NEW new, DOMAIN out \subseteq DOMAIN new, NEW i \in DOMAIN out,
         out[i].pinned = 0, new[i].pinned # 0,
         \A b \in DOMAIN new : b # i => ((b \in DOMAIN out /\ out[b].pinned # 0) <=> new[b].pinned # 0)
  PROVE  Cardinality(Pins(new)) = Cardinality(Pins(out)) + 1
<1>1. Pins(new) = Pins(out) \cup {i} /\ i \notin Pins(out)
  BY DEF Pins
<1>2. IsFiniteSet(Pins(out))
  BY ONLY Generations(out), PinsFinite
<1> QED  BY ONLY <1>1, <1>2, FS_AddElement

LEMMA PinsLess ==
  ASSUME NEW out, Generations(out), NEW new, DOMAIN new = DOMAIN out, NEW i \in DOMAIN out,
         out[i].pinned # 0, new[i].pinned = 0,
         \A b \in DOMAIN out : b # i => (out[b].pinned # 0 <=> new[b].pinned # 0)
  PROVE  Cardinality(Pins(new)) = Cardinality(Pins(out)) - 1
<1>1. Pins(new) = Pins(out) \ {i} /\ i \in Pins(out)
  BY DEF Pins
<1> QED  BY ZenonT(60), <1>1, PinsFinite, FS_RemoveElement

LEMMA LenSome ==
  ASSUME NEW x \in Datas
  PROVE  Len(x) \in Nat /\ (x # <<>> => Len(x) # 0)
<1>1. x \in Seq(Nat)
  BY DEF Datas
<1> QED  BY <1>1, NoneOf

\* f_BeginSend
LEMMA TxBegins ==
  ASSUME NEW tx, TxOk(tx), tx.unsent # <<>>, NEW i, i = Head(tx.unsent)
  PROVE  LET d == BeginSend(tx) IN
         /\ TxOk(d) /\ Left(tx) = Joined(tx.out[i].records, Left(d)) /\ Holding(tx.out, d.out)
         /\ i \in DOMAIN tx.out /\ tx.out[i].pinned = 0 /\ tx.out[i].records \in Datas
         /\ i \in DOMAIN d.out /\ d.out[i].pinned # 0 /\ d.out[i].records = tx.out[i].records
<1>0. PICK out, fill, unsent, free :
        /\ out = tx.out /\ fill = tx.fill /\ unsent = tx.unsent /\ free = tx.free
        /\ Arranged(out, fill, unsent, free) /\ DOMAIN tx = TxFields /\ unsent # <<>> /\ i = Head(unsent)
  BY DEF TxOk
<1>1. /\ Generations(out) /\ unsent \in Seq(Nat) /\ free \in Seq(Nat) /\ Distinct(free)
      /\ Listed(unsent) \subseteq DOMAIN out /\ Listed(free) \subseteq DOMAIN out
      /\ \A b \in Listed(unsent) : out[b].pinned = 0 /\ out[b].records # <<>>
      /\ \A b \in Listed(free) : out[b].pinned = 0 /\ out[b].records = <<>>
  BY <1>0, ArrangedIs
<1>2. i \in Listed(unsent) /\ i \in DOMAIN out
  BY <1>0, <1>1, ListedTail
<1>3. out[i] \in Generation /\ out[i].records \in Datas /\ out[i].pinned = 0
  BY <1>1, <1>2, RecordsAre
<1>4. PICK n \in Nat : n = Len(out[i].records) /\ n # 0
  BY <1>1, <1>2, <1>3, LenSome
<1>5. PICK g : g = [records |-> out[i].records, pinned |-> n]
  OBVIOUS
<1>6. PICK new : new = Changed(out, i, g)
  OBVIOUS
<1>7. /\ i \notin Listed(free) /\ i \notin Listed(Tail(unsent))
      /\ Generations(new) /\ DOMAIN new = DOMAIN out
      /\ new[i] = g /\ \A b \in DOMAIN out : b # i => new[b] = out[b]
      /\ Unsent(out, unsent) = Joined(out[i].records, Unsent(new, Tail(unsent)))
      /\ i # fill => Arranged(new, fill, Tail(unsent), free)
      /\ i = fill => Tail(unsent) = <<>>
  <2>1. /\ Arranged(out, fill, unsent, free) /\ unsent # <<>> /\ i = Head(unsent) /\ n # 0
        /\ g = [records |-> out[i].records, pinned |-> n]
    BY ONLY <1>0, <1>4, <1>5
  <2>2. /\ i \notin Listed(free) /\ i \notin Listed(Tail(unsent))
        /\ Generations(Changed(out, i, g)) /\ DOMAIN Changed(out, i, g) = DOMAIN out
    BY ONLY <2>1, n \in Nat, Pinning
  <2>3. /\ Changed(out, i, g)[i] = g
        /\ \A b \in DOMAIN out : b # i => Changed(out, i, g)[b] = out[b]
    BY ONLY <2>1, n \in Nat, Pinning
  <2>4. Unsent(out, unsent) = Joined(out[i].records, Unsent(Changed(out, i, g), Tail(unsent)))
    BY ONLY <2>1, n \in Nat, Pinning
  <2>5. /\ i # fill => Arranged(Changed(out, i, g), fill, Tail(unsent), free)
        /\ i = fill => Tail(unsent) = <<>>
    BY ONLY <2>1, n \in Nat, Pinning
  <2> QED  BY ONLY <1>6, <2>2, <2>3, <2>4, <2>5
<1>8. PICK p : p = Pinned(tx, i, n)
  OBVIOUS
<1>9. /\ DOMAIN p = TxFields /\ p.fill = fill /\ p.free = free /\ p.unsent = Tail(unsent)
      /\ p.nPinned = tx.nPinned + 1
      /\ p.out = [out EXCEPT ![i] = [out[i] EXCEPT !.pinned = n]]
  BY <1>0, <1>8 DEF Pinned, TxFields
<1>10. p.out = new
  BY <1>3, <1>5, <1>6, <1>9, GenerationWith DEF Changed
<1>11. new[i].pinned # 0 /\ new[i].records = out[i].records
  BY <1>4, <1>5, <1>7
<1>12. Cardinality(Pins(new)) = tx.nPinned + 1
  <2>1. Cardinality(Pins(new)) = Cardinality(Pins(out)) + 1
    <3>1. \A b \in DOMAIN new : b # i => ((b \in DOMAIN out /\ out[b].pinned # 0) <=> new[b].pinned # 0)
      BY ONLY <1>7
    <3>2. DOMAIN out \subseteq DOMAIN new /\ i \in DOMAIN out /\ out[i].pinned = 0 /\ new[i].pinned # 0
      BY ONLY <1>2, <1>3, <1>7, <1>11
    <3> QED  BY ONLY <1>1, <3>1, <3>2, PinsMore
  <2> QED  BY <1>0, <2>1 DEF TxOk
<1>13. Holding(out, new)
  BY <1>3, <1>7 DEF Holding
<1>14. PICK d : d = BeginSend(tx)
  OBVIOUS
<1>15. d = IF i = fill THEN AdvanceFill(p) ELSE p
  BY <1>0, <1>4, <1>8, <1>14 DEF BeginSend
<1>16. /\ DOMAIN d = TxFields /\ d.unsent = Tail(unsent) /\ d.nPinned = tx.nPinned + 1
       /\ Arranged(d.out, d.fill, d.unsent, d.free)
       /\ Unsent(d.out, d.unsent) = Unsent(new, Tail(unsent))
       /\ DOMAIN new \subseteq DOMAIN d.out /\ \A b \in DOMAIN new : d.out[b] = new[b]
       /\ Cardinality(Pins(d.out)) = Cardinality(Pins(new))
  <2>1. CASE i # fill
    BY <1>7, <1>9, <1>10, <1>15, <2>1
  <2>2. CASE i = fill /\ free # <<>>
    <3>1. /\ DOMAIN d = TxFields /\ d.out = new /\ d.unsent = Tail(unsent) /\ d.nPinned = p.nPinned
          /\ d.fill = Head(free) /\ d.free = Tail(free)
      BY <1>9, <1>10, <1>15, <2>2 DEF AdvanceFill, TxFields
    <3>2. \A b \in Listed(free) : b \in DOMAIN new /\ new[b].pinned = 0 /\ new[b].records = <<>>
      BY <1>1, <1>7
    <3>3. Arranged(new, Head(free), <<>>, Tail(free))
      BY <1>1, <1>7, <2>2, <3>2, AdvancesToFree
    <3> QED  BY <1>7, <1>9, <2>2, <3>1, <3>3
  <2>3. CASE i = fill /\ free = <<>>
    <3>1. /\ DOMAIN d = TxFields /\ d.out = Append(new, EmptyGeneration) /\ d.unsent = Tail(unsent)
          /\ d.nPinned = p.nPinned /\ d.fill = Len(new) + 1 /\ d.free = free
      BY <1>9, <1>10, <1>15, <2>3 DEF AdvanceFill, TxFields
    <3>2. PICK m : m = Len(new) + 1
      OBVIOUS
    <3>3. LET more == Append(new, EmptyGeneration) IN
          /\ Arranged(more, m, <<>>, <<>>)
          /\ DOMAIN more = DOMAIN new \cup {m} /\ m \notin DOMAIN new
          /\ more[m] = EmptyGeneration /\ \A b \in DOMAIN new : more[b] = new[b]
      BY <1>7, <3>2, AdvancesToNew
    <3>4. Pins(d.out) = Pins(new)
      BY <3>1, <3>3, EmptyIs DEF Pins
    <3>5. Unsent(d.out, <<>>) = Unsent(new, <<>>)
      BY UnsentNone
    <3> QED  BY ZenonT(60), <1>7, <1>9, <2>3, <3>1, <3>2, <3>3, <3>4, <3>5
  <2> QED  BY <2>1, <2>2, <2>3
<1>17. TxOk(d)
  BY <1>12, <1>16 DEF TxOk
<1>18. Holding(out, d.out)
  BY <1>7, <1>13, <1>16 DEF Holding
<1>19. i \in DOMAIN d.out /\ d.out[i].pinned # 0 /\ d.out[i].records = out[i].records
  BY <1>2, <1>7, <1>11, <1>16
<1> QED  BY <1>0, <1>2, <1>3, <1>7, <1>14, <1>16, <1>17, <1>18, <1>19 DEF Left

\* All that is pinned but b stays as it is.
HoldingBut(out, new, i) ==
  \A b \in DOMAIN out : out[b].pinned # 0 /\ b # i => b \in DOMAIN new /\ new[b] = out[b]

\* f_SendCompleted
LEMMA TxDrains ==
  ASSUME NEW tx, TxOk(tx), NEW i \in DOMAIN tx.out, tx.out[i].pinned # 0
  PROVE  LET d == SendDrained(tx, i) IN
         /\ TxOk(d) /\ Left(d) = Left(tx) /\ HoldingBut(tx.out, d.out, i)
         /\ i \in DOMAIN d.out /\ d.out[i].pinned # 0 /\ d.out[i].records = <<>>
<1>0. PICK out, fill, unsent, free :
        /\ out = tx.out /\ fill = tx.fill /\ unsent = tx.unsent /\ free = tx.free
        /\ Arranged(out, fill, unsent, free) /\ DOMAIN tx = TxFields
  BY DEF TxOk
<1>1. Generations(out)
  BY <1>0, ArrangedIs
<1>2. out[i] \in Generation /\ out[i].pinned \in Nat /\ out[i].pinned # 0 /\ i \in DOMAIN out
  BY <1>0, <1>1, RecordsAre
<1>3. PICK g \in Generation : g = [records |-> <<>>, pinned |-> out[i].pinned]
  <2>1. [records |-> <<>>, pinned |-> out[i].pinned] \in [records : Datas, pinned : Nat]
    BY <1>2, DataNone
  <2> QED  BY <2>1 DEF Generation
<1>4. PICK new : new = Changed(out, i, g)
  OBVIOUS
<1>5. /\ Generations(new) /\ DOMAIN new = DOMAIN out
      /\ new[i] = g /\ \A b \in DOMAIN out : b # i => new[b] = out[b]
      /\ Arranged(new, fill, unsent, free)
      /\ Unsent(new, unsent) = Unsent(out, unsent)
  BY <1>0, <1>2, <1>4, PinnedApart
<1>6. PICK d : d = SendDrained(tx, i)
  OBVIOUS
<1>7. /\ DOMAIN d = TxFields /\ d.fill = fill /\ d.free = free /\ d.unsent = unsent
      /\ d.nPinned = tx.nPinned /\ d.out = [out EXCEPT ![i] = [out[i] EXCEPT !.records = <<>>]]
  BY <1>0, <1>6 DEF SendDrained, TxFields
<1>8. d.out = new
  BY <1>2, <1>3, <1>4, <1>7, GenerationWith DEF Changed
<1>9. Pins(new) = Pins(out)
  BY <1>2, <1>3, <1>5, PinsAs
<1>10. TxOk(d)
  BY <1>0, <1>5, <1>7, <1>8, <1>9 DEF TxOk
<1>11. HoldingBut(out, new, i)
  BY <1>5 DEF HoldingBut
<1>12. new[i].pinned # 0 /\ new[i].records = <<>>
  BY <1>2, <1>3, <1>5
<1> QED  BY <1>0, <1>2, <1>5, <1>6, <1>7, <1>8, <1>10, <1>11, <1>12 DEF Left

\* fp_ReleasePin of a generation that is drained.
LEMMA TxReleases ==
  ASSUME NEW tx, TxOk(tx), NEW i \in DOMAIN tx.out, tx.out[i].pinned # 0, tx.out[i].records = <<>>
  PROVE  LET d == ReleasePin(tx, i) IN
         TxOk(d) /\ Left(d) = Left(tx) /\ HoldingBut(tx.out, d.out, i)
<1>0. PICK out, fill, unsent, free :
        /\ out = tx.out /\ fill = tx.fill /\ unsent = tx.unsent /\ free = tx.free
        /\ Arranged(out, fill, unsent, free) /\ DOMAIN tx = TxFields
  BY DEF TxOk
<1>1. Generations(out) /\ free \in Seq(Nat)
  BY <1>0, ArrangedIs
<1>2. /\ out[i] \in Generation /\ out[i].pinned # 0 /\ i \in DOMAIN out /\ out[i].records = <<>>
      /\ i \in Nat
  BY <1>0, <1>1, RecordsAre
<1>3. PICK g \in Generation : g = [records |-> out[i].records, pinned |-> 0]
  <2>1. [records |-> out[i].records, pinned |-> 0] \in [records : Datas, pinned : Nat]
    BY <1>2, DataNone
  <2> QED  BY <2>1 DEF Generation
<1>4. PICK new : new = Changed(out, i, g)
  OBVIOUS
<1>5. /\ Generations(new) /\ DOMAIN new = DOMAIN out
      /\ new[i] = g /\ \A b \in DOMAIN out : b # i => new[b] = out[b]
  BY <1>1, <1>2, <1>4, ChangedIs
<1>6. /\ Arranged(new, fill, unsent, Joined(<<i>>, free))
      /\ Unsent(new, unsent) = Unsent(out, unsent)
  BY <1>0, <1>2, <1>3, <1>4, Releasing
<1>7. PICK d : d = ReleasePin(tx, i)
  OBVIOUS
<1>8. Len(tx.out[i].records) = 0 /\ ~(Len(tx.out[i].records) > 0) /\ IsPinned(tx, i)
  BY <1>0, <1>2 DEF IsPinned
<1>9. /\ DOMAIN d = TxFields /\ d.fill = fill /\ d.free = <<i>> \o free /\ d.unsent = unsent
      /\ d.nPinned = tx.nPinned - 1 /\ d.out = [out EXCEPT ![i] = [out[i] EXCEPT !.pinned = 0]]
  BY <1>0, <1>7, <1>8 DEF ReleasePin, TxFields
<1>10. d.out = new
  <2>1. [out[i] EXCEPT !.pinned = 0] = g
    BY <1>2, <1>3, GenerationWith
  <2> QED  BY <1>4, <1>9, <2>1 DEF Changed
<1>11. d.free = Joined(<<i>>, free)
  BY <1>9 DEF Joined
<1>12. Cardinality(Pins(new)) = Cardinality(Pins(out)) - 1
  <2>1. new[i].pinned = 0
    BY <1>3, <1>5
  <2> QED  BY <1>1, <1>2, <1>5, <2>1, PinsLess
<1>13. TxOk(d)
  BY <1>0, <1>6, <1>9, <1>10, <1>11, <1>12 DEF TxOk
<1>14. HoldingBut(out, new, i)
  BY <1>5 DEF HoldingBut
<1> QED  BY <1>0, <1>6, <1>7, <1>9, <1>10, <1>13, <1>14 DEF Left

\* A flush of the first n records, when nothing is pinned.
LEMMA TxFlushesList ==
  ASSUME NEW out, NEW fill, NEW unsent, NEW free, Arranged(out, fill, unsent, free),
         NEW e \in 0 .. Len(unsent), NEW n \in Nat, n <= Len(Unsent(out, unsent)),
         \A k \in 1 .. Len(unsent) : Sent(out, unsent, k) <= n <=> k <= e,
         NEW r, IsFreeing(unsent, fill, free, Len(unsent), r)
  PROVE  LET new == Went(out, unsent, e, n) IN
         /\ Arranged(new, fill, From(unsent, e), r[e])
         /\ Unsent(new, From(unsent, e)) = From(Unsent(out, unsent), n)
         /\ DOMAIN new = DOMAIN out /\ \A b \in DOMAIN out : new[b].pinned = out[b].pinned
         /\ \A b \in DOMAIN out : b \notin Listed(unsent) => new[b] = out[b]
<1>0. /\ Generations(out) /\ fill \in DOMAIN out /\ fill \in Nat /\ out[fill].pinned = 0
      /\ unsent \in Seq(Nat) /\ free \in Seq(Nat) /\ Distinct(unsent) /\ Distinct(free)
      /\ Listed(unsent) \subseteq DOMAIN out /\ Listed(free) \subseteq DOMAIN out
      /\ fill \notin Listed(free)
      /\ \A b \in Listed(unsent) : out[b].pinned = 0 /\ out[b].records # <<>>
      /\ \A b \in Listed(free) : out[b].pinned = 0 /\ out[b].records = <<>>
      /\ out[fill].records # <<>> <=> fill \in Listed(unsent)
  BY ArrangedIs
<1>1. PICK N \in Nat : N = Len(unsent) /\ DOMAIN unsent = 1 .. N /\ e \in Nat /\ e <= N
  BY <1>0
<1>2. Sent(out, unsent, e) \in Nat /\ Sent(out, unsent, e) <= n
  <2>1. CASE e = 0
    BY <1>0, <2>1, SentNone
  <2>2. CASE e # 0
    <3>1. e \in 1 .. Len(unsent) /\ e <= e
      BY <1>1, <2>2
    <3>2. Sent(out, unsent, e) <= n
      BY <3>1
    <3>3. Listed(First(unsent, e)) \subseteq Listed(unsent) /\ First(unsent, e) \in Seq(Nat)
      BY <1>0, ListedCut, FirstIs
    <3>4. Listed(First(unsent, e)) \subseteq DOMAIN out
      BY <1>0, <3>3
    <3>5. Unsent(out, First(unsent, e)) \in Datas
      BY <1>0, <3>3, <3>4, UnsentType
    <3> QED  BY <3>2, <3>5, LenSome DEF Sent
  <2> QED  BY <2>1, <2>2
<1>3. PICK new : new = Went(out, unsent, e, n)
  OBVIOUS
<1>4. \A b \in Listed(unsent) : out[b].pinned = 0
  BY <1>0
<1>40. /\ Generations(out) /\ unsent \in Seq(Nat) /\ Distinct(unsent) /\ Listed(unsent) \subseteq DOMAIN out
       /\ \A b \in Listed(unsent) : out[b].pinned = 0
       /\ e \in 0 .. Len(unsent) /\ n \in Nat /\ Sent(out, unsent, e) <= n
       /\ \A k \in 1 .. Len(unsent) : Sent(out, unsent, k) <= n <=> k <= e
  BY <1>0, <1>2
<1>41. LET w == Went(out, unsent, e, n) IN
       /\ Generations(w) /\ DOMAIN w = DOMAIN out
       /\ \A b \in Listed(First(unsent, e)) : w[b] = EmptyGeneration
       /\ \A b \in DOMAIN out : b \notin Listed(unsent) => w[b] = out[b]
       /\ \A b \in DOMAIN out : w[b].pinned = out[b].pinned
       /\ \A k \in 1 .. Len(unsent) : k > e + 1 => w[unsent[k]] = out[unsent[k]]
       /\ e < Len(unsent) =>
            /\ n - Sent(out, unsent, e) \in 0 .. Len(out[unsent[e + 1]].records)
            /\ w[unsent[e + 1]].records = From(out[unsent[e + 1]].records, n - Sent(out, unsent, e))
            /\ w[unsent[e + 1]].records # <<>>
  BY ONLY SMTT(60), <1>40, WentIs
<1>5. Generations(new) /\ DOMAIN new = DOMAIN out
  BY <1>3, <1>41
<1>6. \A b \in Listed(First(unsent, e)) : new[b] = EmptyGeneration
  BY <1>3, <1>41
<1>7. \A b \in DOMAIN out : b \notin Listed(unsent) => new[b] = out[b]
  BY <1>3, <1>41
<1>8. \A b \in DOMAIN out : new[b].pinned = out[b].pinned
  BY <1>3, <1>41
<1>9. \A k \in 1 .. Len(unsent) : k > e + 1 => new[unsent[k]] = out[unsent[k]]
  BY <1>3, <1>41
<1>10. e < Len(unsent) =>
         /\ n - Sent(out, unsent, e) \in 0 .. Len(out[unsent[e + 1]].records)
         /\ new[unsent[e + 1]].records = From(out[unsent[e + 1]].records, n - Sent(out, unsent, e))
         /\ new[unsent[e + 1]].records # <<>>
  BY <1>3, <1>41
<1>11. PICK a \in Seq(Nat) : a = First(unsent, e) /\ Len(a) = e /\ \A i \in 1 .. e : a[i] = unsent[i]
  <2>1. First(unsent, e) \in Seq(Nat) /\ Len(First(unsent, e)) = e
    BY <1>0, FirstIs
  <2>2. \A i \in 1 .. e : First(unsent, e)[i] = unsent[i]
    BY <1>0, FirstIs
  <2> QED  BY <2>1, <2>2
<1>12. PICK t \in Seq(Nat) : t = From(unsent, e) /\ Len(t) = N - e
                             /\ \A i \in 1 .. N - e : t[i] = unsent[e + i]
  <2>1. From(unsent, e) \in Seq(Nat) /\ Len(From(unsent, e)) = Len(unsent) - e
    BY <1>0, FromIs
  <2>2. \A i \in 1 .. Len(unsent) - e : From(unsent, e)[i] = unsent[e + i]
    BY <1>0, FromIs
  <2> QED  BY <1>1, <2>1, <2>2
<1>13. /\ Listed(unsent) = Listed(a) \cup Listed(t) /\ Distinct(t)
       /\ \A x \in Listed(a) : x \notin Listed(t)
  <2>1. Listed(unsent) = Listed(First(unsent, e)) \cup Listed(From(unsent, e))
    BY ONLY <1>40, ListedCut
  <2>2. /\ Distinct(From(unsent, e))
        /\ \A x \in Listed(First(unsent, e)) : x \notin Listed(From(unsent, e))
    BY ONLY <1>40, ListedCut
  <2> QED  BY <1>11, <1>12, <2>1, <2>2
<1>14. unsent = Joined(a, t)
  BY <1>0, <1>11, <1>12, SplitAt
<1>15. Listed(a) \subseteq DOMAIN out /\ Listed(t) \subseteq DOMAIN out
  BY <1>0, <1>13
<1>16. PICK A \in Datas : A = Unsent(out, a)
  BY <1>0, <1>11, <1>15, UnsentType
<1>17. PICK T \in Datas : T = Unsent(out, t)
  BY <1>0, <1>12, <1>15, UnsentType
<1>18. Unsent(out, unsent) = Joined(A, T)
  <2>1. Unsent(out, Joined(a, t)) = Joined(Unsent(out, a), Unsent(out, t))
    BY ONLY <1>40, <1>15, a \in Seq(Nat), t \in Seq(Nat), UnsentJoined
  <2> QED  BY <1>14, <1>16, <1>17, <2>1
<1>19. Sent(out, unsent, e) = Len(A)
  BY <1>11, <1>16 DEF Sent
<1>20. PICK freed \in Seq(Nat) : /\ freed = r[e] /\ Distinct(freed)
                                 /\ Listed(freed) = Listed(free) \cup (Listed(a) \ {fill})
  <2>1. \A b \in Listed(unsent) : b \notin Listed(free)
    BY <1>0
  <2>2. /\ unsent \in Seq(Nat) /\ Distinct(unsent) /\ free \in Seq(Nat) /\ Distinct(free)
        /\ e \in 0 .. Len(unsent)
    BY <1>0
  <2>3. r[e] \in Seq(Nat) /\ Distinct(r[e])
    BY <2>1, <2>2, FreedAre
  <2>4. Listed(r[e]) = Listed(free) \cup (Listed(First(unsent, e)) \ {fill})
    BY <2>1, <2>2, FreedAre
  <2> QED  BY <1>11, <2>3, <2>4
\* What is left of those that wait.
<1>21. ASSUME NEW b \in Listed(t)
       PROVE  new[b].records # <<>> /\ new[b].pinned = 0
  <2>1. PICK i \in 1 .. N - e : b = t[i]
    BY <1>12 DEF Listed
  <2>2. PICK k \in 1 .. N : k = e + i /\ b = unsent[k] /\ (k = e + 1 \/ k > e + 1) /\ e < N
    BY ONLY <1>1, <1>12, <2>1
  <2>3. b \in DOMAIN out /\ out[b].pinned = 0 /\ out[b].records # <<>>
    BY <1>0, <1>13, <1>15, <1>21
  <2> QED  BY <1>1, <1>8, <1>9, <1>10, <2>2, <2>3
<1>22. Unsent(new, t) = From(Joined(A, T), n)
  <2>1. CASE e = N
    <3>1. t = <<>>
      BY <1>1, <1>12, <2>1, NoneOf
    <3>2. T = <<>>
      BY <1>17, <3>1, UnsentNone
    <3>3. Joined(A, T) = A
      BY <3>2, DataJoins
    <3>4. n = Len(A)
      BY <1>2, <1>18, <1>19, <3>3
    <3> QED  BY <3>1, <3>3, <3>4, FromAll, UnsentNone
  <2>2. CASE e # N
    <3>1. PICK m \in Nat : m = e + 1 /\ m <= Len(unsent) /\ e < N /\ m <= N
      BY <1>1, <2>2
    <3>2. PICK x \in Nat, z \in Seq(Nat) : x = unsent[m] /\ z = From(unsent, m) /\ t = Joined(<<x>>, z)
      <4>1. e \in Nat /\ m \in Nat /\ m = e + 1 /\ m <= Len(unsent) /\ unsent \in Seq(Nat)
        BY <1>0, <1>1, <3>1
      <4>2. /\ unsent[m] \in Nat /\ From(unsent, m) \in Seq(Nat)
            /\ From(unsent, e) = Joined(<<unsent[m]>>, From(unsent, m))
        BY ONLY <4>1, FromByFirst
      <4> QED  BY <1>12, <4>2
    <3>3. Listed(t) = {x} \cup Listed(z)
      BY <3>2, ListedPut
    <3>4. x \in DOMAIN out /\ Listed(z) \subseteq DOMAIN out
      BY <1>15, <3>3
    <3>5. PICK y \in Datas : y = out[x].records
      BY <1>0, <3>4, RecordsAre
    <3>6. PICK Z \in Datas : Z = Unsent(out, z)
      BY <1>0, <3>2, <3>4, UnsentType
    <3>7. T = Joined(y, Z)
      <4>1. Unsent(out, Joined(<<x>>, z)) = Joined(out[x].records, Unsent(out, z))
        BY <1>0, <3>2, <3>4, UnsentPut
      <4> QED  BY <1>17, <3>2, <3>5, <3>6, <4>1
    <3>8. PICK k \in 0 .. Len(y) : k = n - Len(A) /\ new[x].records = From(y, k) /\ n = Len(A) + k
      <4>1. /\ n - Len(A) \in 0 .. Len(y) /\ new[x].records = From(y, n - Len(A))
        BY <1>10, <1>19, <3>1, <3>2, <3>5
      <4>2. Len(A) \in Nat
        BY LenSome
      <4>3. n = Len(A) + (n - Len(A))
        BY <4>2
      <4> QED  BY <4>1, <4>3
    <3>9. \A b \in Listed(z) : new[b] = out[b]
      <4> TAKE b \in Listed(z)
      <4>1. m \in 0 .. Len(unsent)
        BY <3>1
      <4>2. PICK i \in 1 .. N - m : b = unsent[m + i]
        <5>1. From(unsent, m) \in Seq(Nat) /\ Len(From(unsent, m)) = Len(unsent) - m
          BY ONLY <1>40, <4>1, FromIs
        <5>2. \A i \in 1 .. Len(unsent) - m : From(unsent, m)[i] = unsent[m + i]
          BY ONLY <1>40, <4>1, FromIs
        <5>3. DOMAIN z = 1 .. N - m
          BY <1>1, <3>2, <5>1, DomainOf
        <5>4. PICK i \in DOMAIN z : b = z[i]
          BY DEF Listed
        <5> QED  BY <1>1, <3>2, <5>2, <5>3, <5>4
      <4>3. m + i \in 1 .. Len(unsent) /\ m + i > e + 1
        BY <1>1, <3>1
      <4> QED  BY <1>9, <4>2, <4>3
    <3>10. Unsent(new, z) = Z
      BY <3>2, <3>6, <3>9, UnsentAgrees
    <3>11. Unsent(new, Joined(<<x>>, z)) = Joined(new[x].records, Unsent(new, z))
      <4>1. x \in DOMAIN new /\ Listed(z) \subseteq DOMAIN new
        BY <1>5, <3>4
      <4> QED  BY <1>5, <3>2, <4>1, UnsentPut
    <3>12. From(Joined(Joined(A, y), Z), Len(A) + k) = Joined(From(y, k), Z)
      BY CutBoth
    <3>13. Joined(Joined(A, y), Z) = Joined(A, Joined(y, Z))
      BY DataJoinsBoth
    <3> QED  BY <3>2, <3>7, <3>8, <3>10, <3>11, <3>12, <3>13
  <2> QED  BY <2>1, <2>2
<1>23. Filling(new, fill)
  BY <1>0, <1>5, <1>8 DEF Filling
<1>24. \A k \in DOMAIN t : t[k] = fill => k = Len(t)
  <2>0. Len(t) = N - e /\ DOMAIN t = 1 .. N - e
    <3>1. DOMAIN t = 1 .. Len(t)
      BY ONLY t \in Seq(Nat)
    <3>2. Len(t) = N - e
      BY ONLY <1>12
    <3> QED  BY ONLY <3>1, <3>2
  <2> SUFFICES ASSUME NEW k \in 1 .. N - e, t[k] = fill PROVE k = N - e
    BY <2>0
  <2>1. e + k \in DOMAIN unsent /\ unsent[e + k] = fill
    BY <1>1, <1>12
  <2>2. e + k = N
    BY <1>1, <2>1 DEF Arranged, Waiting
  <2> QED  BY <1>1, <2>2
<1>25. new[fill].records # <<>> => fill \in Listed(t)
  <2> SUFFICES ASSUME fill \notin Listed(t) PROVE new[fill].records = <<>>
    OBVIOUS
  <2>1. CASE fill \in Listed(a)
    BY <1>6, <1>11, <2>1, EmptyIs
  <2>2. CASE fill \notin Listed(a)
    <3>1. fill \notin Listed(unsent)
      BY <1>13, <2>2
    <3> QED  BY <1>0, <1>7, <3>1
  <2> QED  BY <2>1, <2>2
<1>26. Waiting(new, fill, t)
  BY <1>5, <1>13, <1>15, <1>21, <1>24, <1>25 DEF Waiting
<1>27. Spare(new, fill, freed)
  <2> SUFFICES ASSUME NEW b \in Listed(freed)
               PROVE  b \in DOMAIN new /\ b # fill /\ new[b].pinned = 0 /\ new[b].records = <<>>
    BY <1>20 DEF Spare
  <2>1. CASE b \in Listed(free)
    <3>1. b \in DOMAIN out /\ b # fill /\ b \notin Listed(unsent)
      BY <1>0, <2>1
    <3> QED  BY <1>0, <1>5, <1>7, <2>1, <3>1
  <2>2. CASE b \in Listed(a) /\ b # fill
    BY <1>5, <1>6, <1>11, <1>15, <2>2, EmptyIs
  <2> QED  BY <1>20, <2>1, <2>2
<1>28. Arranged(new, fill, t, freed)
  BY <1>23, <1>26, <1>27 DEF Arranged
<1> QED  BY <1>3, <1>5, <1>7, <1>8, <1>12, <1>18, <1>20, <1>22, <1>28

LEMMA UnsentRecordsAre ==
  ASSUME NEW tx
  PROVE  UnsentRecords(tx) = Left(tx)
BY DEF UnsentRecords, Left, Unsent, RecordsOf

\* f_Flush, as it is written, by the number of generations it drains.
LEMMA FlushedIs ==
  ASSUME NEW tx, TxOk(tx), NEW n \in Nat, NEW e \in 0 .. Len(tx.unsent), DrainedBy(tx, n) = e,
         NEW r, IsFreeing(tx.unsent, tx.fill, tx.free, Len(tx.unsent), r),
         r = CHOOSE x : IsFreeing(tx.unsent, tx.fill, tx.free, Len(tx.unsent), x)
  PROVE  LET d == Flushed(tx, n) IN
         /\ DOMAIN d = TxFields /\ d.fill = tx.fill /\ d.nPinned = tx.nPinned
         /\ d.unsent = From(tx.unsent, e) /\ d.free = r[e]
         /\ d.out = Went(tx.out, tx.unsent, e, n)
<1>1. /\ DOMAIN tx = TxFields /\ tx.unsent \in Seq(Nat)
  BY ArrangedIs DEF TxOk
<1>2. RecordsBefore(tx, e) = Sent(tx.out, tx.unsent, e)
  BY <1>1, SentIs
<1>3. PICK d : d = Flushed(tx, n)
  OBVIOUS
<1>4. /\ DOMAIN d = TxFields /\ d.fill = tx.fill /\ d.nPinned = tx.nPinned
      /\ d.unsent = From(tx.unsent, e)
  BY <1>1, <1>3 DEF Flushed, TxFields
<1>5. d.out = Went(tx.out, tx.unsent, e, n)
  BY SMTT(60), <1>1, <1>2, <1>3 DEF Flushed, TxFields, Went
<1>6. d.free = r[e]
  BY <1>1, <1>3 DEF Flushed, TxFields, IsFreeing, FreedNext, Joined
<1> QED  BY <1>3, <1>4, <1>5, <1>6

LEMMA TxFlushes ==
  ASSUME NEW tx, TxOk(tx), NEW n \in Nat, n <= Len(Left(tx))
  PROVE  LET d == Flushed(tx, n) IN
         TxOk(d) /\ Left(d) = From(Left(tx), n) /\ Holding(tx.out, d.out)
<1>1. PICK out, fill, unsent, free :
        /\ out = tx.out /\ fill = tx.fill /\ unsent = tx.unsent /\ free = tx.free
        /\ Arranged(out, fill, unsent, free) /\ DOMAIN tx = TxFields
  BY DEF TxOk
<1>2. /\ Generations(out) /\ unsent \in Seq(Nat) /\ Listed(unsent) \subseteq DOMAIN out
      /\ \A b \in Listed(unsent) : out[b].pinned = 0
  BY <1>1, ArrangedIs
<1>3. PICK e \in 0 .. Len(unsent) :
        /\ DrainedBy(tx, n) = e
        /\ \A k \in 1 .. Len(unsent) : Sent(out, unsent, k) <= n <=> k <= e
  BY <1>1, <1>2, DrainedIs
<1>4. Len(unsent) \in Nat
  BY <1>2
<1>5. PICK r : /\ IsFreeing(unsent, fill, free, Len(unsent), r)
               /\ r = CHOOSE x : IsFreeing(unsent, fill, free, Len(unsent), x)
  BY <1>4, FreeingExists
<1>6. PICK d : d = Flushed(tx, n)
  OBVIOUS
<1>7. /\ DOMAIN d = TxFields /\ d.fill = fill /\ d.nPinned = tx.nPinned
      /\ d.unsent = From(unsent, e) /\ d.free = r[e] /\ d.out = Went(out, unsent, e, n)
  BY <1>1, <1>3, <1>5, <1>6, FlushedIs
<1>8. n <= Len(Unsent(out, unsent))
  BY <1>1 DEF Left
<1>9. LET new == Went(out, unsent, e, n) IN
      /\ Arranged(new, fill, From(unsent, e), r[e])
      /\ Unsent(new, From(unsent, e)) = From(Unsent(out, unsent), n)
      /\ DOMAIN new = DOMAIN out /\ \A b \in DOMAIN out : new[b].pinned = out[b].pinned
      /\ \A b \in DOMAIN out : b \notin Listed(unsent) => new[b] = out[b]
  BY <1>1, <1>3, <1>5, <1>8, TxFlushesList
<1>10. Pins(d.out) = Pins(out)
  BY <1>7, <1>9, PinsAs
<1>11. TxOk(d)
  BY <1>1, <1>7, <1>9, <1>10 DEF TxOk
<1>12. Holding(out, d.out)
  BY <1>2, <1>7, <1>9 DEF Holding
<1> QED  BY <1>1, <1>6, <1>7, <1>9, <1>11, <1>12 DEF Left

-----------------------------------------------------------------------------
(* What the platform has, and what it posted.                              *)

KernelOps == [buffer : Nat, records : Datas, stage : {"Queued", "Completed"}]
Jobs == [kind : {"Completed", "Released"}, transfer : Nat, n : Nat, ok : BOOLEAN]

Buffers(kernel) == {kernel[i].buffer : i \in DOMAIN kernel}

\* The operations of the platform are of pinned generations, one of each.
KernelOk(out, kernel) ==
  /\ kernel \in Seq(KernelOps)
  /\ \A i \in DOMAIN kernel :
       kernel[i].buffer \in DOMAIN out /\ out[kernel[i].buffer].pinned # 0
  /\ \A i, j \in DOMAIN kernel : kernel[i].buffer = kernel[j].buffer => i = j

Due(mail, b) == \E j \in DOMAIN mail : mail[j].kind = "Completed" /\ mail[j].transfer = b

\* A release is the last that comes of a generation, which is drained by then.
ReleaseDue(out, kernel, mail, k, b) ==
  /\ b \notin Buffers(kernel)
  /\ \A j \in DOMAIN mail : mail[j].kind = "Released" /\ mail[j].transfer = b => j = k
  /\ \A j \in DOMAIN mail : mail[j].kind = "Completed" /\ mail[j].transfer = b => j < k
  /\ out[b].records # <<>> => Due(mail, b)

MailOk(out, kernel, mail) ==
  /\ mail \in Seq(Jobs)
  /\ \A k \in DOMAIN mail :
       mail[k].transfer # 0 => mail[k].transfer \in DOMAIN out /\ out[mail[k].transfer].pinned # 0
  /\ \A k \in DOMAIN mail :
       mail[k].kind = "Released" /\ mail[k].transfer # 0
         => ReleaseDue(out, kernel, mail, k, mail[k].transfer)
  /\ \A i \in DOMAIN kernel :
       kernel[i].stage = "Completed"
         => out[kernel[i].buffer].records = <<>> \/ Due(mail, kernel[i].buffer)

Ledger(out, kernel, mail) == KernelOk(out, kernel) /\ MailOk(out, kernel, mail)

LEMMA LedgerHolds ==
  ASSUME NEW out, NEW kernel, NEW mail, Ledger(out, kernel, mail), NEW new, Holding(out, new)
  PROVE  Ledger(new, kernel, mail)
<1>1. KernelOk(new, kernel)
  BY DEF Ledger, KernelOk, Holding
<1>2. \A k \in DOMAIN mail :
        mail[k].transfer # 0 => /\ mail[k].transfer \in DOMAIN out /\ out[mail[k].transfer].pinned # 0
                                /\ mail[k].transfer \in DOMAIN new
                                /\ new[mail[k].transfer] = out[mail[k].transfer]
  BY DEF Ledger, MailOk, Holding
<1>3. ASSUME NEW k \in DOMAIN mail, mail[k].kind = "Released", mail[k].transfer # 0
      PROVE  ReleaseDue(new, kernel, mail, k, mail[k].transfer)
  <2>1. ReleaseDue(out, kernel, mail, k, mail[k].transfer)
    BY <1>3 DEF Ledger, MailOk
  <2> QED  BY <1>2, <1>3, <2>1 DEF ReleaseDue
<1>4. \A i \in DOMAIN kernel : new[kernel[i].buffer] = out[kernel[i].buffer]
  BY DEF Ledger, KernelOk, Holding
<1>5. \A i \in DOMAIN kernel :
       kernel[i].stage = "Completed"
         => new[kernel[i].buffer].records = <<>> \/ Due(mail, kernel[i].buffer)
  BY <1>4 DEF Ledger, MailOk
<1>6. mail \in Seq(Jobs)
  BY DEF Ledger, MailOk
<1>7. MailOk(new, kernel, mail)
  BY <1>2, <1>3, <1>5, <1>6 DEF MailOk
<1> QED  BY <1>1, <1>7 DEF Ledger

\* Two sequences, one behind the other, by places.
LEMMA JoinedPlaces ==
  ASSUME NEW S, NEW p \in Seq(S), NEW q \in Seq(S)
  PROVE  /\ Joined(p, q) \in Seq(S)
         /\ \A i \in DOMAIN p : i \in DOMAIN Joined(p, q) /\ Joined(p, q)[i] = p[i]
         /\ \A j \in DOMAIN Joined(p, q) :
              \/ j \in DOMAIN p
              \/ \E k \in DOMAIN q : j = Len(p) + k /\ Joined(p, q)[j] = q[k]
         /\ \A i \in DOMAIN p : i \in Nat /\ i <= Len(p)
<1>1. PICK n \in Nat : n = Len(p) /\ DOMAIN p = 1 .. n
  OBVIOUS
<1>2. PICK m \in Nat : m = Len(q) /\ DOMAIN q = 1 .. m
  OBVIOUS
<1>3. PICK j \in Seq(S) : /\ j = Joined(p, q) /\ DOMAIN j = 1 .. n + m
                          /\ \A i \in 1 .. n : j[i] = p[i]
                          /\ \A i \in 1 .. m : j[n + i] = q[i]
  <2>1. Joined(p, q) \in Seq(S) /\ Len(Joined(p, q)) = Len(p) + Len(q)
    BY JoinedIs
  <2>2. \A i \in 1 .. Len(p) : Joined(p, q)[i] = p[i]
    BY JoinedIs
  <2>3. \A i \in 1 .. Len(q) : Joined(p, q)[Len(p) + i] = q[i]
    BY JoinedIs
  <2> QED  BY <1>1, <1>2, <2>1, <2>2, <2>3
<1>4. \A i \in 1 .. n + m : i \in 1 .. n \/ \E k \in 1 .. m : i = n + k
  <2> TAKE i \in 1 .. n + m
  <2>1. CASE i > n
    <3>1. i - n \in 1 .. m /\ i = n + (i - n)
      BY <2>1
    <3> QED  BY <3>1
  <2> QED  BY <2>1
<1>5. \A i \in 1 .. n : i \in 1 .. n + m /\ i \in Nat /\ i <= n
  OBVIOUS
<1>6. \A i \in DOMAIN p : i \in DOMAIN j /\ j[i] = p[i] /\ i \in Nat /\ i <= Len(p)
  BY <1>1, <1>3, <1>5
<1>7. ASSUME NEW i \in DOMAIN j
      PROVE  i \in DOMAIN p \/ \E k \in DOMAIN q : i = Len(p) + k /\ j[i] = q[k]
  <2>1. CASE i \in 1 .. n
    BY <1>1, <2>1
  <2>2. ASSUME NEW k \in 1 .. m, i = n + k
        PROVE  \E l \in DOMAIN q : i = Len(p) + l /\ j[i] = q[l]
    <3>1. k \in DOMAIN q /\ i = Len(p) + k
      BY <1>1, <1>2, <2>2
    <3>2. j[n + k] = q[k]
      BY <1>3
    <3> QED  BY <2>2, <3>1, <3>2
  <2>3. i \in 1 .. n \/ \E k \in 1 .. m : i = n + k
    BY <1>3, <1>4
  <2> QED  BY <2>1, <2>2, <2>3
<1> QED  BY <1>3, <1>6, <1>7

\* Jobs that are of no generation.
LEMMA LedgerPosts ==
  ASSUME NEW out, NEW kernel, NEW mail, Ledger(out, kernel, mail), NEW jobs \in Seq(Jobs),
         \A k \in DOMAIN jobs : jobs[k].transfer = 0
  PROVE  Ledger(out, kernel, Joined(mail, jobs))
<1>0. mail \in Seq(Jobs)
  BY DEF Ledger, MailOk
<1>1. PICK more \in Seq(Jobs) :
         /\ more = Joined(mail, jobs)
         /\ \A i \in DOMAIN mail : i \in DOMAIN more /\ more[i] = mail[i]
         /\ \A j \in DOMAIN more :
              \/ j \in DOMAIN mail
              \/ \E k \in DOMAIN jobs : more[j] = jobs[k]
  BY <1>0, JoinedPlaces
<1>2. \A j \in DOMAIN more : more[j].transfer # 0 => j \in DOMAIN mail /\ more[j] = mail[j]
  BY <1>1
<1>3. \A b : Due(mail, b) => Due(more, b)
  BY <1>1 DEF Due
<1>4. ASSUME NEW k \in DOMAIN more, more[k].kind = "Released", more[k].transfer # 0
      PROVE  ReleaseDue(out, kernel, more, k, more[k].transfer)
  <2>1. ReleaseDue(out, kernel, mail, k, mail[k].transfer) /\ more[k] = mail[k]
    BY <1>2, <1>4 DEF Ledger, MailOk
  <2> QED  BY <1>2, <1>3, <1>4, <2>1 DEF ReleaseDue
<1>5. MailOk(out, kernel, more)
  <2>1. \A k \in DOMAIN more :
          more[k].transfer # 0 => more[k].transfer \in DOMAIN out /\ out[more[k].transfer].pinned # 0
    BY <1>2 DEF Ledger, MailOk
  <2>2. \A i \in DOMAIN kernel :
          kernel[i].stage = "Completed"
            => out[kernel[i].buffer].records = <<>> \/ Due(more, kernel[i].buffer)
    BY <1>3 DEF Ledger, MailOk
  <2> QED  BY <1>4, <2>1, <2>2 DEF MailOk
<1> QED  BY <1>1, <1>5 DEF Ledger

\* The first of a sequence is taken.
LEMMA TailPlaces ==
  ASSUME NEW S, NEW q \in Seq(S), q # <<>>
  PROVE  /\ Tail(q) \in Seq(S) /\ 1 \in DOMAIN q /\ q[1] = Head(q) /\ Head(q) \in S
         /\ \A i \in DOMAIN Tail(q) : /\ i \in Nat /\ i + 1 \in DOMAIN q /\ i + 1 # 1
                                      /\ Tail(q)[i] = q[i + 1]
         /\ \A j \in DOMAIN q : j = 1 \/ \E i \in DOMAIN Tail(q) : j = i + 1
<1>1. PICK n \in Nat : n = Len(q) /\ n >= 1 /\ DOMAIN q = 1 .. n /\ q[1] = Head(q) /\ Head(q) \in S
  BY FirstOf
<1>2. PICK t \in Seq(S) : /\ t = Tail(q) /\ DOMAIN t = 1 .. n - 1
                          /\ \A i \in 1 .. n - 1 : t[i] = q[i + 1]
  <2>1. Tail(q) \in Seq(S) /\ Len(Tail(q)) = Len(q) - 1
    BY FirstOf
  <2>2. \A i \in 1 .. Len(q) - 1 : Tail(q)[i] = q[i + 1]
    BY FirstOf
  <2>3. DOMAIN Tail(q) = 1 .. Len(Tail(q))
    BY <2>1, DomainOf
  <2> QED  BY <1>1, <2>1, <2>2, <2>3
<1>3. \A i \in 1 .. n : i = 1 \/ \E k \in 1 .. n - 1 : i = k + 1
  <2> TAKE i \in 1 .. n
  <2>1. CASE i # 1
    <3>1. i - 1 \in 1 .. n - 1 /\ i = (i - 1) + 1
      BY <2>1
    <3> QED  BY <3>1
  <2> QED  BY <2>1
<1>4. 1 \in 1 .. n /\ \A k \in 1 .. n - 1 : k \in Nat /\ k + 1 \in 1 .. n /\ k + 1 # 1
  BY <1>1
<1> QED  BY <1>1, <1>2, <1>3, <1>4

\* The first job is done: of a generation it told of the completion or the release,
\* or of none.
LEMMA LedgerGoes ==
  ASSUME NEW out, 0 \notin DOMAIN out, NEW kernel, NEW mail, Ledger(out, kernel, mail), mail # <<>>,
         NEW b, b = Head(mail).transfer, NEW new, HoldingBut(out, new, b),
         Head(mail).kind = "Completed" /\ b # 0 =>
           b \in DOMAIN new /\ new[b].pinned # 0 /\ new[b].records = <<>>
  PROVE  Ledger(new, kernel, Tail(mail))
<1>0. mail \in Seq(Jobs)
  BY DEF Ledger, MailOk
<1>1. PICK t \in Seq(Jobs) :
         /\ t = Tail(mail) /\ 1 \in DOMAIN mail /\ mail[1] = Head(mail) /\ Head(mail) \in Jobs
         /\ \A i \in DOMAIN t : i \in Nat /\ i + 1 \in DOMAIN mail /\ i + 1 # 1 /\ t[i] = mail[i + 1]
         /\ \A j \in DOMAIN mail : j = 1 \/ \E i \in DOMAIN t : j = i + 1
  <2>1. Tail(mail) \in Seq(Jobs) /\ 1 \in DOMAIN mail /\ mail[1] = Head(mail) /\ Head(mail) \in Jobs
    BY <1>0, TailPlaces
  <2>2. \A i \in DOMAIN Tail(mail) : /\ i \in Nat /\ i + 1 \in DOMAIN mail /\ i + 1 # 1
                                      /\ Tail(mail)[i] = mail[i + 1]
    BY <1>0, TailPlaces
  <2>3. \A j \in DOMAIN mail : j = 1 \/ \E i \in DOMAIN Tail(mail) : j = i + 1
    BY <1>0, TailPlaces
  <2> QED  BY <2>1, <2>2, <2>3
<1>2. \A x : x # b => (Due(mail, x) => Due(t, x))
  <2> SUFFICES ASSUME NEW x, x # b, Due(mail, x) PROVE Due(t, x)
    OBVIOUS
  <2>1. PICK j \in DOMAIN mail : mail[j].kind = "Completed" /\ mail[j].transfer = x
    BY DEF Due
  <2>2. j # 1
    BY <1>1, <2>1
  <2>3. PICK i \in DOMAIN t : j = i + 1
    BY <1>1, <2>2
  <2>4. t[i] = mail[j]
    BY <1>1, <2>3
  <2> QED  BY <2>1, <2>4 DEF Due
<1>3. \A x \in DOMAIN out : out[x].pinned # 0 /\ x # b => x \in DOMAIN new /\ new[x] = out[x]
  BY DEF HoldingBut
<1>4. Head(mail).kind = "Completed" \/ Head(mail).kind = "Released"
  BY <1>1 DEF Jobs
<1>5. ASSUME b # 0, Head(mail).kind = "Released"
      PROVE  /\ \A i \in DOMAIN t : t[i].transfer # b
             /\ b \notin Buffers(kernel)
  <2>1. ReleaseDue(out, kernel, mail, 1, b)
    BY <1>1, <1>5 DEF Ledger, MailOk
  <2> SUFFICES ASSUME NEW i \in DOMAIN t, t[i].transfer = b PROVE FALSE
    BY <2>1 DEF ReleaseDue
  <2>2. /\ i + 1 \in DOMAIN mail /\ mail[i + 1].transfer = b /\ i + 1 # 1 /\ i \in Nat
        /\ mail[i + 1] \in Jobs
    BY <1>0, <1>1
  <2>3. mail[i + 1].kind = "Released" \/ mail[i + 1].kind = "Completed"
    BY <2>2 DEF Jobs
  <2>4. ~(i + 1 < 1)
    BY <2>2
  <2> QED  BY <2>1, <2>2, <2>3, <2>4 DEF ReleaseDue
\* A generation that is told of, or is in the platform, still.
<1>6. ASSUME NEW x \in DOMAIN out, out[x].pinned # 0, x = b => Head(mail).kind = "Completed"
      PROVE  /\ x \in DOMAIN new /\ new[x].pinned # 0
             /\ (out[x].records = <<>> \/ Due(mail, x)) => (new[x].records = <<>> \/ Due(t, x))
             /\ new[x].records # <<>> => out[x].records # <<>> /\ x # b
  <2>1. CASE x # b
    BY <1>2, <1>3, <1>6, <2>1
  <2>2. CASE x = b
    <3>1. b # 0
      BY <2>2
    <3> QED  BY <1>6, <2>2, <3>1
  <2> QED  BY <2>1, <2>2
<1>7. ASSUME NEW i \in DOMAIN kernel
      PROVE  /\ kernel[i].buffer \in DOMAIN out /\ out[kernel[i].buffer].pinned # 0
             /\ kernel[i].buffer = b => Head(mail).kind = "Completed"
  <2>1. kernel[i].buffer \in DOMAIN out /\ out[kernel[i].buffer].pinned # 0
    BY DEF Ledger, KernelOk
  <2>2. ASSUME kernel[i].buffer = b, Head(mail).kind = "Released" PROVE FALSE
    <3>1. b # 0
      BY <2>1, <2>2
    <3>2. b \in Buffers(kernel)
      BY <2>2 DEF Buffers
    <3> QED  BY <1>5, <2>2, <3>1, <3>2
  <2> QED  BY <1>4, <2>1, <2>2
<1>8. KernelOk(new, kernel)
  BY <1>6, <1>7 DEF Ledger, KernelOk
<1>9. ASSUME NEW k \in DOMAIN t, t[k].transfer # 0
      PROVE  /\ t[k].transfer \in DOMAIN out /\ out[t[k].transfer].pinned # 0
             /\ t[k].transfer = b => Head(mail).kind = "Completed"
  <2>1. k + 1 \in DOMAIN mail /\ t[k] = mail[k + 1]
    BY <1>1
  <2>2. t[k].transfer \in DOMAIN out /\ out[t[k].transfer].pinned # 0
    BY <1>9, <2>1 DEF Ledger, MailOk
  <2> QED  BY <1>4, <1>5, <1>9, <2>2
<1>10. ASSUME NEW k \in DOMAIN t, t[k].kind = "Released", t[k].transfer # 0
       PROVE  ReleaseDue(new, kernel, t, k, t[k].transfer)
  <2>1. PICK x : x = t[k].transfer /\ x # 0
    BY <1>10
  <2>2. PICK m : m = k + 1 /\ m \in DOMAIN mail /\ t[k] = mail[m] /\ k \in Nat
    BY <1>1
  <2>3. ReleaseDue(out, kernel, mail, m, x)
    BY <1>10, <2>1, <2>2 DEF Ledger, MailOk
  <2>4. \A j \in DOMAIN t : j \in Nat /\ j + 1 \in DOMAIN mail /\ t[j] = mail[j + 1]
    BY <1>1
  <2>5. ASSUME NEW j \in DOMAIN t, t[j].kind = "Released", t[j].transfer = x PROVE j = k
    <3>1. j + 1 = m /\ j \in Nat
      BY <2>3, <2>4, <2>5 DEF ReleaseDue
    <3> QED  BY <2>2, <3>1
  <2>6. ASSUME NEW j \in DOMAIN t, t[j].kind = "Completed", t[j].transfer = x PROVE j < k
    <3>1. j + 1 < m /\ j \in Nat
      BY <2>3, <2>4, <2>6 DEF ReleaseDue
    <3> QED  BY <2>2, <3>1
  <2>7. x \in DOMAIN out /\ out[x].pinned # 0 /\ (x = b => Head(mail).kind = "Completed")
    BY <1>9, <1>10, <2>1
  <2>8. new[x].records # <<>> => out[x].records # <<>> /\ x # b
    BY <1>6, <2>7
  <2>9. new[x].records # <<>> => Due(t, x)
    BY <1>2, <2>3, <2>8 DEF ReleaseDue
  <2>10. x \notin Buffers(kernel)
    BY <2>3 DEF ReleaseDue
  <2> QED  BY <2>1, <2>5, <2>6, <2>9, <2>10 DEF ReleaseDue
<1>11. \A i \in DOMAIN kernel :
         kernel[i].stage = "Completed"
           => new[kernel[i].buffer].records = <<>> \/ Due(t, kernel[i].buffer)
  <2> SUFFICES ASSUME NEW i \in DOMAIN kernel, kernel[i].stage = "Completed"
               PROVE  new[kernel[i].buffer].records = <<>> \/ Due(t, kernel[i].buffer)
    OBVIOUS
  <2>1. out[kernel[i].buffer].records = <<>> \/ Due(mail, kernel[i].buffer)
    BY DEF Ledger, MailOk
  <2> QED  BY <1>6, <1>7, <2>1
<1>12. \A k \in DOMAIN t :
         t[k].transfer # 0 => t[k].transfer \in DOMAIN new /\ new[t[k].transfer].pinned # 0
  BY <1>6, <1>9
<1>13. MailOk(new, kernel, t)
  BY <1>10, <1>11, <1>12 DEF MailOk
<1> QED  BY <1>1, <1>8, <1>13 DEF Ledger

\* One more at the end.
LEMMA AppendPlaces ==
  ASSUME NEW S, NEW q \in Seq(S), NEW x \in S
  PROVE  \E n \in Nat, a \in Seq(S) :
           /\ a = Append(q, x) /\ n \in DOMAIN a /\ a[n] = x
           /\ \A i \in DOMAIN q : i \in DOMAIN a /\ a[i] = q[i] /\ i < n /\ i # n
           /\ \A j \in DOMAIN a : j = n \/ j \in DOMAIN q
<1>1. PICK m \in Nat : m = Len(q) /\ DOMAIN q = 1 .. m
  OBVIOUS
<1>2. PICK n \in Nat : n = m + 1
  OBVIOUS
<1>3. PICK a \in Seq(S) : /\ a = Append(q, x) /\ DOMAIN a = 1 .. n
                          /\ a[n] = x /\ \A i \in 1 .. m : a[i] = q[i]
  <2>1. Append(q, x) \in Seq(S) /\ Len(Append(q, x)) = Len(q) + 1
    BY AppendProperties
  <2>2. Append(q, x)[Len(q) + 1] = x
    BY AppendProperties
  <2>3. \A i \in 1 .. Len(q) : Append(q, x)[i] = q[i]
    BY AppendProperties
  <2>4. DOMAIN Append(q, x) = 1 .. Len(Append(q, x))
    BY <2>1, DomainOf
  <2> QED  BY <1>1, <1>2, <2>1, <2>2, <2>3, <2>4
<1>4. /\ n \in 1 .. n
      /\ \A i \in 1 .. m : i \in 1 .. n /\ i < n /\ i # n
      /\ \A j \in 1 .. n : j = n \/ j \in 1 .. m
  BY <1>2
<1>5. /\ a = Append(q, x) /\ n \in DOMAIN a /\ a[n] = x
      /\ \A i \in DOMAIN q : i \in DOMAIN a /\ a[i] = q[i] /\ i < n /\ i # n
      /\ \A j \in DOMAIN a : j = n \/ j \in DOMAIN q
  BY <1>1, <1>3, <1>4
<1> QED  BY <1>5

\* An operation of the platform completes, or is written on: it is the same one still.
LEMMA LedgerTells ==
  ASSUME NEW out, NEW kernel, NEW mail, Ledger(out, kernel, mail), NEW b \in Buffers(kernel),
         NEW job \in Jobs, job.kind = "Completed", job.transfer = b,
         NEW new \in Seq(KernelOps), DOMAIN new = DOMAIN kernel,
         \A i \in DOMAIN new : /\ new[i].buffer = kernel[i].buffer
                               /\ new[i].stage = "Completed" => kernel[i].stage = "Completed"
                                                                 \/ new[i].buffer = b
  PROVE  Ledger(out, new, Append(mail, job))
<1>0. mail \in Seq(Jobs)
  BY DEF Ledger, MailOk
<1>1. PICK n \in Nat, more \in Seq(Jobs) :
        /\ more = Append(mail, job) /\ n \in DOMAIN more /\ more[n] = job
        /\ \A i \in DOMAIN mail : i \in DOMAIN more /\ more[i] = mail[i] /\ i < n /\ i # n
        /\ \A j \in DOMAIN more : j = n \/ j \in DOMAIN mail
  BY ONLY ZenonT(60), <1>0, job \in Jobs, AppendPlaces
<1>2. Buffers(new) = Buffers(kernel)
  BY DEF Buffers
<1>3. KernelOk(out, new)
  BY DEF Ledger, KernelOk
<1>4. b \in DOMAIN out /\ out[b].pinned # 0
  BY DEF Ledger, KernelOk, Buffers
<1>5. \A x : Due(mail, x) => Due(more, x)
  BY <1>1 DEF Due
<1>6. Due(more, b)
  BY <1>1 DEF Due
<1>7. ASSUME NEW k \in DOMAIN more, more[k].kind = "Released", more[k].transfer # 0
      PROVE  ReleaseDue(out, new, more, k, more[k].transfer)
  <2>1. k \in DOMAIN mail /\ more[k] = mail[k]
    BY <1>1, <1>7
  <2>2. PICK x : x = mail[k].transfer /\ ReleaseDue(out, kernel, mail, k, x)
    BY <1>7, <2>1 DEF Ledger, MailOk
  <2>3. x # b
    BY <2>2 DEF ReleaseDue
  <2>4. \A j \in DOMAIN more : more[j].transfer = x => j \in DOMAIN mail /\ more[j] = mail[j]
    BY <1>1, <2>3
  <2>5. ReleaseDue(out, new, more, k, x)
    BY <1>2, <1>5, <2>2, <2>4 DEF ReleaseDue
  <2> QED  BY <2>1, <2>2, <2>5
<1>8. \A k \in DOMAIN more :
        more[k].transfer # 0 => more[k].transfer \in DOMAIN out /\ out[more[k].transfer].pinned # 0
  BY <1>1, <1>4 DEF Ledger, MailOk
<1>9. \A i \in DOMAIN new :
        new[i].stage = "Completed" => out[new[i].buffer].records = <<>> \/ Due(more, new[i].buffer)
  <2> SUFFICES ASSUME NEW i \in DOMAIN new, new[i].stage = "Completed"
               PROVE  out[new[i].buffer].records = <<>> \/ Due(more, new[i].buffer)
    OBVIOUS
  <2>1. CASE new[i].buffer = b
    BY <1>6, <2>1
  <2>2. CASE new[i].buffer # b
    <3>1. kernel[i].stage = "Completed" /\ i \in DOMAIN kernel
      BY <2>2
    <3>2. out[kernel[i].buffer].records = <<>> \/ Due(mail, kernel[i].buffer)
      BY <3>1 DEF Ledger, MailOk
    <3> QED  BY <1>5, <3>2
  <2> QED  BY <2>1, <2>2
<1>10. MailOk(out, new, more)
  BY <1>7, <1>8, <1>9 DEF MailOk
<1> QED  BY <1>1, <1>3, <1>10 DEF Ledger

\* The records of an operation are written.
LEMMA LedgerWrites ==
  ASSUME NEW out, NEW kernel, NEW mail, Ledger(out, kernel, mail),
         NEW new \in Seq(KernelOps), DOMAIN new = DOMAIN kernel,
         \A i \in DOMAIN new : new[i].buffer = kernel[i].buffer /\ new[i].stage = kernel[i].stage
  PROVE  Ledger(out, new, mail)
<1>1. KernelOk(out, new)
  BY DEF Ledger, KernelOk
<1>2. Buffers(new) = Buffers(kernel)
  BY DEF Buffers
<1>3. ASSUME NEW k \in DOMAIN mail, mail[k].kind = "Released", mail[k].transfer # 0
      PROVE  ReleaseDue(out, new, mail, k, mail[k].transfer)
  <2>1. ReleaseDue(out, kernel, mail, k, mail[k].transfer)
    BY <1>3 DEF Ledger, MailOk
  <2> QED  BY <1>2, <2>1 DEF ReleaseDue
<1>4. /\ mail \in Seq(Jobs)
      /\ \A k \in DOMAIN mail :
           mail[k].transfer # 0 => mail[k].transfer \in DOMAIN out /\ out[mail[k].transfer].pinned # 0
  BY DEF Ledger, MailOk
<1>5. \A i \in DOMAIN new :
        new[i].stage = "Completed" => out[new[i].buffer].records = <<>> \/ Due(mail, new[i].buffer)
  BY DEF Ledger, MailOk
<1>6. MailOk(out, new, mail)
  BY <1>3, <1>4, <1>5 DEF MailOk
<1> QED  BY <1>1, <1>6 DEF Ledger

-----------------------------------------------------------------------------
(* A sequence without one of its elements.                                 *)

Skip(i, j) == IF j < i THEN j ELSE j + 1
CutOut(q, i) == Joined(First(q, i - 1), From(q, i))

LEMMA CutOutIs ==
  ASSUME NEW S, NEW q \in Seq(S), NEW i \in DOMAIN q
  PROVE  /\ CutOut(q, i) \in Seq(S) /\ Len(CutOut(q, i)) = Len(q) - 1
         /\ \A j \in DOMAIN CutOut(q, i) : /\ Skip(i, j) \in DOMAIN q /\ Skip(i, j) # i
                                           /\ CutOut(q, i)[j] = q[Skip(i, j)]
         /\ \A j, k \in DOMAIN CutOut(q, i) : Skip(i, j) = Skip(i, k) => j = k
<1>1. PICK n \in Nat : n = Len(q) /\ DOMAIN q = 1 .. n /\ i \in 1 .. n
  OBVIOUS
<1>i. i \in Nat /\ i >= 1 /\ i <= n
  BY <1>1
<1>2. PICK h \in Nat : h = i - 1 /\ h \in 0 .. n /\ i = h + 1
  BY ONLY <1>i, n \in Nat
<1>3. PICK p \in Seq(S) : p = First(q, h) /\ Len(p) = h /\ \A j \in 1 .. h : p[j] = q[j]
  <2>1. h \in 0 .. Len(q)
    BY <1>1, <1>2
  <2>2. First(q, h) \in Seq(S) /\ Len(First(q, h)) = h
    BY <2>1, FirstIs
  <2>3. \A j \in 1 .. h : First(q, h)[j] = q[j]
    BY <2>1, FirstIs
  <2> QED  BY <2>2, <2>3
<1>4. i \in 0 .. Len(q)
  BY <1>1
<1>5. PICK t \in Seq(S) : t = From(q, i) /\ Len(t) = n - i /\ \A j \in 1 .. n - i : t[j] = q[i + j]
  <2>1. From(q, i) \in Seq(S) /\ Len(From(q, i)) = Len(q) - i
    BY <1>4, FromIs
  <2>2. \A j \in 1 .. Len(q) - i : From(q, i)[j] = q[i + j]
    BY <1>4, FromIs
  <2> QED  BY <1>1, <2>1, <2>2
<1>6. PICK c \in Seq(S) : /\ c = Joined(p, t) /\ Len(c) = h + (n - i)
                          /\ \A j \in 1 .. h : c[j] = p[j]
                          /\ \A j \in 1 .. n - i : c[h + j] = t[j]
  <2>1. Joined(p, t) \in Seq(S) /\ Len(Joined(p, t)) = Len(p) + Len(t)
    BY JoinedIs
  <2>2. \A j \in 1 .. Len(p) : Joined(p, t)[j] = p[j]
    BY JoinedIs
  <2>3. \A j \in 1 .. Len(t) : Joined(p, t)[Len(p) + j] = t[j]
    BY JoinedIs
  <2> QED  BY SMTT(60), <1>3, <1>5, <2>1, <2>2, <2>3
<1>7. DOMAIN c = 1 .. n - 1 /\ Len(c) = n - 1
  <2>1. h + (n - i) = n - 1
    BY ONLY <1>i, <1>2, n \in Nat, h \in Nat
  <2> QED  BY <1>6, <2>1
<1>8. ASSUME NEW j \in 1 .. n - 1
      PROVE  Skip(i, j) \in 1 .. n /\ Skip(i, j) # i /\ c[j] = q[Skip(i, j)]
  <2>1. CASE j < i
    <3>1. j \in 1 .. h /\ Skip(i, j) = j
      BY <1>1, <1>2, <2>1 DEF Skip
    <3> QED  BY <1>1, <1>3, <1>6, <2>1, <3>1
  <2>2. CASE ~(j < i)
    <3>j. j \in Nat /\ j <= n - 1 /\ j >= i
      BY <1>i, <2>2
    <3>1. PICK m \in 1 .. n - i : j = h + m
      <4>1. PICK m \in Nat : j = h + m /\ m >= 1
        <5>1. j - h \in Nat /\ j = h + (j - h) /\ j - h >= 1
          BY ONLY SMTT(60), <1>i, <1>2, <3>j, n \in Nat, h \in Nat
        <5> QED  BY ONLY <5>1
      <4>2. m <= n - i
        BY ONLY SMTT(60), <4>1, <1>i, <1>2, <3>j, n \in Nat, h \in Nat, m \in Nat
      <4>3. m \in 1 .. n - i
        BY ONLY <4>1, <4>2, <1>i, n \in Nat, m \in Nat
      <4> QED  BY <4>1, <4>3
    <3>2. c[j] = q[i + m]
      BY <1>5, <1>6, <3>1
    <3>3. m \in Nat
      BY ONLY <1>i, n \in Nat, m \in 1 .. n - i
    <3>4. i + m = j + 1 /\ j + 1 \in 1 .. n /\ j + 1 # i
      <4>1. i + m = j + 1
        <5>1. j = h + m
          BY <3>1
        <5>2. i = h + 1
          BY <1>2
        <5> QED  BY ONLY <5>1, <5>2, <3>3, h \in Nat
      <4>2. j + 1 \in 1 .. n /\ j + 1 # i
        BY ONLY <1>i, <3>j, n \in Nat
      <4> QED  BY <4>1, <4>2
    <3>5. Skip(i, j) = j + 1
      BY <2>2 DEF Skip
    <3> QED  BY <3>2, <3>4, <3>5
  <2> QED  BY <2>1, <2>2
<1>9. \A j, k \in 1 .. n - 1 : Skip(i, j) = Skip(i, k) => j = k
  BY <1>1 DEF Skip
<1>10. c = CutOut(q, i)
  BY <1>2, <1>3, <1>5, <1>6 DEF CutOut
<1> QED  BY <1>1, <1>7, <1>8, <1>9, <1>10

\* An operation that has completed is released.
LEMMA LedgerRemoves ==
  ASSUME NEW out, NEW kernel, NEW mail, Ledger(out, kernel, mail), NEW i \in DOMAIN kernel,
         kernel[i].stage = "Completed", NEW b, b = kernel[i].buffer,
         NEW job \in Jobs, job.kind = "Released", job.transfer = b
  PROVE  Ledger(out, CutOut(kernel, i), Append(mail, job))
<1>0. mail \in Seq(Jobs) /\ kernel \in Seq(KernelOps)
  BY DEF Ledger, MailOk, KernelOk
<1>1. PICK n \in Nat, more \in Seq(Jobs) :
        /\ more = Append(mail, job) /\ n \in DOMAIN more /\ more[n] = job
        /\ \A j \in DOMAIN mail : j \in DOMAIN more /\ more[j] = mail[j] /\ j < n /\ j # n
        /\ \A j \in DOMAIN more : j = n \/ j \in DOMAIN mail
  BY ONLY ZenonT(60), <1>0, job \in Jobs, AppendPlaces
<1>2. PICK new \in Seq(KernelOps) :
         /\ new = CutOut(kernel, i)
         /\ \A j \in DOMAIN new : /\ Skip(i, j) \in DOMAIN kernel /\ Skip(i, j) # i
                                  /\ new[j] = kernel[Skip(i, j)]
         /\ \A j, k \in DOMAIN new : Skip(i, j) = Skip(i, k) => j = k
  <2>1. CutOut(kernel, i) \in Seq(KernelOps)
    BY <1>0, CutOutIs
  <2>2. \A j \in DOMAIN CutOut(kernel, i) : /\ Skip(i, j) \in DOMAIN kernel /\ Skip(i, j) # i
                                            /\ CutOut(kernel, i)[j] = kernel[Skip(i, j)]
    BY <1>0, CutOutIs
  <2>3. \A j, k \in DOMAIN CutOut(kernel, i) : Skip(i, j) = Skip(i, k) => j = k
    BY <1>0, CutOutIs
  <2> QED  BY <2>1, <2>2, <2>3
<1>3. KernelOk(out, new)
  <2>1. \A j \in DOMAIN new : new[j].buffer \in DOMAIN out /\ out[new[j].buffer].pinned # 0
    BY <1>2 DEF Ledger, KernelOk
  <2>2. ASSUME NEW j \in DOMAIN new, NEW k \in DOMAIN new, new[j].buffer = new[k].buffer
        PROVE  j = k
    <3>1. Skip(i, j) = Skip(i, k)
      BY <1>2, <2>2 DEF Ledger, KernelOk
    <3> QED  BY <1>2, <3>1
  <2> QED  BY <2>1, <2>2 DEF KernelOk
<1>4. b \in Buffers(kernel) /\ b \in DOMAIN out /\ out[b].pinned # 0
  BY DEF Ledger, KernelOk, Buffers
<1>5. b \notin Buffers(new) /\ Buffers(new) \subseteq Buffers(kernel)
  <2>1. ASSUME NEW j \in DOMAIN new PROVE new[j].buffer # b /\ new[j].buffer \in Buffers(kernel)
    <3>1. /\ Skip(i, j) \in DOMAIN kernel /\ Skip(i, j) # i /\ new[j] = kernel[Skip(i, j)]
      BY <1>2
    <3> QED  BY <3>1 DEF Ledger, KernelOk, Buffers
  <2> QED  BY <2>1 DEF Buffers
<1>6. \A x : Due(mail, x) => Due(more, x)
  BY <1>1 DEF Due
<1>7. ASSUME NEW j \in DOMAIN mail, mail[j].kind = "Released", mail[j].transfer # 0
      PROVE  ReleaseDue(out, kernel, mail, j, mail[j].transfer) /\ mail[j].transfer # b
  <2>1. ReleaseDue(out, kernel, mail, j, mail[j].transfer)
    BY <1>7 DEF Ledger, MailOk
  <2> QED  BY <1>4, <2>1 DEF ReleaseDue
<1>8. ASSUME NEW k \in DOMAIN more, more[k].kind = "Released", more[k].transfer # 0
      PROVE  ReleaseDue(out, new, more, k, more[k].transfer)
  <2>1. CASE k \in DOMAIN mail
    <3>1. PICK x : x = mail[k].transfer /\ ReleaseDue(out, kernel, mail, k, x) /\ x # b /\ more[k] = mail[k]
      BY <1>1, <1>7, <1>8, <2>1
    <3>2. \A j \in DOMAIN more : more[j].transfer = x => j \in DOMAIN mail /\ more[j] = mail[j]
      BY <1>1, <3>1
    <3>3. ReleaseDue(out, new, more, k, x)
      BY <1>5, <1>6, <3>1, <3>2 DEF ReleaseDue
    <3> QED  BY <3>1, <3>3
  <2>2. CASE k = n
    <3>1. more[k].transfer = b /\ b # 0
      BY <1>1, <1>8, <2>2
    <3>2. \A j \in DOMAIN more : more[j].kind = "Released" /\ more[j].transfer = b => j = k
      BY <1>1, <1>7, <2>2, <3>1
    <3>3. \A j \in DOMAIN more : more[j].kind = "Completed" /\ more[j].transfer = b => j < k
      BY <1>1, <2>2
    <3>4. out[b].records # <<>> => Due(more, b)
      BY <1>6 DEF Ledger, MailOk
    <3>5. ReleaseDue(out, new, more, k, b)
      BY <1>5, <3>2, <3>3, <3>4 DEF ReleaseDue
    <3> QED  BY <3>1, <3>5
  <2> QED  BY <1>1, <2>1, <2>2
<1>9. \A k \in DOMAIN more :
        more[k].transfer # 0 => more[k].transfer \in DOMAIN out /\ out[more[k].transfer].pinned # 0
  BY <1>1, <1>4 DEF Ledger, MailOk
<1>10. \A j \in DOMAIN new :
         new[j].stage = "Completed" => out[new[j].buffer].records = <<>> \/ Due(more, new[j].buffer)
  BY <1>2, <1>6 DEF Ledger, MailOk
<1>11. MailOk(out, new, more)
  BY <1>8, <1>9, <1>10 DEF MailOk
<1> QED  BY <1>1, <1>2, <1>3, <1>11 DEF Ledger

\* A generation that was just pinned is given to the platform.
LEMMA LedgerSubmits ==
  ASSUME NEW out, NEW kernel, NEW mail, Ledger(out, kernel, mail), NEW new, Holding(out, new),
         NEW b \in DOMAIN out, out[b].pinned = 0, b \in DOMAIN new, new[b].pinned # 0,
         NEW op \in KernelOps, op.buffer = b, op.stage = "Queued"
  PROVE  Ledger(new, Append(kernel, op), mail)
<1>0. kernel \in Seq(KernelOps)
  BY DEF Ledger, KernelOk
<1>1. PICK n \in Nat, more \in Seq(KernelOps) :
        /\ more = Append(kernel, op) /\ n \in DOMAIN more /\ more[n] = op
        /\ \A i \in DOMAIN kernel : i \in DOMAIN more /\ more[i] = kernel[i] /\ i < n /\ i # n
        /\ \A j \in DOMAIN more : j = n \/ j \in DOMAIN kernel
  BY ONLY ZenonT(60), <1>0, op \in KernelOps, AppendPlaces
<1>2. Ledger(new, kernel, mail)
  BY LedgerHolds
<1>3. \A j \in DOMAIN kernel : kernel[j].buffer # b
  BY DEF Ledger, KernelOk
<1>4. \A j \in DOMAIN mail : mail[j].transfer # 0 => mail[j].transfer # b
  BY DEF Ledger, MailOk
<1>5. KernelOk(new, more)
  <2>1. \A j \in DOMAIN more : more[j].buffer \in DOMAIN new /\ new[more[j].buffer].pinned # 0
    BY <1>1, <1>2 DEF Ledger, KernelOk
  <2>2. ASSUME NEW j \in DOMAIN more, NEW k \in DOMAIN more, more[j].buffer = more[k].buffer
        PROVE  j = k
    <3>1. CASE j \in DOMAIN kernel /\ k \in DOMAIN kernel
      BY <1>1, <2>2, <3>1 DEF Ledger, KernelOk
    <3>2. CASE j = n
      BY <1>1, <1>3, <2>2, <3>2
    <3>3. CASE k = n
      BY <1>1, <1>3, <2>2, <3>3
    <3> QED  BY <1>1, <3>1, <3>2, <3>3
  <2> QED  BY <2>1, <2>2 DEF KernelOk
<1>6. \A x : x \in Buffers(more) => x \in Buffers(kernel) \/ x = b
  BY <1>1 DEF Buffers
<1>7. ASSUME NEW k \in DOMAIN mail, mail[k].kind = "Released", mail[k].transfer # 0
      PROVE  ReleaseDue(new, more, mail, k, mail[k].transfer)
  <2>1. ReleaseDue(new, kernel, mail, k, mail[k].transfer)
    BY <1>2, <1>7 DEF Ledger, MailOk
  <2> QED  BY <1>4, <1>6, <1>7, <2>1 DEF ReleaseDue
<1>8. /\ mail \in Seq(Jobs)
      /\ \A k \in DOMAIN mail :
           mail[k].transfer # 0 => mail[k].transfer \in DOMAIN new /\ new[mail[k].transfer].pinned # 0
  BY <1>2 DEF Ledger, MailOk
<1>9. \A j \in DOMAIN more :
        more[j].stage = "Completed" => new[more[j].buffer].records = <<>> \/ Due(mail, more[j].buffer)
  BY <1>1, <1>2 DEF Ledger, MailOk
<1>10. MailOk(new, more, mail)
  BY <1>7, <1>8, <1>9 DEF MailOk
<1> QED  BY <1>1, <1>5, <1>10 DEF Ledger

\* The first job, of a generation: it is pinned, and drained when it is released.
LEMMA LedgerFirst ==
  ASSUME NEW out, NEW kernel, NEW mail, Ledger(out, kernel, mail), mail # <<>>,
         NEW b, b = Head(mail).transfer, b # 0
  PROVE  /\ b \in DOMAIN out /\ out[b].pinned # 0
         /\ Head(mail).kind = "Released" => out[b].records = <<>>
<1>0. mail \in Seq(Jobs)
  BY DEF Ledger, MailOk
<1>1. 1 \in DOMAIN mail /\ mail[1] = Head(mail)
  BY <1>0, TailPlaces
<1>2. b \in DOMAIN out /\ out[b].pinned # 0
  BY <1>1 DEF Ledger, MailOk
<1>3. ASSUME Head(mail).kind = "Released", out[b].records # <<>> PROVE FALSE
  <2>1. ReleaseDue(out, kernel, mail, 1, b)
    BY <1>1, <1>3 DEF Ledger, MailOk
  <2>2. PICK j \in DOMAIN mail : j < 1
    BY <1>3, <2>1 DEF ReleaseDue, Due
  <2>3. j \in Nat /\ j >= 1
    BY <1>0
  <2> QED  BY <2>2, <2>3
<1> QED  BY <1>2, <1>3

-----------------------------------------------------------------------------
(* The records the platform still has to write.                            *)

KernelRecords(kernel) == [i \in 1 .. Len(kernel) |-> kernel[i].records]
Carrying(kernel) == Concatenated(KernelRecords(kernel))

\* What is put together, by one of its parts.
LEMMA ConcatAt ==
  ASSUME NEW f \in Seq(Datas), NEW i \in DOMAIN f
  PROVE  /\ First(f, i - 1) \in Seq(Datas) /\ From(f, i) \in Seq(Datas)
         /\ Len(First(f, i - 1)) = i - 1 /\ i - 1 \in Nat
         /\ \A j \in 1 .. i - 1 : First(f, i - 1)[j] = f[j]
         /\ f[i] \in Datas
         /\ Concatenated(f) = Joined(Joined(Concatenated(First(f, i - 1)), f[i]), Concatenated(From(f, i)))
<1>1. PICK n \in Nat : n = Len(f) /\ i \in 1 .. n
  OBVIOUS
<1>2. PICK h \in Nat : h = i - 1 /\ i = h + 1 /\ h <= n
  BY <1>1
<1>3. i \in Nat /\ i <= Len(f) /\ i \in 0 .. Len(f) /\ h \in 0 .. Len(f)
  BY <1>1, <1>2
<1>4. First(f, i) = Append(First(f, h), f[i]) /\ f[i] \in Datas
  BY <1>2, <1>3, FirstMore
<1>5. First(f, h) \in Seq(Datas) /\ Len(First(f, h)) = h
  BY <1>3, FirstIs
<1>6. First(f, i) \in Seq(Datas) /\ From(f, i) \in Seq(Datas)
  BY <1>3, FirstIs, FromIs
<1>7. \A j \in 1 .. h : First(f, h)[j] = f[j]
  BY <1>3, FirstIs
<1>8. f = Joined(First(f, i), From(f, i))
  BY <1>3, SplitAt
<1>9. Concatenated(f) = Joined(Concatenated(First(f, i)), Concatenated(From(f, i)))
  BY <1>6, <1>8, ConcatBoth
<1>10. Concatenated(First(f, i)) = Joined(Concatenated(First(f, h)), f[i])
  BY <1>4, <1>5, ConcatNext
<1> QED  BY <1>2, <1>4, <1>5, <1>6, <1>7, <1>9, <1>10

LEMMA KernelRecordsAre ==
  ASSUME NEW kernel \in Seq(KernelOps)
  PROVE  /\ KernelRecords(kernel) \in Seq(Datas) /\ Len(KernelRecords(kernel)) = Len(kernel)
         /\ DOMAIN KernelRecords(kernel) = DOMAIN kernel
         /\ \A i \in DOMAIN kernel : KernelRecords(kernel)[i] = kernel[i].records
         /\ \A i \in DOMAIN kernel : kernel[i] \in KernelOps /\ kernel[i].records \in Datas
         /\ Carrying(kernel) \in Datas
<1>1. PICK n \in Nat : n = Len(kernel) /\ DOMAIN kernel = 1 .. n
  OBVIOUS
<1>2. \A i \in 1 .. n : kernel[i] \in KernelOps
  BY <1>1
<1>3. \A i \in 1 .. n : kernel[i].records \in Datas
  BY <1>2 DEF KernelOps
<1>4. PICK f : f = KernelRecords(kernel) /\ f \in [1 .. n -> Datas]
  <2>1. [i \in 1 .. n |-> kernel[i].records] \in [1 .. n -> Datas]
    BY <1>3
  <2>2. KernelRecords(kernel) = [i \in 1 .. n |-> kernel[i].records]
    BY <1>1 DEF KernelRecords
  <2> QED  BY <2>1, <2>2
<1>5. f \in Seq(Datas) /\ Len(f) = n
  BY <1>4, SeqMade
<1>6. \A i \in 1 .. n : f[i] = kernel[i].records
  BY <1>1, <1>4 DEF KernelRecords
<1>7. Carrying(kernel) \in Datas
  BY <1>4, <1>5, ConcatType DEF Carrying
<1> QED  BY <1>1, <1>2, <1>3, <1>4, <1>5, <1>6, <1>7

LEMMA CarryingNone == Carrying(<<>>) = <<>>
<1>1. KernelRecords(<<>>) = <<>>
  BY DEF KernelRecords
<1> QED  BY <1>1, ConcatNone DEF Carrying

\* Operations that have the same records.
LEMMA CarryingSame ==
  ASSUME NEW kernel \in Seq(KernelOps), NEW new \in Seq(KernelOps), DOMAIN new = DOMAIN kernel,
         \A i \in DOMAIN kernel : new[i].records = kernel[i].records
  PROVE  Carrying(new) = Carrying(kernel)
<1>1. PICK n \in Nat : n = Len(kernel) /\ DOMAIN kernel = 1 .. n
  OBVIOUS
<1>2. Len(new) = n
  BY <1>1
<1>3. KernelRecords(new) = KernelRecords(kernel)
  BY <1>1, <1>2 DEF KernelRecords
<1> QED  BY <1>3 DEF Carrying

LEMMA CarryingAppend ==
  ASSUME NEW kernel \in Seq(KernelOps), NEW op \in KernelOps
  PROVE  /\ Append(kernel, op) \in Seq(KernelOps)
         /\ Carrying(Append(kernel, op)) = Joined(Carrying(kernel), op.records)
<1>1. PICK n \in Nat : n = Len(kernel) /\ DOMAIN kernel = 1 .. n
  OBVIOUS
<1>2. PICK new \in Seq(KernelOps) :
        /\ new = Append(kernel, op) /\ Len(new) = n + 1 /\ new[n + 1] = op
        /\ \A i \in 1 .. n : new[i] = kernel[i]
  <2>1. Append(kernel, op) \in Seq(KernelOps) /\ Len(Append(kernel, op)) = Len(kernel) + 1
    BY AppendProperties
  <2>2. Append(kernel, op)[Len(kernel) + 1] = op
    BY AppendProperties
  <2>3. \A i \in 1 .. Len(kernel) : Append(kernel, op)[i] = kernel[i]
    BY AppendProperties
  <2> QED  BY <1>1, <2>1, <2>2, <2>3
<1>3. PICK f, g : f = KernelRecords(kernel) /\ g = KernelRecords(new)
  OBVIOUS
<1>4. Len(f) = n /\ Len(g) = n + 1
  BY <1>1, <1>2, <1>3, KernelRecordsAre
<1>5. \A i \in 1 .. n : g[i] = f[i]
  BY <1>1, <1>2, <1>3 DEF KernelRecords
<1>6. g[n + 1] = op.records
  BY <1>1, <1>2, <1>3 DEF KernelRecords
<1>7. Concatenated(g) = Joined(Concatenated(f), g[n + 1])
  BY ONLY <1>4, <1>5, n \in Nat, n + 1 \in Nat, JoinsLast
<1> QED  BY <1>2, <1>3, <1>6, <1>7 DEF Carrying

\* An operation whose records are written is released.
LEMMA CarryingCut ==
  ASSUME NEW kernel \in Seq(KernelOps), NEW i \in DOMAIN kernel, kernel[i].records = <<>>
  PROVE  Carrying(CutOut(kernel, i)) = Carrying(kernel)
<1>1. PICK f \in Seq(Datas) :
         /\ f = KernelRecords(kernel) /\ Len(f) = Len(kernel) /\ DOMAIN f = DOMAIN kernel
         /\ \A j \in DOMAIN kernel : f[j] = kernel[j].records
  BY KernelRecordsAre
<1>2. PICK new \in Seq(KernelOps) :
         /\ new = CutOut(kernel, i) /\ Len(new) = Len(kernel) - 1
         /\ \A j \in DOMAIN new : Skip(i, j) \in DOMAIN kernel /\ new[j] = kernel[Skip(i, j)]
  <2>1. CutOut(kernel, i) \in Seq(KernelOps) /\ Len(CutOut(kernel, i)) = Len(kernel) - 1
    BY CutOutIs
  <2>2. \A j \in DOMAIN CutOut(kernel, i) : /\ Skip(i, j) \in DOMAIN kernel
                                            /\ CutOut(kernel, i)[j] = kernel[Skip(i, j)]
    BY CutOutIs
  <2> QED  BY <2>1, <2>2
<1>3. PICK c \in Seq(Datas) :
         /\ c = CutOut(f, i) /\ Len(c) = Len(f) - 1
         /\ \A j \in DOMAIN c : c[j] = f[Skip(i, j)]
  <2>1. i \in DOMAIN f
    BY <1>1
  <2>2. CutOut(f, i) \in Seq(Datas) /\ Len(CutOut(f, i)) = Len(f) - 1
    BY <2>1, CutOutIs
  <2>3. \A j \in DOMAIN CutOut(f, i) : CutOut(f, i)[j] = f[Skip(i, j)]
    BY <2>1, CutOutIs
  <2> QED  BY <2>2, <2>3
<1>4. PICK g \in Seq(Datas) :
         /\ g = KernelRecords(new) /\ Len(g) = Len(new) /\ DOMAIN g = DOMAIN new
         /\ \A j \in DOMAIN new : g[j] = new[j].records
  BY KernelRecordsAre
<1>5. g = c
  <2>1. Len(g) = Len(c) /\ 1 .. Len(g) = DOMAIN g /\ 1 .. Len(g) = DOMAIN c
    BY <1>1, <1>2, <1>3, <1>4
  <2>2. \A j \in DOMAIN g : Skip(i, j) \in DOMAIN kernel /\ g[j] = kernel[Skip(i, j)].records
    BY <1>2, <1>4
  <2>3. \A j \in DOMAIN g : f[Skip(i, j)] = kernel[Skip(i, j)].records
    BY <1>1, <2>2
  <2>4. \A j \in DOMAIN g : c[j] = f[Skip(i, j)]
    BY <1>3, <2>1
  <2>5. \A j \in DOMAIN g : g[j] = c[j]
    BY <2>2, <2>3, <2>4
  <2> QED  BY <2>1, <2>5, SeqEqual
<1>6. i \in DOMAIN f /\ f[i] = <<>>
  BY <1>1
<1>7. PICK p \in Seq(Datas), q \in Seq(Datas) :
        /\ p = First(f, i - 1) /\ q = From(f, i)
        /\ Concatenated(f) = Joined(Joined(Concatenated(p), f[i]), Concatenated(q))
  BY <1>6, ConcatAt
<1>8. Concatenated(c) = Joined(Concatenated(p), Concatenated(q))
  BY <1>3, <1>7, ConcatBoth DEF CutOut
<1>9. Joined(Concatenated(p), <<>>) = Concatenated(p)
  BY <1>7, ConcatType, DataJoins
<1> QED  BY <1>1, <1>2, <1>4, <1>5, <1>6, <1>7, <1>8, <1>9 DEF Carrying

\* The first record of an operation is written, when those before it have none.
LEMMA CarryingWrites ==
  ASSUME NEW kernel \in Seq(KernelOps), NEW i \in DOMAIN kernel, kernel[i].records # <<>>,
         \A j \in 1 .. i - 1 : kernel[j].records = <<>>,
         NEW new \in Seq(KernelOps), DOMAIN new = DOMAIN kernel,
         new[i].records = Tail(kernel[i].records),
         \A j \in DOMAIN kernel : j # i => new[j] = kernel[j]
  PROVE  Carrying(kernel) = Joined(<<Head(kernel[i].records)>>, Carrying(new))
<1>1. PICK f \in Seq(Datas) :
         /\ f = KernelRecords(kernel) /\ Len(f) = Len(kernel) /\ DOMAIN f = DOMAIN kernel
         /\ \A j \in DOMAIN kernel : f[j] = kernel[j].records
  BY KernelRecordsAre
<1>2. PICK g \in Seq(Datas) :
         /\ g = KernelRecords(new) /\ Len(g) = Len(new) /\ DOMAIN g = DOMAIN new
         /\ \A j \in DOMAIN new : g[j] = new[j].records
  BY KernelRecordsAre
<1>3. /\ i \in DOMAIN f /\ i \in DOMAIN g /\ Len(f) = Len(g)
      /\ \A j \in DOMAIN f : j # i => g[j] = f[j]
  BY <1>1, <1>2
<1>4. PICK n \in Nat : n = Len(f) /\ DOMAIN f = 1 .. n
  OBVIOUS
<1>5. i \in 1 .. n /\ i - 1 \in Nat /\ i - 1 \in 0 .. n /\ \A j \in 1 .. i - 1 : j \in 1 .. n
  BY <1>3, <1>4
<1>6. PICK p : /\ p = First(f, i - 1) /\ p \in Seq(Datas) /\ Len(p) = i - 1
               /\ \A j \in 1 .. i - 1 : p[j] = f[j]
  BY SMTT(60), <1>3, ConcatAt
<1>7. PICK r : /\ r = First(g, i - 1) /\ r \in Seq(Datas) /\ Len(r) = i - 1
               /\ \A j \in 1 .. i - 1 : r[j] = g[j]
  BY ONLY SMTT(60), <1>3, g \in Seq(Datas), ConcatAt
<1>8. \A j \in 1 .. i - 1 : f[j] = <<>> /\ g[j] = <<>>
  <2> SUFFICES ASSUME NEW j \in 1 .. i - 1 PROVE f[j] = <<>> /\ g[j] = <<>>
    OBVIOUS
  <2>1. j \in DOMAIN f /\ j # i
    BY <1>4, <1>5
  <2>2. f[j] = <<>>
    BY <1>1, <2>1
  <2> QED  BY <1>3, <2>1, <2>2
<1>9. Concatenated(p) = <<>> /\ Concatenated(r) = <<>>
  <2>1. \A j \in 1 .. i - 1 : p[j] = <<>> /\ r[j] = <<>>
    BY <1>6, <1>7, <1>8
  <2>2. Concatenated(p) = <<>>
    BY ONLY <1>5, <1>6, <2>1, ConcatSilent
  <2>3. Concatenated(r) = <<>>
    BY ONLY <1>5, <1>7, <2>1, ConcatSilent
  <2> QED  BY <2>2, <2>3
<1>10. From(f, i) = From(g, i) /\ From(f, i) \in Seq(Datas)
  <2>1. i \in 0 .. Len(f) /\ i \in 0 .. Len(g)
    BY <1>3, <1>4, <1>5
  <2>2. From(f, i) \in Seq(Datas) /\ Len(From(f, i)) = Len(f) - i
    BY <2>1, FromIs
  <2>3. From(g, i) \in Seq(Datas) /\ Len(From(g, i)) = Len(g) - i
    BY <2>1, FromIs
  <2>4. \A j \in 1 .. Len(f) - i : From(f, i)[j] = f[i + j]
    BY ZenonT(60), <2>1, FromIs
  <2>5. \A j \in 1 .. Len(g) - i : From(g, i)[j] = g[i + j]
    BY ZenonT(60), <2>1, FromIs
  <2>6. \A j \in 1 .. Len(f) - i : i + j \in DOMAIN f /\ i + j # i
    BY <1>4, <1>5
  <2>7. \A j \in 1 .. Len(From(f, i)) : From(f, i)[j] = From(g, i)[j]
    BY ONLY <1>3, <2>2, <2>4, <2>5, <2>6
  <2> QED  BY SMTT(60), <1>3, <2>2, <2>3, <2>7, SeqEqual
<1>11. PICK q \in Datas : q = Concatenated(From(f, i))
  BY <1>10, ConcatType
<1>12. f[i] \in Datas /\ Concatenated(f) = Joined(Joined(<<>>, f[i]), q)
  BY <1>3, <1>6, <1>9, <1>11, ConcatAt
<1>13. g[i] \in Datas /\ Concatenated(g) = Joined(Joined(<<>>, g[i]), q)
  BY <1>3, <1>7, <1>9, <1>10, <1>11, ConcatAt
<1>14. Concatenated(f) = Joined(f[i], q) /\ Concatenated(g) = Joined(g[i], q)
  BY <1>12, <1>13, DataJoins
<1>15. PICK x \in Datas : x = kernel[i].records /\ f[i] = x /\ g[i] = Tail(x) /\ x # <<>>
  BY <1>1, <1>2, <1>12
<1>16. x = Joined(<<Head(x)>>, Tail(x)) /\ <<Head(x)>> \in Datas /\ Tail(x) \in Datas
  BY <1>15, FirstOf, OneOf DEF Datas
<1>17. Joined(Joined(<<Head(x)>>, Tail(x)), q) = Joined(<<Head(x)>>, Joined(Tail(x), q))
  BY <1>16, DataJoinsBoth
<1> QED  BY <1>1, <1>2, <1>14, <1>15, <1>16, <1>17 DEF Carrying

-----------------------------------------------------------------------------
(* The socket: what it has sealed is on the wire, in the platform or in    *)
(* the generations that wait, in this order.                               *)

Operations ==
  [buffer : Nat, plaintext : Nat, functors : BOOLEAN, resolved : BOOLEAN, released : BOOLEAN]

OnWire(c) == c.wire \in Datas /\ c.wire = Interval(0, Len(c.wire))

InOrder(c) ==
  /\ Joined(c.wire, Joined(Carrying(c.kernel), Left(c.tx))) = Interval(0, Len(c.sealed))
  /\ \A i \in DOMAIN c.kernel : c.kernel[i].stage = "Completed" => c.kernel[i].records = <<>>

Whole(c) ==
  /\ IsSocket(c)
  /\ c.room \in Nat /\ c.held \in Nat /\ c.failed = FALSE
  /\ c.sealed \in Seq(RecordKinds) /\ c.ops \in Seq(Operations)
  /\ TxOk(c.tx)
  /\ Ledger(c.tx.out, c.kernel, c.mail)
  /\ OnWire(c)
  /\ ~lost => InOrder(c)

\* The members this is about.
Flow == {"tx", "wire", "room", "sealed", "failed", "kernel", "mail", "ops", "held"}

LEMMA WholeSame ==
  ASSUME NEW c, NEW d, NEW F, Whole(c), Same(c, d, F), F \cap Flow = {}
  PROVE  Whole(d)
<1>1. IsSocket(d)
  BY SocketStays DEF Whole
<1>2. \A f \in Flow : f \in DOMAIN c \ F
  BY DEF Whole, IsSocket, Flow, Fields
<1>3. \A f \in Flow : d[f] = c[f]
  BY <1>2 DEF Same
<1>4. /\ d.tx = c.tx /\ d.wire = c.wire /\ d.room = c.room /\ d.sealed = c.sealed
      /\ d.failed = c.failed /\ d.kernel = c.kernel /\ d.mail = c.mail /\ d.ops = c.ops
      /\ d.held = c.held
  BY <1>3 DEF Flow
<1>5. OnWire(d)
  BY <1>4 DEF Whole, OnWire
<1>6. ~lost => InOrder(d)
  BY <1>4 DEF Whole, InOrder
<1> QED  BY <1>1, <1>4, <1>5, <1>6 DEF Whole

\* The send half becomes another that holds the same.
LEMMA WholeTx ==
  ASSUME NEW c, NEW d, Whole(c), Same(c, d, Fields \ (Flow \ {"tx"})),
         TxOk(d.tx), Holding(c.tx.out, d.tx.out), Left(d.tx) = Left(c.tx)
  PROVE  Whole(d)
<1>1. IsSocket(d)
  BY SocketStays DEF Whole
<1>2. /\ d.wire = c.wire /\ d.room = c.room /\ d.sealed = c.sealed
      /\ d.failed = c.failed /\ d.kernel = c.kernel /\ d.mail = c.mail /\ d.ops = c.ops
      /\ d.held = c.held
  BY DEF Whole, Same, IsSocket, Flow, Fields
<1>3. OnWire(d)
  BY <1>2 DEF Whole, OnWire
<1>4. ~lost => InOrder(d)
  BY <1>2 DEF Whole, InOrder
<1>5. Ledger(c.tx.out, c.kernel, c.mail)
  BY DEF Whole
<1>6. Ledger(d.tx.out, d.kernel, d.mail)
  BY <1>2, <1>5, LedgerHolds
<1> QED  BY <1>1, <1>2, <1>3, <1>4, <1>6 DEF Whole

LEMMA HoldingIs ==
  ASSUME NEW out
  PROVE  Holding(out, out)
BY DEF Holding

\* Its windows are set.
LEMMA WholeWindows ==
  ASSUME NEW c, NEW d, Whole(c), Same(c, d, Fields \ (Flow \ {"tx"})), TxAs(c.tx, d.tx)
  PROVE  Whole(d)
<1>1. TxOk(c.tx)
  BY DEF Whole
<1>2. TxOk(d.tx) /\ Left(d.tx) = Left(c.tx) /\ d.tx.out = c.tx.out
  BY <1>1, TxStays
<1>3. Holding(c.tx.out, d.tx.out)
  BY <1>2, HoldingIs
<1> QED  BY <1>2, <1>3, WholeTx

LEMMA KindsSealed ==
  ASSUME NEW kind \in RecordKinds, NEW n \in Nat, NEW q \in Seq(RecordKinds)
  PROVE  /\ Joined(q, [i \in 1 .. n |-> kind]) \in Seq(RecordKinds)
         /\ Len(Joined(q, [i \in 1 .. n |-> kind])) = Len(q) + n /\ Len(q) \in Nat
<1>0. [i \in 1 .. n |-> kind] \in [1 .. n -> RecordKinds]
  OBVIOUS
<1>1. PICK f \in [1 .. n -> RecordKinds] : f = [i \in 1 .. n |-> kind]
  BY <1>0
<1>2. f \in Seq(RecordKinds) /\ Len(f) = n
  BY SeqMade
<1>3. Joined(q, f) \in Seq(RecordKinds) /\ Len(Joined(q, f)) = Len(q) + Len(f)
  BY <1>2, JoinedIs
<1>4. Len(q) \in Nat
  OBVIOUS
<1> QED  BY <1>1, <1>2, <1>3, <1>4

\* What is put behind three that are together.
LEMMA JoinedLast ==
  ASSUME NEW w \in Datas, NEW k \in Datas, NEW l \in Datas, NEW x \in Datas
  PROVE  Joined(w, Joined(k, Joined(l, x))) = Joined(Joined(w, Joined(k, l)), x)
<1>1. Joined(k, l) \in Datas /\ Joined(l, x) \in Datas
  BY DataJoins
<1>2. Joined(k, Joined(l, x)) = Joined(Joined(k, l), x)
  BY DataJoinsBoth
<1>3. Joined(w, Joined(Joined(k, l), x)) = Joined(Joined(w, Joined(k, l)), x)
  BY <1>1, DataJoinsBoth
<1> QED  BY <1>2, <1>3

LEMMA LeftType ==
  ASSUME NEW tx, TxOk(tx)
  PROVE  Left(tx) \in Datas
<1>1. Generations(tx.out) /\ tx.unsent \in Seq(Nat) /\ Listed(tx.unsent) \subseteq DOMAIN tx.out
  BY ArrangedIs DEF TxOk
<1> QED  BY <1>1, UnsentType DEF Left

\* What a socket that is whole is made of.
LEMMA WholeIs ==
  ASSUME NEW c, Whole(c)
  PROVE  /\ IsSocket(c) /\ TxOk(c.tx) /\ Ledger(c.tx.out, c.kernel, c.mail)
         /\ Left(c.tx) \in Datas /\ c.kernel \in Seq(KernelOps) /\ Carrying(c.kernel) \in Datas
         /\ c.wire \in Datas /\ c.sealed \in Seq(RecordKinds) /\ Len(c.sealed) \in Nat
<1>1. c.kernel \in Seq(KernelOps)
  BY DEF Whole, Ledger, KernelOk
<1>2. Carrying(c.kernel) \in Datas
  BY <1>1, KernelRecordsAre
<1>3. c.sealed \in Seq(RecordKinds) /\ Len(c.sealed) \in Nat
  BY DEF Whole
<1> QED  BY <1>1, <1>2, <1>3, LeftType DEF Whole, OnWire

\* Sealed: behind all the others.
LEMMA WholeSeals ==
  ASSUME NEW c, Whole(c), NEW kind \in RecordKinds, NEW n \in Nat
  PROVE  Whole(Sealed(c, kind, n))
<1>1. PICK d : d = Sealed(c, kind, n)
  OBVIOUS
<1>2. IsSocket(c) /\ TxOk(c.tx) /\ Ledger(c.tx.out, c.kernel, c.mail)
  BY WholeIs
<1>3. PICK w \in Datas, k \in Datas, l \in Datas :
        w = c.wire /\ k = Carrying(c.kernel) /\ l = Left(c.tx)
  BY WholeIs
<1>4. PICK m \in Nat : m = Len(c.sealed)
  BY WholeIs
<1>5. PICK x \in Datas : x = Interval(m, n)
  BY IntervalIs DEF Datas
<1>6. Same(c, d, {"tx", "sealed"}) /\ IsSocket(d)
  BY <1>1, <1>2, SealedSame, SocketStays
<1>7. d.tx = Gain(c.tx, x)
  BY <1>1, <1>2, <1>4, <1>5 DEF Sealed, IsSocket, Fields
<1>8. d.sealed = Joined(c.sealed, [i \in 1 .. n |-> kind])
  BY <1>1, <1>2 DEF Sealed, IsSocket, Fields, Joined
<1>9. TxOk(d.tx) /\ Left(d.tx) = Joined(l, x) /\ Holding(c.tx.out, d.tx.out)
  BY <1>2, <1>3, <1>7, TxGains
<1>10. d.sealed \in Seq(RecordKinds) /\ Len(d.sealed) = m + n
  <2>1. c.sealed \in Seq(RecordKinds)
    BY WholeIs
  <2> QED  BY <1>4, <1>8, <2>1, KindsSealed
<1>11. /\ d.wire = c.wire /\ d.room = c.room /\ d.failed = c.failed /\ d.kernel = c.kernel
       /\ d.mail = c.mail /\ d.ops = c.ops /\ d.held = c.held
  BY <1>2, <1>6 DEF Same, IsSocket, Fields
<1>12. Ledger(d.tx.out, d.kernel, d.mail)
  BY <1>2, <1>9, <1>11, LedgerHolds
<1>13. ASSUME ~lost PROVE InOrder(d)
  <2>1. InOrder(c)
    BY <1>13 DEF Whole
  <2>2. Joined(w, Joined(k, l)) = Interval(0, m)
    BY <1>3, <1>4, <2>1 DEF InOrder
  <2>3. Joined(w, Joined(k, Joined(l, x))) = Joined(Interval(0, m), x)
    BY <2>2, JoinedLast
  <2>4. Joined(Interval(0, m), Interval(0 + m, n)) = Interval(0, m + n)
    BY ONLY IntervalJoin, 0 \in Nat, m \in Nat, n \in Nat
  <2>5. 0 + m = m
    OBVIOUS
  <2> QED  BY <1>3, <1>5, <1>9, <1>10, <1>11, <2>1, <2>3, <2>4, <2>5 DEF InOrder
<1>14. OnWire(d)
  BY <1>11 DEF Whole, OnWire
<1>15. Whole(d)
  BY <1>6, <1>9, <1>10, <1>11, <1>12, <1>13, <1>14 DEF Whole
<1> QED  BY <1>1, <1>15

\* The first part of an interval that starts with the first record.
LEMMA BeginsInterval ==
  ASSUME NEW p \in Datas, NEW q \in Datas, NEW m \in Nat, Joined(p, q) = Interval(0, m)
  PROVE  p = Interval(0, Len(p))
<1>1. PICK n \in Nat : n = Len(p)
  BY DEF Datas
<1>2. First(Joined(p, q), n) = p
  BY <1>1, FirstJoined
<1>3. Len(Joined(p, q)) = n + Len(q) /\ Len(q) \in Nat
  BY <1>1, JoinedIs DEF Datas
<1>4. Len(Interval(0, m)) = m
  BY IntervalIs
<1>5. n \in 0 .. m
  BY <1>3, <1>4
<1>6. First(Interval(0, m), n) = Interval(0, n)
  BY <1>5, IntervalCut
<1> QED  BY <1>1, <1>2, <1>6

\* Nothing is in the platform when no generation is pinned.
LEMMA NothingPinned ==
  ASSUME NEW c, Whole(c), ~FlushWaits(c.tx)
  PROVE  c.kernel = <<>>
<1>1. Generations(c.tx.out) /\ c.tx.nPinned = Cardinality(Pins(c.tx.out))
  BY ArrangedIs DEF Whole, TxOk
<1>2. c.tx.nPinned \in Nat /\ (c.tx.nPinned = 0 => Pins(c.tx.out) = {})
  BY <1>1, PinsFinite
<1>3. Pins(c.tx.out) = {}
  BY <1>2 DEF FlushWaits
<1>4. \A i \in DOMAIN c.kernel : FALSE
  BY <1>3 DEF Whole, Ledger, KernelOk, Pins
<1>5. c.kernel \in Seq(KernelOps)
  BY WholeIs
<1>6. c.kernel # <<>> => 1 \in DOMAIN c.kernel
  BY <1>5, TailPlaces
<1> QED  BY <1>4, <1>6

\* f_Flush
LEMMA WholeLeaves ==
  ASSUME NEW c, Whole(c), ~lost, ~FlushWaits(c.tx)
  PROVE  Whole(Leaving(c, Flushable(c.tx, c.room)))
<1>1. IsSocket(c) /\ TxOk(c.tx) /\ Ledger(c.tx.out, c.kernel, c.mail) /\ c.room \in Nat
  BY WholeIs DEF Whole
<1>2. PICK w \in Datas, l \in Datas : w = c.wire /\ l = Left(c.tx)
  BY WholeIs
<1>3. PICK room \in Nat : room = c.room
  BY <1>1
<1>4. PICK z \in Nat : z = Len(l)
  BY DEF Datas
<1>5. PICK n \in Nat : n = Least(room, z) /\ n <= room /\ n \in 0 .. z
  BY DEF Least
<1>6. PICK r : r = Flushable(c.tx, c.room)
  OBVIOUS
<1>7. r = First(l, n)
  BY <1>2, <1>3, <1>4, <1>5, <1>6, UnsentRecordsAre DEF Flushable
<1>8. r \in Datas /\ Len(r) = n
  BY <1>4, <1>5, <1>7, FirstIs DEF Datas
<1>9. PICK d : d = Leaving(c, r)
  OBVIOUS
<1>10. /\ d.tx = Flushed(c.tx, n) /\ d.wire = Joined(w, r) /\ d.room = room - n
       /\ DOMAIN d = Fields
       /\ d.failed = c.failed /\ d.kernel = c.kernel /\ d.mail = c.mail /\ d.ops = c.ops
       /\ d.held = c.held /\ d.sealed = c.sealed
  BY <1>1, <1>2, <1>3, <1>8, <1>9 DEF Leaving, Joined, IsSocket, Fields
<1>11. TxOk(d.tx) /\ Left(d.tx) = From(l, n) /\ Holding(c.tx.out, d.tx.out)
  <2>1. n <= Len(Left(c.tx))
    BY <1>2, <1>4, <1>5
  <2> QED  BY <1>1, <1>2, <1>10, <2>1, TxFlushes
<1>12. Ledger(d.tx.out, d.kernel, d.mail)
  BY <1>1, <1>10, <1>11, LedgerHolds
<1>13. c.kernel = <<>>
  BY NothingPinned
<1>14. PICK m \in Nat : m = Len(c.sealed)
  BY WholeIs
<1>15. Joined(w, l) = Interval(0, m)
  <2>1. InOrder(c)
    BY DEF Whole
  <2>2. Joined(<<>>, l) = l
    BY DataJoins
  <2> QED  BY <1>2, <1>13, <1>14, <2>1, <2>2, CarryingNone DEF InOrder
<1>16. PICK t \in Datas : t = From(l, n) /\ Joined(r, t) = l
  <2>1. From(l, n) \in Datas
    BY <1>4, <1>5, FromIs DEF Datas
  <2>2. Joined(First(l, n), From(l, n)) = l
    BY <1>4, <1>5, SplitAt DEF Datas
  <2> QED  BY <1>7, <2>1, <2>2
<1>17. PICK v \in Datas : v = Joined(w, r) /\ Joined(v, t) = Interval(0, m)
  <2>1. Joined(w, r) \in Datas
    BY <1>8, DataJoins
  <2>2. Joined(Joined(w, r), t) = Joined(w, Joined(r, t))
    BY <1>8, DataJoinsBoth
  <2> QED  BY <1>15, <1>16, <2>1, <2>2
<1>18. v = Interval(0, Len(v))
  BY <1>17, BeginsInterval
<1>19. OnWire(d)
  BY <1>10, <1>17, <1>18 DEF OnWire
<1>20. InOrder(d)
  <2>1. Carrying(d.kernel) = <<>>
    BY <1>10, <1>13, CarryingNone
  <2>2. Joined(<<>>, t) = t
    BY DataJoins
  <2>3. Joined(d.wire, Joined(Carrying(d.kernel), Left(d.tx))) = Interval(0, Len(d.sealed))
    BY <1>10, <1>11, <1>14, <1>16, <1>17, <2>1, <2>2
  <2>4. InOrder(c)
    BY DEF Whole
  <2> QED  BY <1>10, <2>3, <2>4 DEF InOrder
<1>21. d.room \in Nat
  BY <1>5, <1>10
<1>22. Whole(d)
  BY <1>10, <1>11, <1>12, <1>19, <1>20, <1>21 DEF Whole, IsSocket
<1> QED  BY <1>6, <1>9, <1>22

LEMMA WholeFlushes ==
  ASSUME NEW c, Whole(c)
  PROVE  Whole(Flush(c))
<1>1. CASE c.error \/ FlushWaits(c.tx) \/ c.tx.unsent = <<>>
  BY <1>1 DEF Flush
<1>2. CASE ~(c.error \/ FlushWaits(c.tx) \/ c.tx.unsent = <<>>) /\ lost
  <2>1. Flush(c) = [c EXCEPT !.error = TRUE]
    BY <1>2 DEF Flush
  <2>2. Same(c, Flush(c), {"error"})
    BY <2>1 DEF Whole, Same, IsSocket, Fields
  <2>3. {"error"} \cap Flow = {}
    BY DEF Flow
  <2> QED  BY <2>2, <2>3, WholeSame
<1>3. CASE ~(c.error \/ FlushWaits(c.tx) \/ c.tx.unsent = <<>>) /\ ~lost
  <2>1. Flush(c) = Leaving(c, Flushable(c.tx, c.room))
    BY <1>3 DEF Flush
  <2> QED  BY <1>3, <2>1, WholeLeaves
<1> QED  BY <1>1, <1>2, <1>3

LEMMA WholeWrites ==
  ASSUME NEW c, Whole(c), NEW kind \in RecordKinds, NEW n \in Nat
  PROVE  Whole(Write(c, kind, n))
<1>1. PICK d : d = Sealed(c, kind, n)
  OBVIOUS
<1>2. Whole(d) /\ Whole(Flush(d))
  BY <1>1, WholeSeals, WholeFlushes
<1>3. Write(c, kind, n) \in {c, d, Flush(d)}
  BY <1>1 DEF Write
<1> QED  BY <1>2, <1>3

-----------------------------------------------------------------------------
(* The transfers.                                                          *)

Kinds == "ctl" \in RecordKinds /\ "data" \in RecordKinds /\ "hs" \in RecordKinds

LEMMA KindsAre == Kinds
BY DEF Kinds, RecordKinds

\* What an open, a hold or a read does beside the output.
LEMMA ApartFromFlow ==
  /\ {"ssl"} \cap Flow = {} /\ Events \cap Flow = {} /\ {"events"} \cap Flow = {}
  /\ {"rx", "error", "taken"} \cap Flow = {} /\ {"rx", "ssl"} \cap Flow = {}
  /\ {"given", "rx", "ssl"} \cap Flow = {} /\ {"rx"} \cap Flow = {} /\ {"part"} \cap Flow = {}
  /\ {"rx", "read"} \cap Flow = {} /\ {"part", "read"} \cap Flow = {} /\ {"given"} \cap Flow = {}
  /\ {"part", "read", "rx"} \cap Flow = {} /\ {"read"} \cap Flow = {}
BY DEF Flow, Events

LEMMA WholeBlames ==
  ASSUME NEW c, Whole(c), NEW verdict
  PROVE  Whole(Blame(c, verdict))
<1>1. Same(c, Blame(c, verdict), {"ssl"})
  BY BlameSame DEF Whole
<1> QED  BY <1>1, ApartFromFlow, WholeSame

LEMMA WholeFlushesPending ==
  ASSUME NEW c, Whole(c)
  PROVE  Whole(FlushPending(c))
<1>1. Whole(Blame(Flush(c), "WriteFailed"))
  BY WholeFlushes, WholeBlames
<1> QED  BY <1>1 DEF FlushPending

LEMMA WholeChecks ==
  ASSUME NEW c, Whole(c)
  PROVE  Whole(CheckBrokenState(c))
<1>1. Same(c, CheckBrokenState(c), Events)
  BY CheckBrokenSame DEF Whole
<1> QED  BY <1>1, ApartFromFlow, WholeSame

LEMMA WholeAdds ==
  ASSUME NEW c, Whole(c), NEW flags
  PROVE  Whole(AddTCPState(c, flags))
<1>1. Same(c, AddTCPState(c, flags), {"events"})
  BY AddTCPStateSame DEF Whole
<1> QED  BY <1>1, ApartFromFlow, WholeSame

LEMMA WholeFills ==
  ASSUME NEW c, Whole(c)
  PROVE  Whole(Fill(c).c) /\ Whole(ReadUnit(c).c)
<1>1. Same(c, Fill(c).c, {"rx", "error", "taken"})
  BY FillSame DEF Whole
<1>2. Same(c, ReadUnit(c).c, {"rx", "error", "taken"})
  BY ReadUnitSame DEF Whole
<1> QED  BY <1>1, <1>2, ApartFromFlow, WholeSame

LEMMA WholeTakesHeld ==
  ASSUME NEW c, Whole(c), NEW room
  PROVE  Whole(TakeHeld(c, room))
<1>1. Same(c, TakeHeld(c, room), {"given", "rx", "ssl"})
  BY TakeHeldSame DEF Whole
<1> QED  BY <1>1, ApartFromFlow, WholeSame

LEMMA WholeConcludes ==
  ASSUME NEW c, Whole(c), NEW opened, NEW produced
  PROVE  Whole(Concluded(opened, c, produced).c)
<1>1. Same(c, Concluded(opened, c, produced).c, {"rx", "ssl"})
  BY ConcludedSame DEF Whole
<1> QED  BY <1>1, ApartFromFlow, WholeSame

\* The library answers so many of the records it opened.
LEMMA RepliesAre ==
  ASSUME stream \in Seq(RecordKinds), NEW c, NEW room
  PROVE  Opened(c, room).replies \in Nat
<1> DEFINE n == Len(CipherPending(c.rx))
           most == Greatest(Fitting(c.read, n, room))
           then == Behind(c.read, most, n)
<1>1. most \in Nat
  <2>1. PICK z \in Nat : z = Len(stream)
    OBVIOUS
  <2>2. Fitting(c.read, n, room) \in SUBSET (0 .. z) /\ Fitting(c.read, n, room) # {}
    BY <2>1 DEF Fitting
  <2>3. most \in Fitting(c.read, n, room)
    BY <2>2, GreatestIs
  <2> QED  BY <2>2, <2>3
<1> HIDE DEF most
<1>2. OpensRecords(c.read, most, then).replies \in Nat
  <2>1. IsFiniteSet(1 .. most)
    BY <1>1, FS_Interval
  <2>2. {j \in 1 .. most : stream[c.read + j] = "ctl"} \subseteq 1 .. most
    OBVIOUS
  <2>3. Cardinality({j \in 1 .. most : stream[c.read + j] = "ctl"}) \in Nat
    BY <2>1, <2>2, FS_Subset, FS_CardinalityType
  <2> QED  BY <2>3 DEF OpensRecords
<1>3. OpensNothing("Error").replies \in Nat /\ OpensNothing("Close").replies \in Nat
  BY DEF OpensNothing
<1>4. Opened(c, room) \in {OpensNothing("Close"), OpensNothing("Error"), OpensRecords(c.read, most, then)}
  BY DEF Opened, most
<1> QED  BY <1>2, <1>3, <1>4

LEMMA WholeOpens ==
  ASSUME stream \in Seq(RecordKinds), NEW c, Whole(c), NEW room
  PROVE  Whole(Open(c, room).c)
<1>1. PICK o : o = Opened(c, room) /\ o.replies \in Nat
  BY RepliesAre
<1>2. PICK d : d = [c EXCEPT !.rx = ConsumeCipher(@, o.units), !.read = @ + o.records]
  OBVIOUS
<1>3. Same(c, d, {"rx", "read"})
  BY <1>2 DEF Whole, Same, IsSocket, Fields
<1>4. Whole(d)
  BY <1>3, ApartFromFlow, WholeSame
<1>5. Whole(Write(d, "ctl", o.replies))
  BY <1>1, <1>4, KindsAre, WholeWrites DEF Kinds
<1>6. Open(c, room).c \in {d, Write(d, "ctl", o.replies)}
  BY <1>1, <1>2 DEF Open
<1> QED  BY <1>4, <1>5, <1>6

LEMMA WholeHolds ==
  ASSUME stream \in Seq(RecordKinds), NEW c, Whole(c), NEW room
  PROVE  Whole(OpenHold(c, room).c)
<1>1. PICK p : p = Open(c, HoldSize)
  OBVIOUS
<1>2. Whole(p.c)
  BY <1>1, WholeOpens
<1>3. PICK held : held = [p.c EXCEPT !.rx = HoldPlain(@, p.o.plain)]
  OBVIOUS
<1>4. Same(p.c, held, {"rx"})
  BY <1>2, <1>3 DEF Whole, Same, IsSocket, Fields
<1>5. Whole(TakeHeld(held, room))
  BY <1>2, <1>4, ApartFromFlow, WholeSame, WholeTakesHeld
<1>6. OpenHold(c, room).c \in {p.c, TakeHeld(held, room)}
  BY <1>1, <1>3 DEF OpenHold
<1> QED  BY <1>2, <1>5, <1>6

LEMMA WholeTurns ==
  ASSUME stream \in Seq(RecordKinds), NEW t, Whole(t.c), NEW room
  PROVE  Whole(OpenTurn(t, room).c)
<1>1. PICK direct, hold, fill :
        direct = Open(t.c, room) /\ hold = OpenHold(t.c, room) /\ fill = Fill(t.c)
  OBVIOUS
<1>2. Whole(direct.c) /\ Whole(hold.c) /\ Whole(fill.c) /\ Whole(Blame(fill.c, "ReadFailed"))
  BY <1>1, WholeOpens, WholeHolds, WholeFills, WholeBlames
<1>3. PICK gave : gave = [direct.c EXCEPT !.given = @ \o direct.o.plain]
  OBVIOUS
<1>4. Same(direct.c, gave, {"given"})
  BY <1>2, <1>3 DEF Whole, Same, IsSocket, Fields
<1>5. Whole(gave)
  BY <1>2, <1>4, ApartFromFlow, WholeSame
<1>6. /\ Whole(Concluded(direct.o, gave, direct.o.plain # <<>>).c)
      /\ Whole(Concluded(hold.o, hold.c, hold.o.plain # <<>>).c)
  BY <1>2, <1>5, WholeConcludes
<1>7. OpenTurn(t, room).c \in
        {Concluded(direct.o, gave, direct.o.plain # <<>>).c,
         Concluded(hold.o, hold.c, hold.o.plain # <<>>).c,
         fill.c, Blame(fill.c, "ReadFailed")}
  BY <1>1, <1>3 DEF OpenTurn
<1> QED  BY <1>2, <1>6, <1>7

\* f_TryOpenInto
LEMMA WholeTryOpens ==
  ASSUME stream \in Seq(RecordKinds), NEW c, Whole(c), NEW room
  PROVE  Whole(TryOpenInto(c, room).c)
<1>1. CASE c.rx.held # <<>>
  <2>1. TryOpenInto(c, room).c = TakeHeld(c, room)
    BY <1>1 DEF TryOpenInto, Going
  <2> QED  BY <2>1, WholeTakesHeld
<1>2. CASE c.rx.held = <<>>
  <2>1. PICK r : IsOpenRun(c, room, 2 * Total + 2, r) /\ TryOpenInto(c, room) = r[2 * Total + 2]
    BY <1>2, OpenRuns
  <2>2. PICK n \in Nat : n = 2 * Total + 2
    BY TotalIs
  <2> DEFINE S == {k \in Nat : k <= n => Whole(r[k].c)}
  <2>3. 0 \in S
    <3>1. r[0].c = c
      BY <2>1 DEF IsOpenRun, Going
    <3> QED  BY <3>1
  <2>4. ASSUME NEW m \in S PROVE m + 1 \in S
    <3> SUFFICES ASSUME m + 1 <= n PROVE Whole(r[m + 1].c)
      OBVIOUS
    <3>1. m + 1 \in 1 .. n /\ m + 1 - 1 = m
      OBVIOUS
    <3>2. r[m + 1] = OpenOnward(room, r[m])
      BY <2>1, <2>2, <3>1 DEF IsOpenRun
    <3>3. Whole(r[m].c)
      OBVIOUS
    <3>4. Whole(OpenTurn(r[m], room).c)
      BY <3>3, WholeTurns
    <3> QED  BY <3>2, <3>3, <3>4 DEF OpenOnward
  <2> HIDE DEF S
  <2>5. S = Nat
    BY <2>3, <2>4, Induct DEF S
  <2> QED  BY <2>1, <2>2, <2>5 DEF S
<1> QED  BY <1>1, <1>2

LEMMA WholeSendsRecord ==
  ASSUME NEW c, Whole(c)
  PROVE  Whole(SendRecord(c).c)
<1>1. PICK d : d = Sealed(c, "data", 1)
  OBVIOUS
<1>2. Whole(d) /\ Whole(Flush(d)) /\ Whole(Blame(c, "WriteFailed"))
  BY <1>1, KindsAre, WholeSeals, WholeFlushes, WholeBlames DEF Kinds
<1>3. SendRecord(c).c \in {Blame(c, "WriteFailed"), d, Flush(d)}
  BY <1>1 DEF SendRecord
<1> QED  BY <1>2, <1>3

LEMMA WholeOpensRead ==
  ASSUME NEW t, IsTurn(t), Whole(t.c), NEW kind
  PROVE  Whole(OpenRead(t, kind).c)
<1>1. PICK next : next = [t.c EXCEPT !.part = 0, !.read = @ + 1]
  OBVIOUS
<1>2. PICK plain : plain = Interval(PlainBefore(t.c.read), RecordPlain)
  OBVIOUS
<1>3. PICK held : held = [next EXCEPT !.rx = HoldPlain(@, plain)]
  OBVIOUS
<1>4. Same(t.c, next, {"part", "read"})
  BY <1>1 DEF Whole, Same, IsSocket, Fields
<1>5. Whole(next)
  BY <1>4, ApartFromFlow, WholeSame
<1>6. Same(next, held, {"rx"})
  BY <1>3, <1>5 DEF Whole, Same, IsSocket, Fields
<1>7. Whole(held)
  BY <1>5, <1>6, ApartFromFlow, WholeSame
<1>8. Same(next, Terminal(next, "Shutdown"), {"rx", "ssl"}) /\ Same(t.c, Terminal(t.c, "ReadFailed"), {"rx", "ssl"})
  BY <1>5, TerminalSame DEF Whole
<1>9. Whole(Terminal(next, "Shutdown")) /\ Whole(Terminal(t.c, "ReadFailed"))
  BY <1>5, <1>8, ApartFromFlow, WholeSame
<1>10. Whole(Write(next, "ctl", 1))
  BY <1>5, KindsAre, WholeWrites DEF Kinds
<1>11. OpenRead(t, kind).c \in
        {held, Write(next, "ctl", 1), Terminal(next, "Shutdown"), Terminal(t.c, "ReadFailed")}
  BY <1>1, <1>2, <1>3 DEF OpenRead, IsTurn
<1> QED  BY <1>7, <1>9, <1>10, <1>11

LEMMA WholeReadTurns ==
  ASSUME NEW t, IsTurn(t), Whole(t.c), NEW room
  PROVE  Whole(ReadTurn(t, room).c)
<1>1. PICK unit, kind : unit = ReadUnit(t.c) /\ kind = stream[t.c.read + 1]
  OBVIOUS
<1>2. PICK more : more = [unit.c EXCEPT !.part = @ + 1]
  OBVIOUS
<1>3. Whole(unit.c) /\ Whole(Blame(unit.c, "ReadFailed"))
  BY <1>1, WholeFills, WholeBlames
<1>4. Same(unit.c, more, {"part"})
  BY <1>2, <1>3 DEF Whole, Same, IsSocket, Fields
<1>5. Whole(more)
  BY <1>3, <1>4, ApartFromFlow, WholeSame
<1>6. Whole(TakeHeld(t.c, room)) /\ Whole(OpenRead(t, kind).c)
  BY WholeTakesHeld, WholeOpensRead
<1>7. ReadTurn(t, room).c \in
        {TakeHeld(t.c, room), OpenRead(t, kind).c, more, unit.c, Blame(unit.c, "ReadFailed")}
  BY <1>1, <1>2 DEF ReadTurn, IsTurn
<1> QED  BY <1>3, <1>5, <1>6, <1>7

\* f_Receive of a build that copies ciphertext
LEMMA WholeReceivesThrough ==
  ASSUME stream \in Seq(RecordKinds), NEW c, Whole(c), NEW room
  PROVE  Whole(ReceiveThrough(c, room).c)
<1>1. PICK r : /\ IsReadRun(c, room, 2 * Total + 2, r)
               /\ ReceiveThrough(c, room) =
                    [r[2 * Total + 2] EXCEPT
                       !.network = r[2 * Total + 2].c.taken # c.taken
                                     \/ r[2 * Total + 2].c.wire # c.wire]
  BY ReadRuns
<1>2. PICK n \in Nat : n = 2 * Total + 2
  BY TotalIs
<1> DEFINE S == {k \in Nat : k <= n => Whole(r[k].c) /\ IsTurn(r[k])}
<1>3. 0 \in S
  <2>1. r[0] = Going(Flush(c))
    BY <1>1 DEF IsReadRun
  <2>2. Whole(Flush(c)) /\ IsSocket(Flush(c))
    BY WholeFlushes DEF Whole
  <2>3. Whole(r[0].c) /\ IsTurn(r[0])
    BY <2>1, <2>2 DEF IsTurn, Going
  <2> QED  BY <2>3
<1>4. ASSUME NEW m \in S PROVE m + 1 \in S
  <2> SUFFICES ASSUME m + 1 <= n PROVE Whole(r[m + 1].c) /\ IsTurn(r[m + 1])
    OBVIOUS
  <2>1. m + 1 \in 1 .. n /\ m + 1 - 1 = m
    OBVIOUS
  <2>2. r[m + 1] = ReadOnward(room, r[m])
    BY <1>1, <1>2, <2>1 DEF IsReadRun
  <2>3. Whole(r[m].c) /\ IsTurn(r[m])
    OBVIOUS
  <2>4. Whole(ReadTurn(r[m], room).c) /\ IsTurn(ReadTurn(r[m], room))
    BY <2>3, WholeReadTurns, ReadTurnSame
  <2> QED  BY <2>2, <2>3, <2>4 DEF ReadOnward
<1> HIDE DEF S
<1>5. S = Nat
  BY <1>3, <1>4, Induct DEF S
<1>6. Whole(r[n].c) /\ IsTurn(r[n])
  BY <1>5 DEF S
<1>7. ReceiveThrough(c, room).c = r[n].c
  BY <1>1, <1>2, <1>6 DEF IsTurn
<1> QED  BY <1>6, <1>7

LEMMA WholeBatchGoes ==
  ASSUME NEW t, IsBatch(t), Whole(t.c)
  PROVE  Whole(BatchOnward(t).c)
<1>1. PICK f : f = FlushPending(t.c)
  OBVIOUS
<1>2. Whole(f) /\ Whole(SendRecord(t.c).c) /\ Whole(SendRecord(f).c)
  BY <1>1, WholeFlushesPending, WholeSendsRecord
<1>3. BatchOnward(t).c \in {t.c, f, SendRecord(t.c).c, SendRecord(f).c}
  BY <1>1 DEF BatchOnward, BatchMore, BatchPut, IsBatch
<1> QED  BY <1>2, <1>3

LEMMA WholeBatches ==
  ASSUME NEW c, Whole(c), NEW n \in Nat
  PROVE  Whole(Batched(c, n).c) /\ IsBatch(Batched(c, n))
<1>1. PICK r : IsBatchLoop(c, n, r) /\ Batched(c, n) = r[n]
  BY BatchRuns
<1> DEFINE S == {k \in Nat : k <= n => Whole(r[k].c) /\ IsBatch(r[k])}
<1>2. 0 \in S
  <2>1. r[0] = BatchBegun(c)
    BY <1>1 DEF IsBatchLoop
  <2>2. IsSocket(c)
    BY DEF Whole
  <2>3. Whole(r[0].c) /\ IsBatch(r[0])
    BY <2>1, <2>2 DEF BatchBegun, IsBatch
  <2> QED  BY <2>3
<1>3. ASSUME NEW m \in S PROVE m + 1 \in S
  <2> SUFFICES ASSUME m + 1 <= n PROVE Whole(r[m + 1].c) /\ IsBatch(r[m + 1])
    OBVIOUS
  <2>1. m + 1 \in 1 .. n /\ m + 1 - 1 = m
    OBVIOUS
  <2>2. r[m + 1] = BatchOnward(r[m])
    BY <1>1, <2>1 DEF IsBatchLoop
  <2>3. Whole(r[m].c) /\ IsBatch(r[m])
    OBVIOUS
  <2>4. Whole(BatchOnward(r[m]).c) /\ IsBatch(BatchOnward(r[m]))
    BY <2>3, WholeBatchGoes, BatchOnwardSame
  <2> QED  BY <2>2, <2>4
<1> HIDE DEF S
<1>4. S = Nat
  BY <1>2, <1>3, Induct DEF S
<1> QED  BY <1>1, <1>4 DEF S

-----------------------------------------------------------------------------
(* The handshake and the calls of the owner.                               *)

LEMMA BesideFlow ==
  /\ {"rx", "error", "taken", "read"} \cap Flow = {} /\ {"script", "flushing"} \cap Flow = {}
  /\ {"flushing"} \cap Flow = {} /\ {"result"} \cap Flow = {} /\ {"result", "ssl"} \cap Flow = {}
  /\ {"connected"} \cap Flow = {} /\ {"state"} \cap Flow = {} /\ {"shut"} \cap Flow = {}
BY DEF Flow

LEMMA WholeContinues ==
  ASSUME NEW c, Whole(c)
  PROVE  Whole(Continued(c).c)
<1>1. Same(c, Continued(c).c, {"script", "flushing"})
  BY ContinuedIs DEF Whole
<1> QED  BY <1>1, BesideFlow, WholeSame

LEMMA WholeFlown ==
  ASSUME NEW b, Whole(b.c)
  PROVE  Whole(Flown(b).c)
<1>1. PICK d : d = [b.c EXCEPT !.flushing = TRUE]
  OBVIOUS
<1>2. Same(b.c, d, {"flushing"})
  BY <1>1 DEF Whole, Same, IsSocket, Fields
<1>3. Whole(d) /\ Whole(Continued(b.c).c)
  BY <1>2, BesideFlow, WholeSame, WholeContinues
<1>4. Flown(b).c \in {b.c, Continued(b.c).c, d}
  BY <1>1 DEF Flown, Failed
<1> QED  BY <1>3, <1>4

LEMMA WholeBios ==
  ASSUME NEW c, Whole(c)
  PROVE  Whole(BioRead(c).c) /\ Whole(BioFlush(c).c) /\ Whole(BioWrite(c).c)
<1>1. Same(c, BioRead(c).c, {"rx", "error", "taken", "read"})
  BY BioReadSame DEF Whole
<1>2. BioFlush(c).c = Flush(c)
  BY DEF BioFlush, Going
<1>3. BioWrite(c).c = Write(c, "hs", 1)
  BY DEF BioWrite, Going
<1>4. Whole(Flush(c)) /\ Whole(Write(c, "hs", 1))
  BY KindsAre, WholeFlushes, WholeWrites DEF Kinds
<1> QED  BY <1>1, <1>2, <1>3, <1>4, BesideFlow, WholeSame

\* external: one step of SSL_connect or SSL_accept
LEMMA WholeSteps ==
  ASSUME NEW c, Whole(c)
  PROVE  Whole(HandshakeStep(c).c)
<1>1. PICK wrote, read : wrote = BioWrite(c) /\ read = BioRead(c)
  OBVIOUS
<1>2. Whole(wrote.c) /\ Whole(read.c)
  BY <1>1, WholeBios
<1>3. PICK f, g : f = BioFlush(c) /\ g = BioFlush(wrote.c)
  OBVIOUS
<1>4. Whole(f.c) /\ Whole(g.c)
  BY <1>2, <1>3, WholeBios
<1>5. PICK told : told = [c EXCEPT !.result = Report]
  OBVIOUS
<1>6. Same(c, told, {"result"})
  BY <1>5 DEF Whole, Same, IsSocket, Fields
<1>7. Whole(told)
  BY <1>6, BesideFlow, WholeSame
<1>8. /\ Whole(Flown(f).c) /\ Whole(Flown(g).c) /\ Whole(Continued(read.c).c)
      /\ Whole(Continued(told).c)
  BY <1>2, <1>4, <1>7, WholeFlown, WholeContinues
<1>9. Whole(Write(read.c, "hs", 1)) /\ Whole(Write(told, "hs", 1))
  BY <1>2, <1>7, KindsAre, WholeWrites DEF Kinds
<1>10. CASE c.script = <<>>
  <2>1. HandshakeStep(c).c = c
    BY <1>10 DEF HandshakeStep
  <2> QED  BY <2>1
<1>11. CASE c.script # <<>> /\ Head(c.script) = "Write"
  <2>1. HandshakeStep(c).c \in {Flown(f).c, Flown(g).c, wrote.c}
    BY <1>1, <1>3, <1>11 DEF HandshakeStep, Failed
  <2> QED  BY <1>2, <1>8, <2>1
<1>12. CASE c.script # <<>> /\ Head(c.script) = "Read"
  <2>1. HandshakeStep(c).c \in {read.c, Continued(read.c).c, Write(read.c, "hs", 1)}
    BY <1>1, <1>12 DEF HandshakeStep, Failed
  <2> QED  BY <1>2, <1>8, <1>9, <2>1
<1>13. CASE c.script # <<>> /\ Head(c.script) \notin {"Write", "Read"}
  <2>1. HandshakeStep(c).c \in {Continued(told).c, Write(told, "hs", 1)}
    BY <1>5, <1>13 DEF HandshakeStep, Failed, Report
  <2> QED  BY <1>8, <1>9, <2>1
<1> QED  BY <1>10, <1>11, <1>12, <1>13

LEMMA WholeRuns ==
  ASSUME NEW c, Whole(c), NEW n \in Nat, NEW r, IsProcessLoop(c, n, r)
  PROVE  Whole(r[n].c) /\ DOMAIN r[n] = {"c", "is"}
<1> DEFINE S == {k \in Nat : k <= n => Whole(r[k].c) /\ DOMAIN r[k] = {"c", "is"}}
<1>1. 0 \in S
  <2>1. r[0] = [c |-> c, is |-> "Going"]
    BY DEF IsProcessLoop
  <2> QED  BY <2>1
<1>2. ASSUME NEW m \in S PROVE m + 1 \in S
  <2> SUFFICES ASSUME m + 1 <= n PROVE Whole(r[m + 1].c) /\ DOMAIN r[m + 1] = {"c", "is"}
    OBVIOUS
  <2>1. m + 1 \in 0 .. n /\ m + 1 - 1 = m /\ m + 1 # 0
    OBVIOUS
  <2>2. r[m + 1] = ProcessOnward(r[m])
    BY <2>1 DEF IsProcessLoop
  <2>3. Whole(r[m].c) /\ DOMAIN r[m] = {"c", "is"}
    OBVIOUS
  <2>4. Whole(HandshakeStep(r[m].c).c) /\ DOMAIN HandshakeStep(r[m].c) = {"c", "is"}
    BY <2>3, WholeSteps, HandshakeStepShape
  <2> QED  BY <2>2, <2>3, <2>4 DEF ProcessOnward
<1> HIDE DEF S
<1>3. S = Nat
  BY <1>1, <1>2, Induct DEF S
<1> QED  BY <1>3 DEF S

\* fp_Process
LEMMA WholeProcesses ==
  ASSUME NEW c, Whole(c), Shaken(c)
  PROVE  Whole(Process(c).c)
<1>1. PICK n \in Nat : \E r :
        /\ IsProcessLoop(c, n, r)
        /\ Process(c) = Ran(r[n], scenario.settings, ExpectedResults)
  BY ProcessRuns, ScriptLength
<1>2. PICK r : /\ IsProcessLoop(c, n, r)
               /\ Process(c) = Ran(r[n], scenario.settings, ExpectedResults)
  BY <1>1
<1>3. PICK t : t = r[n]
  OBVIOUS
<1>4. Whole(t.c) /\ DOMAIN t = {"c", "is"}
  BY <1>2, <1>3, WholeRuns
<1>5. PICK established, refused, failed :
        /\ established = [t.c EXCEPT !.connected = TRUE]
        /\ refused = [t.c EXCEPT
                        !.result = Decided(scenario.settings, @),
                        !.ssl = IF AskUser(scenario.settings, t.c.result, ExpectedResults)
                                THEN "UserDecision" ELSE "ConnectionFailed"]
        /\ failed = [t.c EXCEPT !.ssl = "ConnectionFailed"]
  OBVIOUS
<1>6. /\ Same(t.c, established, {"connected"}) /\ Same(t.c, refused, {"result", "ssl"})
      /\ Same(t.c, failed, {"ssl"})
  BY <1>4, <1>5 DEF Whole, Same, IsSocket, Fields
<1>7. Whole(established) /\ Whole(refused) /\ Whole(failed)
  BY <1>4, <1>6, BesideFlow, ApartFromFlow, WholeSame
<1>8. Process(c).c \in {established, refused, failed, t.c}
  <2>1. Process(c) = Ran(t, scenario.settings, ExpectedResults)
    BY <1>2, <1>3
  <2>2. CASE t.is = "Established" /\ Accepted(scenario.settings, t.c.result, ExpectedResults)
    <3>1. Process(c) = [t EXCEPT !.c.connected = TRUE]
      BY <2>1, <2>2 DEF Ran
    <3> QED  BY <1>4, <1>5, <3>1
  <2>3. CASE t.is = "Established" /\ ~Accepted(scenario.settings, t.c.result, ExpectedResults)
    <3>1. Process(c) = Failed(refused)
      BY <1>5, <2>1, <2>3 DEF Ran
    <3> QED  BY <3>1 DEF Failed
  <2>4. CASE t.is # "Established"
    <3>1. Process(c) = GenerateSystemErrors(t)
      BY <2>1, <2>4 DEF Ran
    <3> QED  BY <1>5, <3>1 DEF GenerateSystemErrors, Failed
  <2> QED  BY <2>2, <2>3, <2>4
<1> QED  BY <1>4, <1>7, <1>8

LEMMA WholeShuts ==
  ASSUME NEW c, Whole(c)
  PROVE  Whole(ContinueShutdown(c)) /\ Whole(Shutdown(c))
<1>1. ASSUME NEW d, Whole(d) PROVE Whole(ContinueShutdown(d))
  <2>1. PICK shut : shut = [d EXCEPT !.shut = TRUE]
    OBVIOUS
  <2>2. Same(d, shut, {"shut"})
    BY <1>1, <2>1 DEF Whole, Same, IsSocket, Fields
  <2>3. Whole(shut) /\ Whole(Flush(shut))
    BY <1>1, <2>2, BesideFlow, WholeSame, WholeFlushes
  <2>4. PICK l : l = LibraryShutdown(d)
    OBVIOUS
  <2>5. Whole(l)
    BY <2>1, <2>3, <2>4 DEF LibraryShutdown
  <2>6. PICK gone : gone = [l EXCEPT !.state = "ShutdownSocket"]
    OBVIOUS
  <2>7. Same(l, gone, {"state"})
    BY <2>5, <2>6 DEF Whole, Same, IsSocket, Fields
  <2>8. Whole(gone)
    BY <2>5, <2>7, BesideFlow, WholeSame
  <2>9. ContinueShutdown(d) \in {l, gone}
    BY <2>4, <2>6 DEF ContinueShutdown
  <2> QED  BY <2>5, <2>8, <2>9
<1>2. PICK b : b = [c EXCEPT !.state = "Shutdown"]
  OBVIOUS
<1>3. Same(c, b, {"state"})
  BY <1>2 DEF Whole, Same, IsSocket, Fields
<1>4. Whole(b)
  BY <1>3, BesideFlow, WholeSame
<1> QED  BY <1>1, <1>2, <1>4 DEF Shutdown

LEMMA WholeMaybeShuts ==
  ASSUME NEW c, NEW p, Whole(p)
  PROVE  Whole(MaybeShut(c, p))
BY WholeShuts DEF MaybeShut

\* fp_HandleHandshake
LEMMA WholeShakes ==
  ASSUME NEW c, Whole(c), Hand(c)
  PROVE  Whole(HandleHandshake(c).c)
<1>1. CASE c.state \in {"Done", "ShutdownSocket", "Disconnected"}
  <2>1. HandleHandshake(c).c = c
    BY <1>1 DEF HandleHandshake
  <2> QED  BY <2>1
<1>2. CASE c.state = "Shutdown"
  <2>1. HandleHandshake(c).c = ContinueShutdown(c)
    BY <1>2 DEF HandleHandshake
  <2> QED  BY <2>1, WholeShuts
<1>3. CASE c.state \in Handshaking
  <2>1. PICK b : b = IF c.state = "Connect" THEN [c EXCEPT !.state = "Connected"] ELSE c
    OBVIOUS
  <2>2. Same(c, b, {"state"}) /\ b.script = c.script /\ b.result = c.result
    BY <2>1 DEF Whole, Same, IsSocket, Fields
  <2>3. Whole(b) /\ Shaken(b)
    BY <1>3, <2>2, BesideFlow, WholeSame DEF Hand, Shaken
  <2>4. PICK p : p = Process(b)
    OBVIOUS
  <2>5. Whole(p.c)
    BY <2>3, <2>4, WholeProcesses
  <2>6. PICK done, gone : done = [p.c EXCEPT !.state = "Done"] /\ gone = [p.c EXCEPT !.state = "Disconnected"]
    OBVIOUS
  <2>7. Same(p.c, done, {"state"}) /\ Same(p.c, gone, {"state"})
    BY <2>5, <2>6 DEF Whole, Same, IsSocket, Fields
  <2>8. Whole(AddTCPState(done, {"Read", "Write"})) /\ Whole(AddTCPState(gone, {"Closed"}))
    BY <2>5, <2>7, BesideFlow, WholeSame, WholeAdds
  <2>9. HandleHandshake(c).c \in
          {p.c, AddTCPState(done, {"Read", "Write"}), AddTCPState(gone, {"Closed"})}
    BY <1>3, <2>1, <2>4, <2>6 DEF HandleHandshake, Handshaking
  <2> QED  BY <2>5, <2>8, <2>9
<1> QED  BY <1>1, <1>2, <1>3 DEF Hand, States, Handshaking

\* f_Receive
LEMMA WholeReceives ==
  ASSUME NEW c, Whole(c), Hand(c), Configured, NEW room
  PROVE  Whole(Receive(c, room).c)
<1>1. stream \in Seq(RecordKinds)
  BY ScenarioIs DEF Configured
<1>2. PICK h : h = HandleHandshake(c)
  OBVIOUS
<1>3. Whole(h.c)
  BY <1>2, WholeShakes
<1>4. PICK d, e : d = TryOpenInto(h.c, room) /\ e = ReceiveThrough(h.c, room)
  OBVIOUS
<1>5. Whole(d.c) /\ Whole(e.c) /\ IsTurn(d) /\ IsTurn(e)
  BY <1>1, <1>3, <1>4, WholeTryOpens, WholeReceivesThrough, TryOpenSame, ReceiveThroughSame DEF Whole
<1>6. Whole(CheckBrokenState(h.c)) /\ Whole(CheckBrokenState(d.c)) /\ Whole(CheckBrokenState(e.c))
  BY <1>3, <1>5, WholeChecks
<1>7. Receive(c, room).c \in
        {h.c, CheckBrokenState(h.c), d.c, CheckBrokenState(d.c), e.c, CheckBrokenState(e.c)}
  BY <1>2, <1>4, <1>5 DEF Receive, Going, IsTurn
<1> QED  BY <1>3, <1>5, <1>6, <1>7

LEMMA WholeSendsNothing ==
  ASSUME NEW c, Whole(c), Hand(c)
  PROVE  Whole(SendNothing(c))
<1>1. PICK h : h = HandleHandshake(c)
  OBVIOUS
<1>2. Whole(h.c)
  BY <1>1, WholeShakes
<1>3. Whole(CheckBrokenState(h.c)) /\ Whole(FlushPending(h.c))
  BY <1>2, WholeChecks, WholeFlushesPending
<1>4. SendNothing(c) \in {c, h.c, CheckBrokenState(h.c), FlushPending(h.c)}
  BY <1>1 DEF SendNothing
<1> QED  BY <1>2, <1>3, <1>4

\* f_SendVectored
LEMMA WholeSendsVectored ==
  ASSUME NEW c, Whole(c), Hand(c), NEW n \in Nat
  PROVE  Whole(SendVectored(c, n).c)
<1>1. PICK h : h = HandleHandshake(c)
  OBVIOUS
<1>2. Whole(h.c)
  BY <1>1, WholeShakes
<1>3. PICK b, d : b = Batched(h.c, n) /\ d = Sealed(h.c, "data", n)
  OBVIOUS
<1>4. Whole(b.c) /\ IsBatch(b) /\ Whole(d)
  BY <1>2, <1>3, WholeBatches, WholeSeals, KindsAre DEF Kinds
<1>5. PICK f : f = FlushPending(b.c)
  OBVIOUS
<1>6. Whole(f) /\ Whole(CheckBrokenState(f)) /\ Whole(CheckBrokenState(h.c)) /\ Whole(FlushPending(d))
  BY <1>2, <1>4, <1>5, WholeChecks, WholeFlushesPending
<1>7. SendVectored(c, n).c \in
        {c, h.c, CheckBrokenState(h.c), FlushPending(d), b.c, f, CheckBrokenState(f)}
  BY <1>1, <1>3, <1>4, <1>5 DEF SendVectored, IsBatch
<1> QED  BY <1>2, <1>4, <1>6, <1>7

-----------------------------------------------------------------------------
(* What is selected of a sequence, and sums.                               *)

\* A loop whose turns are those of a function ends.
IsChain(X, a, f, n, r) ==
  r \in [0 .. n -> X] /\ r[0] = a /\ \A k \in 1 .. n : r[k] = f[k][r[k - 1]]

LEMMA ChainExists ==
  ASSUME NEW X, NEW a \in X, NEW f \in [Nat -> [X -> X]], NEW n \in Nat
  PROVE  \E r : IsChain(X, a, f, n, r)
<1> DEFINE S == {m \in Nat : \E r : IsChain(X, a, f, m, r)}
<1>1. 0 \in S
  <2>1. PICK r : r = [k \in 0 .. 0 |-> a]
    OBVIOUS
  <2>2. IsChain(X, a, f, 0, r)
    BY <2>1 DEF IsChain
  <2> QED  BY <2>2
<1>2. ASSUME NEW m \in S PROVE m + 1 \in S
  <2>1. PICK t : IsChain(X, a, f, m, t)
    OBVIOUS
  <2>2. PICK x \in X : x = f[m + 1][t[m]]
    <3>1. m \in 0 .. m /\ m + 1 \in Nat
      OBVIOUS
    <3>2. t[m] \in X
      BY <2>1, <3>1 DEF IsChain
    <3> QED  BY <3>1, <3>2
  <2>3. PICK u : u = [k \in 0 .. m + 1 |-> IF k <= m THEN t[k] ELSE x]
    OBVIOUS
  <2>4. \A k \in 0 .. m : u[k] = t[k]
    BY <2>3
  <2>5. u[m + 1] = x
    BY <2>3
  <2>6. \A k \in 1 .. m + 1 : u[k] = f[k][u[k - 1]]
    <3> TAKE k \in 1 .. m + 1
    <3>1. CASE k = m + 1
      BY <2>2, <2>4, <2>5, <3>1
    <3>2. CASE k # m + 1
      <4>1. k \in 1 .. m /\ k \in 0 .. m /\ k - 1 \in 0 .. m
        BY <3>2
      <4> QED  BY <2>1, <2>4, <4>1 DEF IsChain
    <3> QED  BY <3>1, <3>2
  <2>7. u \in [0 .. m + 1 -> X]
    BY <2>1, <2>2, <2>3 DEF IsChain
  <2>8. u[0] = a
    <3>1. 0 \in 0 .. m
      OBVIOUS
    <3> QED  BY <2>1, <2>4, <3>1 DEF IsChain
  <2>9. IsChain(X, a, f, m + 1, u)
    BY <2>6, <2>7, <2>8 DEF IsChain
  <2> QED  BY <2>9
<1> HIDE DEF S
<1>3. S = Nat
  BY <1>1, <1>2, Induct DEF S
<1> QED  BY <1>3 DEF S

SelectNext(q, P, was, k) == IF k \in P THEN Append(was, q[k]) ELSE was
IsSelecting(q, P, n, r) ==
  r = [k \in 0 .. n |-> IF k = 0 THEN <<>> ELSE SelectNext(q, P, r[k - 1], k)]

LEMMA SelectingExists ==
  ASSUME NEW S, NEW q \in Seq(S), NEW P
  PROVE  \E r : IsSelecting(q, P, Len(q), r)
<1>1. PICK n \in Nat : n = Len(q) /\ \A k \in 1 .. n : q[k] \in S
  OBVIOUS
<1>2. PICK f : f = [k \in Nat |-> [was \in Seq(S) |->
                      IF k \in 1 .. n THEN SelectNext(q, P, was, k) ELSE was]]
  OBVIOUS
<1>3. f \in [Nat -> [Seq(S) -> Seq(S)]]
  <2>1. ASSUME NEW k \in 1 .. n, NEW was \in Seq(S) PROVE SelectNext(q, P, was, k) \in Seq(S)
    BY <1>1 DEF SelectNext
  <2> QED  BY <1>2, <2>1
<1>4. <<>> \in Seq(S)
  OBVIOUS
<1>5. PICK r : IsChain(Seq(S), <<>>, f, n, r)
  BY <1>3, <1>4, ChainExists
<1>6. \A k \in 1 .. n : r[k] = SelectNext(q, P, r[k - 1], k)
  <2> TAKE k \in 1 .. n
  <2>1. k \in Nat /\ k - 1 \in 0 .. n
    OBVIOUS
  <2>2. r[k - 1] \in Seq(S) /\ r[k] = f[k][r[k - 1]]
    BY <1>5, <2>1 DEF IsChain
  <2> QED  BY <1>2, <2>1, <2>2
<1>7. DOMAIN r = 0 .. n /\ r[0] = <<>> /\ r = [k \in 0 .. n |-> r[k]]
  BY <1>5 DEF IsChain
<1> DEFINE g(k) == IF k = 0 THEN <<>> ELSE SelectNext(q, P, r[k - 1], k)
<1>8. \A k \in 0 .. n : r[k] = g(k)
  BY <1>6, <1>7
<1> HIDE DEF g
<1>9. r = [k \in 0 .. n |-> g(k)]
  BY <1>7, <1>8
<1>10. r = [k \in 0 .. n |-> IF k = 0 THEN <<>> ELSE SelectNext(q, P, r[k - 1], k)]
  BY <1>9, Zenon DEF g
<1> QED  BY <1>1, <1>10, Zenon DEF IsSelecting

LEMMA SelectingIs ==
  ASSUME NEW q, NEW P, NEW n \in Nat, NEW r, IsSelecting(q, P, n, r)
  PROVE  r[0] = <<>> /\ \A k \in 1 .. n : r[k] = SelectNext(q, P, r[k - 1], k)
<1> DEFINE g(k) == IF k = 0 THEN <<>> ELSE SelectNext(q, P, r[k - 1], k)
<1>1. r = [k \in 0 .. n |-> g(k)]
  BY Zenon DEF IsSelecting
<1> HIDE DEF g
<1>2. \A k \in 0 .. n : r[k] = g(k)
  BY <1>1
<1>3. 0 \in 0 .. n /\ \A k \in 1 .. n : k \in 0 .. n /\ k # 0
  OBVIOUS
<1> QED  BY <1>2, <1>3 DEF g

LEMMA SelectedRuns ==
  ASSUME NEW S, NEW q \in Seq(S), NEW P
  PROVE  \E n \in Nat : \E r : /\ n = Len(q) /\ r[0] = <<>> /\ Selected(q, P) = r[n]
                                /\ \A k \in 1 .. n : r[k] = SelectNext(q, P, r[k - 1], k)
<1>1. PICK n \in Nat : n = Len(q)
  OBVIOUS
<1> DEFINE u == CHOOSE r : IsSelecting(q, P, Len(q), r)
<1>2. IsSelecting(q, P, Len(q), u)
  BY SelectingExists
<1>3. Selected(q, P) = u[Len(q)]
  BY DEF Selected, IsSelecting, SelectNext
<1> HIDE DEF u
<1>4. u[0] = <<>> /\ \A k \in 1 .. n : u[k] = SelectNext(q, P, u[k - 1], k)
  BY <1>1, <1>2, SelectingIs
<1> QED  BY <1>1, <1>3, <1>4

LEMMA SelectedType ==
  ASSUME NEW S, NEW q \in Seq(S), NEW P
  PROVE  Selected(q, P) \in Seq(S)
<1>0. PICK n \in Nat : \E r : /\ n = Len(q) /\ r[0] = <<>> /\ Selected(q, P) = r[n]
                               /\ \A k \in 1 .. n : r[k] = SelectNext(q, P, r[k - 1], k)
  BY SelectedRuns
<1>1. PICK r : /\ n = Len(q) /\ r[0] = <<>> /\ Selected(q, P) = r[n]
               /\ \A k \in 1 .. n : r[k] = SelectNext(q, P, r[k - 1], k)
  BY <1>0
<1> DEFINE T == {k \in Nat : k <= n => r[k] \in Seq(S)}
<1>2. 0 \in T
  <2>1. r[0] \in Seq(S)
    BY <1>1
  <2> QED  BY <2>1
<1>3. ASSUME NEW m \in T PROVE m + 1 \in T
  <2> SUFFICES ASSUME m + 1 <= n PROVE r[m + 1] \in Seq(S)
    OBVIOUS
  <2>1. m + 1 \in 1 .. n /\ m + 1 - 1 = m
    OBVIOUS
  <2>2. r[m + 1] = SelectNext(q, P, r[m], m + 1) /\ r[m] \in Seq(S)
    BY <1>1, <2>1
  <2>3. q[m + 1] \in S
    BY <1>1, <2>1
  <2> QED  BY <2>2, <2>3 DEF SelectNext
<1> HIDE DEF T
<1>4. T = Nat
  BY <1>2, <1>3, Induct DEF T
<1> QED  BY <1>1, <1>4 DEF T

-----------------------------------------------------------------------------
(* The operations of the socket.                                           *)

\* The plaintext of operations.
SumNext(q, was, k) == was + q[k].plaintext
IsSumming(q, n, r) == r = [k \in 0 .. n |-> IF k = 0 THEN 0 ELSE SumNext(q, r[k - 1], k)]
PlaintextOf(q) ==
  LET Sum[k \in 0 .. Len(q)] == IF k = 0 THEN 0 ELSE Sum[k - 1] + q[k].plaintext IN Sum[Len(q)]

LEMMA SummingExists ==
  ASSUME NEW q \in Seq(Operations)
  PROVE  \E r : IsSumming(q, Len(q), r)
<1>1. PICK n \in Nat : n = Len(q) /\ \A k \in 1 .. n : q[k] \in Operations
  OBVIOUS
<1>2. PICK f : f = [k \in Nat |-> [was \in Nat |->
                      IF k \in 1 .. n THEN SumNext(q, was, k) ELSE was]]
  OBVIOUS
<1>3. f \in [Nat -> [Nat -> Nat]]
  <2>1. ASSUME NEW k \in 1 .. n, NEW was \in Nat PROVE SumNext(q, was, k) \in Nat
    BY <1>1 DEF SumNext, Operations
  <2> QED  BY <1>2, <2>1
<1>4. PICK r : IsChain(Nat, 0, f, n, r)
  BY <1>3, ChainExists
<1>5. \A k \in 1 .. n : r[k] = SumNext(q, r[k - 1], k)
  <2> TAKE k \in 1 .. n
  <2>1. k \in Nat /\ k - 1 \in 0 .. n
    OBVIOUS
  <2>2. r[k - 1] \in Nat /\ r[k] = f[k][r[k - 1]]
    BY <1>4, <2>1 DEF IsChain
  <2> QED  BY <1>2, <2>1, <2>2
<1>6. DOMAIN r = 0 .. n /\ r[0] = 0 /\ r = [k \in 0 .. n |-> r[k]]
  BY <1>4 DEF IsChain
<1> DEFINE g(k) == IF k = 0 THEN 0 ELSE SumNext(q, r[k - 1], k)
<1>7. \A k \in 0 .. n : r[k] = g(k)
  BY SMTT(60), <1>5, <1>6
<1> HIDE DEF g
<1>8. r = [k \in 0 .. n |-> g(k)]
  BY <1>6, <1>7
<1>9. r = [k \in 0 .. n |-> IF k = 0 THEN 0 ELSE SumNext(q, r[k - 1], k)]
  BY <1>8, Zenon DEF g
<1> QED  BY <1>1, <1>9, Zenon DEF IsSumming

LEMMA PlaintextType ==
  ASSUME NEW q \in Seq(Operations)
  PROVE  PlaintextOf(q) \in Nat
<1>1. PICK n \in Nat : n = Len(q) /\ \A k \in 1 .. n : q[k] \in Operations
  OBVIOUS
<1> DEFINE u == CHOOSE r : IsSumming(q, Len(q), r)
<1>2. IsSumming(q, Len(q), u)
  BY SummingExists
<1>3. PlaintextOf(q) = u[Len(q)]
  BY DEF PlaintextOf, IsSumming, SumNext
<1> HIDE DEF u
<1> DEFINE g(k) == IF k = 0 THEN 0 ELSE SumNext(q, u[k - 1], k)
<1>4. u = [k \in 0 .. n |-> g(k)]
  BY <1>1, <1>2, Zenon DEF IsSumming
<1> HIDE DEF g
<1>5. \A k \in 0 .. n : u[k] = g(k)
  BY <1>4
<1> DEFINE T == {k \in Nat : k <= n => u[k] \in Nat}
<1>6. 0 \in T
  BY <1>5 DEF g
<1>7. ASSUME NEW m \in T PROVE m + 1 \in T
  <2> SUFFICES ASSUME m + 1 <= n PROVE u[m + 1] \in Nat
    OBVIOUS
  <2>1. m + 1 \in 1 .. n /\ m + 1 \in 0 .. n /\ m + 1 - 1 = m /\ m + 1 # 0
    OBVIOUS
  <2>2. u[m + 1] = SumNext(q, u[m], m + 1) /\ u[m] \in Nat
    BY <1>5, <2>1 DEF g
  <2>3. q[m + 1].plaintext \in Nat
    BY <1>1, <2>1 DEF Operations
  <2> QED  BY <2>2, <2>3 DEF SumNext
<1> HIDE DEF T
<1>8. T = Nat
  BY <1>6, <1>7, Induct DEF T
<1> QED  BY <1>1, <1>3, <1>8 DEF T

\* Operations change, and what is posted is of no generation.
LEMMA WholeOps ==
  ASSUME NEW c, NEW d, Whole(c), Same(c, d, {"ops", "held", "mail"}),
         d.ops \in Seq(Operations), d.held \in Nat,
         NEW jobs \in Seq(Jobs), \A k \in DOMAIN jobs : jobs[k].transfer = 0,
         d.mail = Joined(c.mail, jobs)
  PROVE  Whole(d)
<1>1. IsSocket(d)
  BY SocketStays DEF Whole
<1>2. /\ d.wire = c.wire /\ d.room = c.room /\ d.sealed = c.sealed
      /\ d.failed = c.failed /\ d.kernel = c.kernel /\ d.tx = c.tx
  BY DEF Whole, Same, IsSocket, Fields
<1>3. OnWire(d)
  BY <1>2 DEF Whole, OnWire
<1>4. ~lost => InOrder(d)
  BY <1>2 DEF Whole, InOrder
<1>5. Ledger(c.tx.out, c.kernel, c.mail)
  BY DEF Whole
<1>6. Ledger(d.tx.out, d.kernel, d.mail)
  BY <1>2, <1>5, LedgerPosts
<1> QED  BY <1>1, <1>2, <1>3, <1>4, <1>6 DEF Whole

LEMMA NoJobs ==
  ASSUME NEW S, NEW mail \in Seq(S)
  PROVE  <<>> \in Seq(Jobs) /\ (\A k \in DOMAIN <<>> : <<>>[k].transfer = 0) /\ mail = Joined(mail, <<>>)
<1>1. mail = Joined(mail, <<>>)
  BY JoinedNone
<1>2. DOMAIN <<>> = {}
  OBVIOUS
<1> QED  BY <1>1, <1>2

\* Operations change, and nothing is posted.
LEMMA WholeOpsOnly ==
  ASSUME NEW c, NEW d, Whole(c), Same(c, d, {"ops", "held"}),
         d.ops \in Seq(Operations), d.held \in Nat
  PROVE  Whole(d)
<1>1. c.mail \in Seq(Jobs)
  BY DEF Whole, Ledger, MailOk
<1>2. d.mail = c.mail /\ Same(c, d, {"ops", "held", "mail"})
  BY DEF Whole, Same, IsSocket, Fields
<1>3. PICK jobs \in Seq(Jobs) : (\A k \in DOMAIN jobs : jobs[k].transfer = 0) /\ c.mail = Joined(c.mail, jobs)
  BY <1>1, NoJobs
<1> QED  BY <1>2, <1>3, WholeOps

LEMMA InUseType ==
  ASSUME NEW ops \in Seq(Operations)
  PROVE  InUse(ops) \in Seq(Operations)
BY SelectedType DEF InUse

LEMMA JobsOfParked ==
  ASSUME NEW q \in Seq(Operations),
         NEW p, p = [i \in DOMAIN q |-> Completed(None, q[i].plaintext, TRUE)],
         NEW r, r = [i \in DOMAIN q |-> Released(None)]
  PROVE  /\ p \in Seq(Jobs) /\ \A k \in DOMAIN p : p[k].transfer = 0
         /\ r \in Seq(Jobs) /\ \A k \in DOMAIN r : r[k].transfer = 0
<1>1. PICK n \in Nat : n = Len(q) /\ DOMAIN q = 1 .. n
  OBVIOUS
<1>2. \A i \in 1 .. n : q[i].plaintext \in Nat
  <2>1. \A i \in 1 .. n : q[i] \in Operations
    BY <1>1
  <2> QED  BY <2>1 DEF Operations
<1>3. \A i \in 1 .. n : /\ Completed(None, q[i].plaintext, TRUE) \in Jobs
                        /\ Completed(None, q[i].plaintext, TRUE).transfer = 0
  BY <1>2 DEF Completed, Jobs, None
<1>4. Released(None) \in Jobs /\ Released(None).transfer = 0
  BY DEF Released, Jobs, None
<1>5. p \in [1 .. n -> Jobs]
  BY <1>1, <1>3
<1>6. r \in [1 .. n -> Jobs]
  BY <1>1, <1>4
<1>7. p \in Seq(Jobs) /\ r \in Seq(Jobs)
  BY <1>5, <1>6, SeqMade
<1>8. DOMAIN p = 1 .. n /\ \A k \in 1 .. n : p[k] = Completed(None, q[k].plaintext, TRUE)
  BY <1>1
<1>9. DOMAIN r = 1 .. n /\ \A k \in 1 .. n : r[k] = Released(None)
  BY <1>1
<1>10. \A k \in DOMAIN p : p[k].transfer = 0
  BY <1>3, <1>8
<1>11. \A k \in DOMAIN r : r[k].transfer = 0
  BY <1>4, <1>9
<1> QED  BY <1>7, <1>10, <1>11

LEMMA OperationWith ==
  ASSUME NEW op \in Operations
  PROVE  /\ [op EXCEPT !.resolved = TRUE] \in Operations
         /\ [op EXCEPT !.released = TRUE] \in Operations
         /\ [op EXCEPT !.functors = TRUE] \in Operations
BY DEF Operations

LEMMA OpsMarked ==
  ASSUME NEW q \in Seq(Operations), NEW H,
         NEW p, p = [i \in DOMAIN q |-> IF i \in H THEN [q[i] EXCEPT !.resolved = TRUE] ELSE q[i]],
         NEW r, r = [i \in DOMAIN q |-> IF i \in H THEN [q[i] EXCEPT !.released = TRUE] ELSE q[i]]
  PROVE  p \in Seq(Operations) /\ r \in Seq(Operations)
<1>1. PICK n \in Nat : n = Len(q) /\ DOMAIN q = 1 .. n /\ \A i \in 1 .. n : q[i] \in Operations
  OBVIOUS
<1>2. \A i \in 1 .. n : /\ [q[i] EXCEPT !.resolved = TRUE] \in Operations
                        /\ [q[i] EXCEPT !.released = TRUE] \in Operations
  BY <1>1, OperationWith
<1>3. p \in [1 .. n -> Operations]
  BY <1>1, <1>2
<1>4. r \in [1 .. n -> Operations]
  BY <1>1, <1>2
<1> QED  BY <1>3, <1>4, SeqMade

LEMMA PostIs ==
  ASSUME NEW c, IsSocket(c), NEW jobs
  PROVE  /\ Same(c, Post(c, jobs), {"mail"}) /\ IsSocket(Post(c, jobs))
         /\ Post(c, jobs).mail = Joined(c.mail, jobs)
         /\ Post(c, jobs).ops = c.ops /\ Post(c, jobs).held = c.held
BY DEF Post, Same, IsSocket, Fields, Joined

\* fp_ResolveOpsForBuffer
LEMMA WholeResolvesOps ==
  ASSUME NEW c, Whole(c), NEW buffer
  PROVE  Whole(ResolveOpsForBuffer(c, buffer))
<1>1. c.ops \in Seq(Operations) /\ c.held \in Nat /\ IsSocket(c)
  BY DEF Whole
<1>2. PICK here : here = {i \in DOMAIN c.ops : c.ops[i].buffer = buffer /\ ~c.ops[i].resolved}
  OBVIOUS
<1>3. PICK parked, carried, resolved :
        /\ parked = Selected(c.ops, {i \in here : c.ops[i].functors})
        /\ carried = Selected(c.ops, {i \in here : ~c.ops[i].functors})
        /\ resolved = [i \in DOMAIN c.ops |->
                         IF i \in here THEN [c.ops[i] EXCEPT !.resolved = TRUE] ELSE c.ops[i]]
  OBVIOUS
<1>4. PICK jobs : jobs = [i \in DOMAIN parked |-> Completed(None, parked[i].plaintext, TRUE)]
  OBVIOUS
<1>5. PICK d : d = [c EXCEPT !.ops = InUse(resolved), !.held = @ + PlaintextOf(carried)]
  OBVIOUS
<1>6. ResolveOpsForBuffer(c, buffer) = Post(d, jobs)
  BY ZenonT(60), <1>2, <1>3, <1>4, <1>5 DEF ResolveOpsForBuffer, PlaintextOf
<1>7. parked \in Seq(Operations) /\ carried \in Seq(Operations)
  BY <1>1, <1>3, SelectedType
<1>8. resolved \in Seq(Operations)
  BY <1>1, <1>3, OpsMarked
<1>9. InUse(resolved) \in Seq(Operations) /\ PlaintextOf(carried) \in Nat
  BY <1>7, <1>8, InUseType, PlaintextType
<1>10. /\ Same(c, d, {"ops", "held"}) /\ IsSocket(d)
       /\ d.ops = InUse(resolved) /\ d.held = c.held + PlaintextOf(carried)
  BY <1>1, <1>5 DEF Same, IsSocket, Fields
<1>11. Whole(d)
  BY <1>1, <1>9, <1>10, WholeOpsOnly
<1>12. PICK e : e = Post(d, jobs)
  OBVIOUS
<1>13. /\ Same(d, e, {"mail"}) /\ e.mail = Joined(d.mail, jobs) /\ e.ops = d.ops /\ e.held = d.held
  BY <1>10, <1>12, PostIs
<1>14. Same(d, e, {"ops", "held", "mail"})
  BY <1>13 DEF Same
<1>15. d.ops \in Seq(Operations) /\ d.held \in Nat
  BY <1>11 DEF Whole
<1>16. jobs \in Seq(Jobs) /\ \A k \in DOMAIN jobs : jobs[k].transfer = 0
  BY <1>4, <1>7, JobsOfParked
<1>17. Whole(e)
  BY <1>11, <1>13, <1>14, <1>15, <1>16, WholeOps
<1> QED  BY <1>6, <1>12, <1>17

\* fp_ReleaseOpsForBuffer
LEMMA WholeReleasesOps ==
  ASSUME NEW c, Whole(c), NEW buffer
  PROVE  Whole(ReleaseOpsForBuffer(c, buffer))
<1>1. c.ops \in Seq(Operations) /\ c.held \in Nat /\ IsSocket(c)
  BY DEF Whole
<1>2. PICK here : here = {i \in DOMAIN c.ops : c.ops[i].buffer = buffer /\ ~c.ops[i].released}
  OBVIOUS
<1>3. PICK parked, released :
        /\ parked = Selected(c.ops, {i \in here : c.ops[i].functors})
        /\ released = [i \in DOMAIN c.ops |->
                         IF i \in here THEN [c.ops[i] EXCEPT !.released = TRUE] ELSE c.ops[i]]
  OBVIOUS
<1>4. PICK jobs : jobs = [i \in DOMAIN parked |-> Released(None)]
  OBVIOUS
<1>5. PICK d : d = [c EXCEPT !.ops = InUse(released)]
  OBVIOUS
<1>6. ReleaseOpsForBuffer(c, buffer) = Post(d, jobs)
  BY <1>2, <1>3, <1>4, <1>5 DEF ReleaseOpsForBuffer
<1>7. parked \in Seq(Operations)
  BY <1>1, <1>3, SelectedType
<1>8. released \in Seq(Operations)
  BY <1>1, <1>3, OpsMarked
<1>9. InUse(released) \in Seq(Operations)
  BY <1>8, InUseType
<1>10. /\ Same(c, d, {"ops", "held"}) /\ IsSocket(d)
       /\ d.ops = InUse(released) /\ d.held = c.held
  BY <1>1, <1>5 DEF Same, IsSocket, Fields
<1>11. Whole(d)
  BY <1>1, <1>9, <1>10, WholeOpsOnly
<1>12. PICK e : e = Post(d, jobs)
  OBVIOUS
<1>13. /\ Same(d, e, {"mail"}) /\ e.mail = Joined(d.mail, jobs) /\ e.ops = d.ops /\ e.held = d.held
  BY <1>10, <1>12, PostIs
<1>14. Same(d, e, {"ops", "held", "mail"})
  BY <1>13 DEF Same
<1>15. d.ops \in Seq(Operations) /\ d.held \in Nat
  BY <1>11 DEF Whole
<1>16. jobs \in Seq(Jobs) /\ \A k \in DOMAIN jobs : jobs[k].transfer = 0
  BY <1>4, <1>7, JobsOfParked
<1>17. Whole(e)
  BY <1>11, <1>13, <1>14, <1>15, <1>16, WholeOps
<1> QED  BY <1>6, <1>12, <1>17

LEMMA WholeParks ==
  ASSUME NEW c, Whole(c)
  PROVE  Whole(ParkSendOperation(c))
<1>1. c.ops \in Seq(Operations) /\ c.held \in Nat /\ IsSocket(c)
  BY DEF Whole
<1>2. PICK d : d = ParkSendOperation(c)
  OBVIOUS
<1>3. PICK n : n = Len(c.ops)
  OBVIOUS
<1>4. PICK op : op = [c.ops[n] EXCEPT !.functors = TRUE]
  OBVIOUS
<1>5. d.ops = [c.ops EXCEPT ![n] = op] /\ Same(c, d, {"ops", "held"}) /\ d.held = c.held
  BY <1>1, <1>2, <1>3, <1>4 DEF ParkSendOperation, Same, IsSocket, Fields
<1>6. n \in DOMAIN c.ops => op \in Operations
  <2>1. n \in DOMAIN c.ops => c.ops[n] \in Operations
    BY <1>1
  <2> QED  BY <1>4, <2>1, OperationWith
<1>7. [c.ops EXCEPT ![n] = op] \in Seq(Operations)
  <2>1. PICK q \in Seq(Operations), m \in Nat : q = c.ops /\ m = Len(q) /\ DOMAIN q = 1 .. m
    BY <1>1
  <2>2. n \in 1 .. m => op \in Operations
    BY <1>6, <2>1
  <2>3. [q EXCEPT ![n] = op] \in [1 .. m -> Operations]
    <3>1. PICK f \in [1 .. m -> Operations] : f = q
      BY <2>1
    <3>2. CASE n \in 1 .. m
      <4>1. op \in Operations
        BY <2>2, <3>2
      <4>2. [f EXCEPT ![n] = op] \in [1 .. m -> Operations]
        BY ONLY <4>1, f \in [1 .. m -> Operations]
      <4> QED  BY <3>1, <4>2
    <3>3. CASE n \notin 1 .. m
      <4>1. [f EXCEPT ![n] = op] = f
        BY ONLY <3>3, f \in [1 .. m -> Operations]
      <4> QED  BY <3>1, <4>1
    <3> QED  BY <3>2, <3>3
  <2>4. [q EXCEPT ![n] = op] \in Seq(Operations)
    BY <2>3, SeqMade
  <2> QED  BY <2>1, <2>4
<1>8. Whole(d)
  BY <1>1, <1>5, <1>7, WholeOpsOnly
<1> QED  BY <1>2, <1>8

LEMMA WholeAllocates ==
  ASSUME NEW c, Whole(c), NEW buffer \in Nat, NEW n \in Nat
  PROVE  Whole(AllocateSendOperation(c, NewOperation(buffer, n)))
<1>1. c.ops \in Seq(Operations) /\ c.held \in Nat /\ IsSocket(c)
  BY DEF Whole
<1>2. PICK op : op = NewOperation(buffer, n) /\ op \in Operations
  <2>1. FALSE \in BOOLEAN
    OBVIOUS
  <2>2. NewOperation(buffer, n) \in Operations
    BY ONLY <2>1, buffer \in Nat, n \in Nat DEF NewOperation, Operations
  <2> QED  BY <2>2
<1>3. PICK d : d = AllocateSendOperation(c, op)
  OBVIOUS
<1>4. d.ops = Append(c.ops, op) /\ Same(c, d, {"ops", "held"}) /\ d.held = c.held
  BY <1>1, <1>3 DEF AllocateSendOperation, Same, IsSocket, Fields
<1>5. Append(c.ops, op) \in Seq(Operations)
  BY <1>1, <1>2
<1>6. Whole(d)
  BY <1>1, <1>4, <1>5, WholeOpsOnly
<1> QED  BY <1>2, <1>3, <1>6

-----------------------------------------------------------------------------
(* Submissions and continuations.                                          *)

\* f_BeginSend, and the operation the platform takes of the generation.
LEMMA WholeBegins ==
  ASSUME NEW c, NEW d, Whole(c), c.tx.unsent # <<>>, NEW i, i = Head(c.tx.unsent),
         Same(c, d, {"tx", "inFlight", "kernel"}), d.tx = BeginSend(c.tx),
         d.kernel = Append(c.kernel, [buffer |-> i, records |-> c.tx.out[i].records, stage |-> "Queued"])
  PROVE  Whole(d)
<1>1. IsSocket(c) /\ TxOk(c.tx) /\ Ledger(c.tx.out, c.kernel, c.mail) /\ IsSocket(d)
  BY WholeIs, SocketStays
<1>2. PICK w \in Datas, k \in Datas, l \in Datas :
        w = c.wire /\ k = Carrying(c.kernel) /\ l = Left(c.tx)
  BY WholeIs
<1>3. PICK b : b = BeginSend(c.tx)
  OBVIOUS
<1>4. /\ TxOk(b) /\ l = Joined(c.tx.out[i].records, Left(b)) /\ Holding(c.tx.out, b.out)
      /\ i \in DOMAIN c.tx.out /\ c.tx.out[i].pinned = 0 /\ c.tx.out[i].records \in Datas
      /\ i \in DOMAIN b.out /\ b.out[i].pinned # 0
  BY ONLY <1>1, <1>2, <1>3, c.tx.unsent # <<>>, i = Head(c.tx.unsent), TxBegins
<1>5. PICK r \in Datas, m \in Datas : r = c.tx.out[i].records /\ m = Left(b)
  BY ONLY <1>4, LeftType
<1>6. i \in Nat
  BY SMTT(30), <1>1, <1>4, ArrangedIs, RecordsAre DEF TxOk
<1>7. PICK op : op = [buffer |-> i, records |-> r, stage |-> "Queued"]
  OBVIOUS
<1>8. op \in KernelOps /\ op.buffer = i /\ op.stage = "Queued" /\ op.records = r
  BY <1>6, <1>7 DEF KernelOps
<1>9. /\ d.tx = b /\ d.kernel = Append(c.kernel, op)
      /\ d.wire = c.wire /\ d.room = c.room /\ d.failed = c.failed /\ d.sealed = c.sealed
      /\ d.mail = c.mail /\ d.ops = c.ops /\ d.held = c.held
  BY ONLY <1>1, <1>3, <1>5, <1>7, Same(c, d, {"tx", "inFlight", "kernel"}), d.tx = BeginSend(c.tx), d.kernel = Append(c.kernel, [buffer |-> i, records |-> c.tx.out[i].records, stage |-> "Queued"]) DEF Same, IsSocket, Fields
<1>10. Ledger(b.out, Append(c.kernel, op), c.mail)
  BY <1>1, <1>4, <1>8, LedgerSubmits
<1>11. c.kernel \in Seq(KernelOps)
  BY WholeIs
<1>12. Carrying(d.kernel) = Joined(k, r)
  BY ONLY <1>2, <1>8, <1>9, <1>11, CarryingAppend
<1>13. ASSUME ~lost PROVE InOrder(d)
  <2>1. InOrder(c)
    BY <1>13 DEF Whole
  <2>2. Joined(w, Joined(k, l)) = Interval(0, Len(c.sealed))
    BY ONLY <1>2, <2>1 DEF InOrder
  <2>3. l = Joined(r, m)
    BY <1>4, <1>5
  <2>4. Joined(Joined(k, r), m) = Joined(k, l)
    BY <2>3, DataJoinsBoth
  <2>9. PICK q \in Seq(KernelOps) : q = c.kernel
    BY <1>11
  <2>10. op \in KernelOps
    BY <1>8
  <2>5. PICK n \in Nat, a \in Seq(KernelOps) :
          /\ a = Append(q, op) /\ n \in DOMAIN a /\ a[n] = op
          /\ \A j \in DOMAIN q : j \in DOMAIN a /\ a[j] = q[j] /\ j < n /\ j # n
          /\ \A j \in DOMAIN a : j = n \/ j \in DOMAIN q
    BY ONLY ZenonT(60), <2>10, q \in Seq(KernelOps), AppendPlaces
  <2>6. \A j \in DOMAIN d.kernel : d.kernel[j].stage = "Completed" => d.kernel[j].records = <<>>
    <3> TAKE j \in DOMAIN d.kernel
    <3>1. d.kernel = a
      BY <1>9, <2>5, <2>9
    <3>2. CASE j = n
      BY <1>8, <2>5, <3>1, <3>2
    <3>3. CASE j \in DOMAIN c.kernel
      <4>1. c.kernel[j].stage = "Completed" => c.kernel[j].records = <<>>
        BY <2>1, <3>3 DEF InOrder
      <4> QED  BY <2>5, <2>9, <3>1, <3>3, <4>1
    <3> QED  BY <2>5, <2>9, <3>1, <3>2, <3>3
  <2>7. Joined(d.wire, Joined(Carrying(d.kernel), Left(d.tx))) = Interval(0, Len(d.sealed))
    BY <1>2, <1>5, <1>9, <1>12, <2>2, <2>4
  <2> QED  BY <2>6, <2>7 DEF InOrder
<1>14. OnWire(d)
  BY ONLY <1>9, Whole(c) DEF Whole, OnWire
<1>15. TxOk(d.tx) /\ Ledger(d.tx.out, d.kernel, d.mail)
  BY <1>4, <1>9, <1>10
<1> QED  BY <1>1, <1>9, <1>13, <1>14, <1>15 DEF Whole

LEMMA WindowFields ==
  /\ {"tx"} \subseteq Fields \ (Flow \ {"tx"}) /\ {"wasFull", "tx"} \subseteq Fields \ (Flow \ {"tx"})
  /\ {"active", "tx", "rx"} \subseteq Fields \ (Flow \ {"tx"})
  /\ {"window", "windowPending", "tx"} \subseteq Fields \ (Flow \ {"tx"})
BY DEF Fields, Flow

LEMMA WholeWindowed ==
  ASSUME NEW c, NEW d, Whole(c), NEW F, F \subseteq Fields \ (Flow \ {"tx"}), Same(c, d, F),
         TxAs(c.tx, d.tx)
  PROVE  Whole(d)
<1>1. Same(c, d, Fields \ (Flow \ {"tx"}))
  BY DEF Same
<1> QED  BY <1>1, WholeWindows

\* What the window may have grown to.
LEMMA WholeGrows ==
  ASSUME NEW c, Whole(c), NEW tx \in {c.tx} \cup GrownWindows(c.tx), NEW d, d = [c EXCEPT !.tx = tx]
  PROVE  Whole(d) /\ d.tx = tx
<1>1. TxAs(c.tx, tx)
  BY TxGrown, TxWindows DEF Whole
<1>2. Same(c, d, {"tx"}) /\ d.tx = tx
  BY DEF Whole, Same, IsSocket, Fields
<1> QED  BY <1>1, <1>2, WindowFields, WholeWindowed

LEMMA WholeAsks ==
  ASSUME NEW c, Whole(c), NEW d \in AskedWindow(c)
  PROVE  Whole(d)
<1>1. CASE d = c
  BY <1>1
<1>2. CASE d # c
  <2>1. PICK tx \in GrownWindows(c.tx) : d = [c EXCEPT !.wasFull = FALSE, !.tx = tx]
    BY <1>2 DEF AskedWindow
  <2>2. TxAs(c.tx, tx)
    BY TxGrown DEF Whole
  <2>3. Same(c, d, {"wasFull", "tx"}) /\ d.tx = tx
    BY <2>1 DEF Whole, Same, IsSocket, Fields
  <2> QED  BY <2>2, <2>3, WindowFields, WholeWindowed
<1> QED  BY <1>1, <1>2

\* A carrier that finds nothing to carry: the operation waits for itself, or the
\* continuation reports what is held at once.
LEMMA WholeWaits ==
  ASSUME NEW w, Whole(w), NEW n \in Nat
  PROVE  Whole(Post([w EXCEPT !.held = 0], <<Completed(None, n, TRUE), Released(None)>>))
<1>1. PICK a \in Jobs, b \in Jobs :
        a = Completed(None, n, TRUE) /\ b = Released(None) /\ a.transfer = 0 /\ b.transfer = 0
  <2>1. TRUE \in BOOLEAN
    OBVIOUS
  <2>2. Completed(None, n, TRUE) \in Jobs
    BY ONLY <2>1, n \in Nat DEF Completed, Jobs, None
  <2>3. Released(None) \in Jobs
    BY ONLY <2>1 DEF Released, Jobs, None
  <2>4. Completed(None, n, TRUE).transfer = 0 /\ Released(None).transfer = 0
    BY DEF Completed, Released, None
  <2> QED  BY <2>2, <2>3, <2>4
<1>2. PICK jobs : jobs = <<a, b>>
  OBVIOUS
<1>3. jobs \in Seq(Jobs)
  BY <1>2
<1>4. \A k \in DOMAIN jobs : jobs[k].transfer = 0
  <2>1. DOMAIN jobs = 1 .. 2 /\ jobs[1] = a /\ jobs[2] = b
    BY <1>2
  <2>2. \A k \in 1 .. 2 : k = 1 \/ k = 2
    OBVIOUS
  <2> QED  BY <1>1, <2>1, <2>2
<1>5. PICK d : d = [w EXCEPT !.held = 0]
  OBVIOUS
<1>6. IsSocket(w) /\ w.ops \in Seq(Operations)
  BY DEF Whole
<1>7. Same(w, d, {"ops", "held"}) /\ IsSocket(d) /\ d.ops = w.ops /\ d.held = 0
  BY <1>5, <1>6 DEF Same, IsSocket, Fields
<1>8. Whole(d)
  BY <1>6, <1>7, WholeOpsOnly
<1>9. PICK e : e = Post(d, jobs)
  OBVIOUS
<1>10. /\ Same(d, e, {"mail"}) /\ e.mail = Joined(d.mail, jobs) /\ e.ops = d.ops /\ e.held = d.held
  BY <1>7, <1>9, PostIs
<1>11. Same(d, e, {"ops", "held", "mail"}) /\ e.ops \in Seq(Operations) /\ e.held \in Nat
  BY <1>6, <1>7, <1>10 DEF Same
<1>12. Whole(e)
  BY ONLY <1>3, <1>4, <1>8, <1>10, <1>11, WholeOps
<1> QED  BY <1>1, <1>2, <1>5, <1>9, <1>12

\* fp_SubmitPinnedSend of a generation just begun, when the platform takes it.
LEMMA WholeSubmits ==
  ASSUME NEW w, Whole(w), w.tx.unsent # <<>>, NEW next, next = Head(w.tx.unsent),
         NEW b, b = [w EXCEPT !.tx = BeginSend(@)], NEW takes, NEW r,
         r = SubmitPinnedSend(b, next, w.tx.out[next].records, takes), r.taken = TRUE
  PROVE  Whole(r.c)
<1>1. IsSocket(w) /\ TxOk(w.tx)
  BY ONLY Whole(w), WholeIs
<1>2. w.tx.out[next].records \in Datas
  BY ONLY <1>1, w.tx.unsent # <<>>, next = Head(w.tx.unsent), TxBegins
<1>3. PICK x \in Datas : x = w.tx.out[next].records
  BY <1>2
<1>4. First(x, Len(x)) = x
  <2>1. PICK n \in Nat : n = Len(x)
    BY ONLY x \in Datas DEF Datas
  <2> QED  BY <2>1, FirstAll
<1>5. takes = "Whole"
  BY ONLY r = SubmitPinnedSend(b, next, w.tx.out[next].records, takes), r.taken = TRUE DEF SubmitPinnedSend
<1>6. r.c = [b EXCEPT
               !.inFlight = @ + 1,
               !.kernel = Append(@, [buffer |-> next, records |-> First(x, Len(x)), stage |-> "Queued"])]
  BY ONLY <1>3, <1>5, r = SubmitPinnedSend(b, next, w.tx.out[next].records, takes) DEF SubmitPinnedSend
<1>7. PICK op : op = [buffer |-> next, records |-> x, stage |-> "Queued"]
  BY ZenonT(60)
<1>8. r.c = [b EXCEPT !.inFlight = @ + 1, !.kernel = Append(@, op)]
  BY <1>4, <1>6, <1>7
<1>9. Same(w, b, {"tx"}) /\ IsSocket(b) /\ b.tx = BeginSend(w.tx) /\ b.kernel = w.kernel
  BY ONLY <1>1, b = [w EXCEPT !.tx = BeginSend(@)] DEF Same, IsSocket, Fields
<1>10. PICK d : d = r.c
  OBVIOUS
<1>11. /\ Same(b, d, {"inFlight", "kernel"}) /\ d.tx = b.tx /\ d.kernel = Append(b.kernel, op)
  BY ONLY ZenonT(60), <1>8, <1>9, <1>10 DEF Same, IsSocket, Fields
<1>12. Same(w, d, {"tx", "inFlight", "kernel"})
  BY <1>9, <1>11 DEF Same
<1>13. Whole(d)
  BY <1>3, <1>7, <1>9, <1>11, <1>12, WholeBegins
<1> QED  BY ZenonT(60), <1>10, <1>13

\* fp_CarrySend
LEMMA WholeCarries ==
  ASSUME NEW c, Whole(c), NEW submission, NEW takes, NEW r \in CarrySend(c, submission, takes),
         r.taken = TRUE
  PROVE  Whole(r.c)
<1> DEFINE Waits(w) ==
        IF submission THEN ParkSendOperation(w)
        ELSE Post([w EXCEPT !.held = 0], <<Completed(None, c.held, TRUE), Released(None)>>)
      Carried(w, next) ==
        IF next = None THEN [c |-> Waits(w), taken |-> TRUE]
        ELSE SubmitPinnedSend([w EXCEPT !.tx = BeginSend(@)], next, w.tx.out[next].records, takes)
<1>1. PICK tx \in {c.tx} \cup GrownWindows(c.tx) :
        r = Carried([c EXCEPT !.tx = tx], NextBeginSend([c EXCEPT !.tx = tx]))
  BY DEF CarrySend
<1>2. PICK w : w = [c EXCEPT !.tx = tx]
  OBVIOUS
<1>3. PICK next : next = NextBeginSend(w)
  OBVIOUS
<1>4. r = Carried(w, next)
  BY <1>1, <1>2, <1>3
<1>5. Whole(w)
  BY <1>2, WholeGrows
<1>6. CASE next = None
  <2>1. PICK n \in Nat : n = c.held
    BY DEF Whole
  <2>2. Whole(ParkSendOperation(w))
    BY <1>5, WholeParks
  <2>3. Whole(Post([w EXCEPT !.held = 0], <<Completed(None, n, TRUE), Released(None)>>))
    BY <1>5, WholeWaits
  <2>4. r.c = Waits(w)
    BY <1>4, <1>6
  <2>5. Waits(w) = ParkSendOperation(w)
          \/ Waits(w) = Post([w EXCEPT !.held = 0], <<Completed(None, n, TRUE), Released(None)>>)
    BY ONLY <2>1
  <2> HIDE DEF Waits
  <2> QED  BY <2>2, <2>3, <2>4, <2>5
<1>7. CASE next # None
  <2>1. w.tx.unsent # <<>> /\ next = Head(w.tx.unsent)
    BY <1>3, <1>7 DEF NextBeginSend
  <2>2. PICK b : b = [w EXCEPT !.tx = BeginSend(@)]
    OBVIOUS
  <2>3. r = SubmitPinnedSend(b, next, w.tx.out[next].records, takes)
    BY <1>4, <1>7, <2>2
  <2> HIDE DEF Waits, Carried
  <2> QED  BY <1>5, <2>1, <2>2, <2>3, WholeSubmits
<1> QED  BY <1>6, <1>7

\* f_ContinueSend
LEMMA WholeContinuesSend ==
  ASSUME NEW c, Whole(c), NEW takes, NEW r \in ContinueSend(c, takes), r.taken = TRUE
  PROVE  Whole(r.c)
<1>1. r = Refused(c) \/ r \in CarrySend(c, FALSE, takes)
  BY DEF ContinueSend
<1>2. r # Refused(c)
  BY DEF Refused
<1> QED  BY <1>1, <1>2, WholeCarries

\* f_SubmitSendVectored
LEMMA WholeSubmitsVectored ==
  ASSUME NEW c, Whole(c), NEW n \in Nat, NEW k \in Nat, NEW takes, NEW r \in SubmitSend(c, n, k, takes),
         r.taken = TRUE
  PROVE  Whole(r.c)
<1> DEFINE b == IF k < n THEN [c EXCEPT !.ssl = "WriteFailed"] ELSE c
           d == Sealed(b, "data", k)
           e == AllocateSendOperation(d, NewOperation(c.tx.fill, k))
<1>1. Same(c, b, {"ssl"})
  BY DEF Whole, Same, IsSocket, Fields
<1>2. \/ r = Refused(c)
      \/ r = [c |-> FailSend(c), taken |-> FALSE]
      \/ r = [c |-> ParkSendOperation(e), taken |-> TRUE]
      \/ r \in CarrySend(e, TRUE, takes)
  <2>1. CASE Refuses(c)
    BY <2>1 DEF SubmitSend
  <2>2. CASE ~Refuses(c) /\ k = 0
    BY <2>2 DEF SubmitSend
  <2>3. CASE ~Refuses(c) /\ k # 0
    BY <2>3 DEF SubmitSend
  <2> QED  BY <2>1, <2>2, <2>3
<1> HIDE DEF b
<1>3. Whole(b)
  BY <1>1, ApartFromFlow, WholeSame
<1>4. Whole(d)
  BY <1>3, KindsAre, WholeSeals DEF Kinds
<1> HIDE DEF d
<1>5. c.tx.fill \in Nat
  BY ArrangedIs DEF Whole, TxOk
<1>6. Whole(e)
  BY <1>4, <1>5, WholeAllocates
<1> HIDE DEF e
<1>7. r # Refused(c) /\ r # [c |-> FailSend(c), taken |-> FALSE]
  BY DEF Refused
<1>8. CASE r = [c |-> ParkSendOperation(e), taken |-> TRUE]
  <2>1. r.c = ParkSendOperation(e)
    BY <1>8
  <2> QED  BY <1>6, <2>1, WholeParks
<1>9. CASE r \in CarrySend(e, TRUE, takes)
  BY <1>6, <1>9, WholeCarries
<1> QED  BY <1>2, <1>7, <1>8, <1>9

\* f_OnCompletionActivated
LEMMA WholeActivates ==
  ASSUME NEW c, Whole(c)
  PROVE  Whole(Activated(c))
<1>1. PICK deep : deep = WithDepth(c.tx, scenario.depth)
  OBVIOUS
<1>2. PICK wide : wide = WithWindow(deep, c.window)
  OBVIOUS
<1>3. PICK tx : tx = [wide EXCEPT !.completion = TRUE]
  OBVIOUS
<1>4. TxOk(c.tx)
  BY WholeIs
<1>5. TxAs(c.tx, deep) /\ TxOk(deep)
  BY <1>1, <1>4, TxWindows, TxStays
<1>6. TxAs(deep, wide) /\ TxOk(wide)
  BY <1>2, <1>5, TxWindows, TxStays
<1>7. TxAs(wide, tx)
  BY <1>3, <1>6, TxWindows
<1>8. TxAs(c.tx, tx)
  BY <1>5, <1>6, <1>7, TxAsOnward
<1>9. PICK d : d = Activated(c)
  OBVIOUS
<1>10. Same(c, d, {"active", "tx", "rx"}) /\ d.tx = tx
  BY <1>1, <1>2, <1>3, <1>9 DEF Activated, Whole, Same, IsSocket, Fields
<1>11. Whole(d)
  BY <1>8, <1>10, WindowFields, WholeWindowed
<1> QED  BY <1>9, <1>11

\* f_SetSendWindow
LEMMA WholeSetsWindow ==
  ASSUME NEW c, Whole(c), NEW n
  PROVE  Whole(SetSendWindow(c, n))
<1>1. PICK d : d = SetSendWindow(c, n)
  OBVIOUS
<1>2. Same(c, d, {"window", "windowPending", "tx"}) /\ d.tx \in {c.tx, WithWindow(c.tx, n)}
  BY <1>1 DEF SetSendWindow, Whole, Same, IsSocket, Fields
<1>3. TxOk(c.tx)
  BY WholeIs
<1>4. TxAs(c.tx, c.tx) /\ TxAs(c.tx, WithWindow(c.tx, n))
  BY <1>3, TxWindows
<1>5. TxAs(c.tx, d.tx)
  BY <1>2, <1>4
<1>6. Whole(d)
  BY <1>2, <1>5, WindowFields, WholeWindowed
<1> QED  BY <1>1, <1>6

\* fp_TryActivateCompletionIo and fp_StartReceiveStream
LEMMA WholeTriesActivate ==
  ASSUME NEW c, Whole(c), NEW a
  PROVE  Whole(TryActivate(c, a).c)
<1>1. PICK active : active = Activated(c)
  OBVIOUS
<1>2. Whole(active) /\ Whole(CheckBrokenState(active))
  BY <1>1, WholeActivates, WholeChecks
<1>3. TryActivate(c, a).c \in {c, active, CheckBrokenState(active)}
  BY <1>1 DEF TryActivate, StartReceiveStream
<1> QED  BY <1>2, <1>3

\* fp_CheckHandshake
LEMMA WholeChecksHandshake ==
  ASSUME NEW c, Whole(c), Hand(c), NEW a
  PROVE  Whole(CheckHandshake(c, a).c)
<1>1. PICK p : p = SendNothing(c)
  OBVIOUS
<1>2. PICK b : b = [a EXCEPT !.state = "Connected", !.todo = @ \cup {"Write"}]
  OBVIOUS
<1>3. Whole(p) /\ Whole(TryActivate(p, b).c)
  BY <1>1, WholeSendsNothing, WholeTriesActivate
<1>4. CheckHandshake(c, a).c \in {c, p, TryActivate(p, b).c}
  BY <1>1, <1>2 DEF CheckHandshake
<1> QED  BY <1>3, <1>4

-----------------------------------------------------------------------------
(* Completions and releases.                                               *)

\* The first job is taken, and the generation it is of changes.
LEMMA WholeTakes ==
  ASSUME NEW c, NEW d, Whole(c), Same(c, d, {"mail", "tx", "inFlight"}), c.mail # <<>>,
         d.mail = Tail(c.mail), NEW b, b = Head(c.mail).transfer,
         TxOk(d.tx), Left(d.tx) = Left(c.tx), HoldingBut(c.tx.out, d.tx.out, b),
         Head(c.mail).kind = "Completed" /\ b # 0 =>
           b \in DOMAIN d.tx.out /\ d.tx.out[b].pinned # 0 /\ d.tx.out[b].records = <<>>
  PROVE  Whole(d)
<1>1. IsSocket(c) /\ IsSocket(d) /\ TxOk(c.tx) /\ Ledger(c.tx.out, c.kernel, c.mail)
  BY WholeIs, SocketStays
<1>2. /\ d.wire = c.wire /\ d.room = c.room /\ d.sealed = c.sealed
      /\ d.failed = c.failed /\ d.kernel = c.kernel /\ d.ops = c.ops /\ d.held = c.held
  BY <1>1 DEF Same, IsSocket, Fields
<1>3. OnWire(d)
  BY ONLY <1>2, Whole(c) DEF Whole, OnWire
<1>4. ~lost => InOrder(d)
  BY ONLY <1>2, Whole(c), Left(d.tx) = Left(c.tx) DEF Whole, InOrder
<1>5. Generations(c.tx.out)
  BY <1>1, ArrangedIs DEF TxOk
<1>6. 0 \notin DOMAIN c.tx.out
  BY <1>5, DomainOf DEF Generations
<1>7. PICK out, new, kernel, mail :
        out = c.tx.out /\ new = d.tx.out /\ kernel = c.kernel /\ mail = c.mail
  OBVIOUS
<1>8. Ledger(new, kernel, Tail(mail))
  <2>1. 0 \notin DOMAIN out /\ Ledger(out, kernel, mail) /\ mail # <<>> /\ b = Head(mail).transfer
    BY ONLY <1>1, <1>6, <1>7, b = Head(c.mail).transfer, c.mail # <<>>
  <2>2. HoldingBut(out, new, b)
    BY ONLY <1>7, HoldingBut(c.tx.out, d.tx.out, b)
  <2>3. Head(mail).kind = "Completed" /\ b # 0 =>
           b \in DOMAIN new /\ new[b].pinned # 0 /\ new[b].records = <<>>
    BY <1>7
  <2> QED  BY ONLY SMTT(60), <2>1, <2>2, <2>3, LedgerGoes
<1>9. Ledger(d.tx.out, d.kernel, d.mail)
  BY <1>2, <1>7, <1>8
<1>10. c.room \in Nat /\ c.held \in Nat /\ c.failed = FALSE /\ c.sealed \in Seq(RecordKinds)
       /\ c.ops \in Seq(Operations)
  BY DEF Whole
<1> QED  BY ONLY TxOk(d.tx), <1>1, <1>2, <1>3, <1>4, <1>9, <1>10 DEF Whole

\* A job that is of no generation is taken.
LEMMA WholeTakesNone ==
  ASSUME NEW c, NEW d, Whole(c), c.mail # <<>>, Head(c.mail).transfer = 0,
         Same(c, d, {"mail"}), d.mail = Tail(c.mail)
  PROVE  Whole(d)
<1>1. d.tx = c.tx
  BY DEF Same, Whole, IsSocket, Fields
<1>2. Same(c, d, {"mail", "tx", "inFlight"})
  BY DEF Same
<1>3. HoldingBut(c.tx.out, d.tx.out, 0)
  BY <1>1 DEF HoldingBut
<1>4. TxOk(d.tx)
  BY <1>1, WholeIs
<1> QED  BY <1>1, <1>2, <1>3, <1>4, WholeTakes

\* f_SendCompleted: the generation is drained.
LEMMA WholeDrains ==
  ASSUME NEW c, NEW d, Whole(c), c.mail # <<>>, NEW b, b = Head(c.mail).transfer, b # 0,
         Same(c, d, {"mail", "tx", "inFlight"}), d.mail = Tail(c.mail), d.tx = SendDrained(c.tx, b)
  PROVE  Whole(d)
<1>1. TxOk(c.tx) /\ Ledger(c.tx.out, c.kernel, c.mail)
  BY WholeIs
<1>2. PICK tx, out, kernel, mail : tx = c.tx /\ out = c.tx.out /\ kernel = c.kernel /\ mail = c.mail
  OBVIOUS
<1>3. b \in DOMAIN out /\ out[b].pinned # 0
  BY <1>1, <1>2, LedgerFirst
<1>4. PICK e : e = SendDrained(tx, b)
  OBVIOUS
<1>5. /\ TxOk(e) /\ Left(e) = Left(tx) /\ HoldingBut(tx.out, e.out, b)
      /\ b \in DOMAIN e.out /\ e.out[b].pinned # 0 /\ e.out[b].records = <<>>
  BY <1>1, <1>2, <1>3, <1>4, TxDrains
<1>6. d.tx = e
  BY <1>2, <1>4
<1> QED  BY <1>2, <1>5, <1>6, WholeTakes

\* fp_ReleasePin
LEMMA WholeUnpins ==
  ASSUME NEW c, NEW d, Whole(c), c.mail # <<>>, NEW b, b = Head(c.mail).transfer, b # 0,
         Head(c.mail).kind = "Released",
         Same(c, d, {"mail", "tx"}), d.mail = Tail(c.mail), d.tx = ReleasePin(c.tx, b)
  PROVE  Whole(d)
<1>1. TxOk(c.tx) /\ Ledger(c.tx.out, c.kernel, c.mail)
  BY WholeIs
<1>2. PICK tx, out, kernel, mail : tx = c.tx /\ out = c.tx.out /\ kernel = c.kernel /\ mail = c.mail
  OBVIOUS
<1>3. b \in DOMAIN out /\ out[b].pinned # 0 /\ out[b].records = <<>>
  BY <1>1, <1>2, LedgerFirst
<1>4. PICK e : e = ReleasePin(tx, b)
  OBVIOUS
<1>5. TxOk(e) /\ Left(e) = Left(tx) /\ HoldingBut(tx.out, e.out, b)
  BY <1>1, <1>2, <1>3, <1>4, TxReleases
<1>6. d.tx = e /\ Head(c.mail).kind # "Completed"
  BY <1>2, <1>4
<1>7. Same(c, d, {"mail", "tx", "inFlight"})
  BY DEF Same
<1> QED  BY <1>2, <1>5, <1>6, <1>7, WholeTakes

\* f_ResolveSend of a transfer the platform carried to its end.
LEMMA WholeResolves ==
  ASSUME NEW c, Whole(c), c.mail # <<>>, NEW b, b = Head(c.mail).transfer, b # 0,
         NEW t, t = [c EXCEPT !.mail = Tail(@)], NEW ok, ok = TRUE
  PROVE  Whole(ResolveSend(t, b, ok).c)
<1> DEFINE counted == [t EXCEPT !.inFlight = @ - 1]
           Told(p) == [p EXCEPT !.held = 0]
           drained == [counted EXCEPT !.tx = SendDrained(@, b)]
           p == ResolveOpsForBuffer(drained, b)
           marked == IF CanBeginSend(p) THEN p ELSE [p EXCEPT !.wasFull = TRUE]
<1>0. IsSocket(c) /\ c.failed = FALSE
  BY DEF Whole
<1>1. PICK e : e = drained
  OBVIOUS
<1>2. IsSocket(t) /\ t.tx = c.tx /\ t.mail = Tail(c.mail) /\ Same(c, t, {"mail"}) /\ t.failed = FALSE
  BY <1>0 DEF Same, IsSocket, Fields
<1>3. Same(t, counted, {"inFlight"}) /\ IsSocket(counted) /\ counted.tx = t.tx /\ counted.mail = t.mail
  BY ONLY <1>2 DEF Same, IsSocket, Fields
<1>4. Same(counted, e, {"tx"}) /\ e.tx = SendDrained(counted.tx, b) /\ e.mail = counted.mail
  <2> HIDE DEF counted
  <2> QED  BY ONLY <1>1, <1>3 DEF Same, IsSocket, Fields
<1>5. Same(c, e, {"mail", "tx", "inFlight"})
  <2> HIDE DEF counted
  <2> QED  BY ONLY <1>2, <1>3, <1>4 DEF Same
<1>6. e.mail = Tail(c.mail) /\ e.tx = SendDrained(c.tx, b)
  <2> HIDE DEF counted
  <2> QED  BY ONLY <1>2, <1>3, <1>4
<1>7. Whole(e)
  BY <1>5, <1>6, WholeDrains
<1>8. PICK r : r = p
  OBVIOUS
<1>9. r = ResolveOpsForBuffer(e, b)
  BY <1>1, <1>8
<1>10. Whole(r)
  BY <1>7, <1>9, WholeResolvesOps
<1>11. PICK m : m = IF CanBeginSend(r) THEN r ELSE [r EXCEPT !.wasFull = TRUE]
  OBVIOUS
<1>12. m = marked
  BY <1>8, <1>11
<1>13. Whole(m)
  <2>1. PICK w : w = [r EXCEPT !.wasFull = TRUE]
    OBVIOUS
  <2>2. Same(r, w, {"wasFull"})
    BY ONLY <1>10, <2>1 DEF Whole, Same, IsSocket, Fields
  <2>3. {"wasFull"} \cap Flow = {}
    BY DEF Flow
  <2>4. Whole(w)
    BY ONLY <1>10, <2>2, <2>3, WholeSame
  <2> QED  BY ONLY <1>10, <1>11, <2>1, <2>4
<1>14. ASSUME NEW x, Whole(x) PROVE Whole(Told(x))
  <2>1. PICK y : y = Told(x)
    OBVIOUS
  <2>2. Same(x, y, {"ops", "held"}) /\ y.ops = x.ops /\ y.held = 0
    BY ONLY <1>14, <2>1 DEF Whole, Same, IsSocket, Fields
  <2>3. y.ops \in Seq(Operations) /\ y.held \in Nat
    BY ONLY <1>14, <2>2 DEF Whole
  <2>4. Whole(y)
    BY ONLY SMTT(60), <1>14, <2>2, <2>3, WholeOpsOnly
  <2> QED  BY <2>1, <2>4
<1>15. ResolveSend(t, b, ok).c \in {CheckBrokenState(Told(p)), marked, MaybeShut(t, Told(marked))}
  <2>1. CASE Broken(p)
    <3>1. ResolveSend(t, b, ok).c = CheckBrokenState(Told(p))
      BY <1>2, <2>1 DEF ResolveSend
    <3> QED  BY <3>1
  <2>2. CASE ~Broken(p)
    <3>1. ResolveSend(t, b, ok) =
            IF HasPendingOutput(marked) THEN [c |-> marked, over |-> FALSE, n |-> 0]
            ELSE [c |-> MaybeShut(t, Told(marked)), over |-> TRUE, n |-> marked.held]
      BY <1>2, <2>2 DEF ResolveSend, MaybeShut
    <3> HIDE DEF marked, p, Told
    <3>2. PICK x, y, q : /\ x = marked /\ y = MaybeShut(t, Told(marked))
                         /\ q = ResolveSend(t, b, ok)
      OBVIOUS
    <3>3. q = IF HasPendingOutput(x) THEN [c |-> x, over |-> FALSE, n |-> 0]
              ELSE [c |-> y, over |-> TRUE, n |-> x.held]
      BY ONLY <3>1, <3>2
    <3>4. q.c \in {x, y}
      BY ONLY <3>3
    <3> QED  BY ONLY SMTT(60), <3>2, <3>4
  <2> QED  BY <2>1, <2>2
<1> HIDE DEF p, marked, Told
<1>16. ResolveSend(t, b, ok).c \in {CheckBrokenState(Told(r)), m, MaybeShut(t, Told(m))}
  BY <1>8, <1>12, <1>15
<1>17. Whole(Told(r)) /\ Whole(Told(m))
  BY <1>10, <1>13, <1>14
<1>18. Whole(CheckBrokenState(Told(r)))
  BY <1>17, WholeChecks
<1>19. Whole(MaybeShut(t, Told(m)))
  BY <1>17, WholeMaybeShuts
<1> QED  BY <1>13, <1>16, <1>18, <1>19

\* f_ResolveSendRelease
LEMMA WholeResolvesRelease ==
  ASSUME NEW c, Whole(c), c.mail # <<>>, NEW b, b = Head(c.mail).transfer, b # 0,
         Head(c.mail).kind = "Released", NEW t, t = [c EXCEPT !.mail = Tail(@)]
  PROVE  Whole(ResolveSendRelease(t, b))
<1>0. IsSocket(c)
  BY DEF Whole
<1>1. IsSocket(t) /\ t.tx = c.tx /\ t.mail = Tail(c.mail) /\ Same(c, t, {"mail"})
  BY <1>0 DEF Same, IsSocket, Fields
<1>2. PICK e : e = [t EXCEPT !.tx = ReleasePin(@, b)]
  OBVIOUS
<1>3. Same(t, e, {"tx"}) /\ e.tx = ReleasePin(t.tx, b) /\ e.mail = t.mail
  BY ONLY <1>1, <1>2 DEF Same, IsSocket, Fields
<1>4. Same(c, e, {"mail", "tx"})
  BY ONLY <1>1, <1>3 DEF Same
<1>5. e.mail = Tail(c.mail) /\ e.tx = ReleasePin(c.tx, b)
  BY ONLY <1>1, <1>3
<1>6. Whole(e)
  BY <1>4, <1>5, WholeUnpins
<1>7. PICK r : r = ReleaseOpsForBuffer(e, b)
  OBVIOUS
<1>8. Whole(r) /\ TxOk(r.tx)
  BY <1>6, <1>7, WholeReleasesOps, WholeIs
<1>9. PICK w : w = [r EXCEPT !.windowPending = FALSE, !.tx = WithWindow(@, t.window)]
  OBVIOUS
<1>10. Same(r, w, {"windowPending", "tx"}) /\ w.tx = WithWindow(r.tx, t.window)
  BY ONLY <1>8, <1>9 DEF Whole, Same, IsSocket, Fields
<1>11. TxAs(r.tx, w.tx)
  BY ONLY <1>8, <1>10, TxWindows
<1>12. {"windowPending", "tx"} \subseteq Fields \ (Flow \ {"tx"})
  BY DEF Fields, Flow
<1>13. Whole(w)
  BY ONLY <1>8, <1>10, <1>11, <1>12, WholeWindowed
<1>14. ResolveSendRelease(t, b) \in {r, w}
  BY <1>2, <1>7, <1>9 DEF ResolveSendRelease
<1> QED  BY <1>8, <1>13, <1>14

-----------------------------------------------------------------------------
(* The receive stream.                                                     *)

LEMMA WholeRx ==
  ASSUME NEW c, Whole(c), NEW rx
  PROVE  Whole([c EXCEPT !.rx = rx])
<1>1. Same(c, [c EXCEPT !.rx = rx], {"rx"})
  BY DEF Whole, Same, IsSocket, Fields
<1> QED  BY <1>1, ApartFromFlow, WholeSame

\* f_ResolveHeld
LEMMA WholeResolvesHeld ==
  ASSUME stream \in Seq(RecordKinds), NEW c, Whole(c), NEW room
  PROVE  Whole(ResolveHeld(c, room).c)
<1>1. PICK d : d = TryOpenInto(c, room).c
  OBVIOUS
<1>2. Whole(d) /\ Whole(CheckBrokenState(d))
  BY <1>1, WholeTryOpens, WholeChecks
<1>3. ResolveHeld(c, room).c \in {c, CheckBrokenState(d)}
  BY <1>1 DEF ResolveHeld
<1> QED  BY <1>2, <1>3

\* f_ResolveReceiveSegment
LEMMA WholeResolvesReceive ==
  ASSUME stream \in Seq(RecordKinds), NEW c, Whole(c), NEW segment, NEW room
  PROVE  Whole(ResolveReceiveSegment(c, segment, room).c)
<1>1. PICK a : a = [c EXCEPT !.rx = AppendSegment(@, segment.data)]
  OBVIOUS
<1>2. PICK q : q = [c EXCEPT !.rx = ClearCipherQueue(@)]
  OBVIOUS
<1>3. Whole(a) /\ Whole(q)
  BY <1>1, <1>2, WholeRx
<1>4. PICK b : b = IF segment.kind = "Data" THEN a ELSE c
  OBVIOUS
<1>5. Whole(b)
  BY <1>3, <1>4
<1>6. PICK d : d = CheckBrokenState(FlushPending(TryOpenInto(b, room).c))
  OBVIOUS
<1>7. Whole(d)
  BY <1>5, <1>6, WholeTryOpens, WholeFlushesPending, WholeChecks
<1>8. PICK e : e = [d EXCEPT !.rx = CompactIfStalled(@)]
  OBVIOUS
<1>9. Whole(e)
  BY <1>7, <1>8, WholeRx
<1>10. ResolveReceiveSegment(c, segment, room).c \in {CheckBrokenState(q), d, e}
  BY <1>1, <1>2, <1>4, <1>6, <1>8 DEF ResolveReceiveSegment
<1>11. Whole(CheckBrokenState(q))
  BY <1>3, WholeChecks
<1> QED  BY <1>7, <1>9, <1>10, <1>11

-----------------------------------------------------------------------------
(* The handlers: the output of a socket stays whole while its actor has    *)
(* it, and what is on the wire stays in order behind that.                 *)

Vital(a) == "valid" \in DOMAIN a
\* What a step may leave of the socket.
Sails(c, a) == IsSocket(c) /\ OnWire(c) /\ (a.valid => Whole(c)) /\ Vital(a)
Stays == /\ \E c, a : s' = c /\ actor' = a /\ Sails(c, a)
         /\ lost' = lost \/ lost' = TRUE

LEMMA WholeOnWire ==
  ASSUME NEW c, Whole(c)
  PROVE  IsSocket(c) /\ OnWire(c)
BY DEF Whole

LEMMA StepStays ==
  ASSUME NEW c, NEW a, Sails(c, a), Step(c, a)
  PROVE  Stays
BY DEF Step, Stays

LEMMA WholeStays ==
  ASSUME NEW c, NEW a, Whole(c), Vital(a), Step(c, a)
  PROVE  Stays
<1>1. Sails(c, a)
  BY WholeOnWire DEF Sails
<1> QED  BY <1>1, StepStays

\* What goes on beside the wire.
LEMMA WireSame ==
  ASSUME NEW c, NEW d, NEW F, IsSocket(c), OnWire(c), Same(c, d, F), "wire" \notin F
  PROVE  IsSocket(d) /\ OnWire(d)
<1>1. IsSocket(d) /\ d.wire = c.wire
  BY SocketStays DEF Same, IsSocket, Fields
<1> QED  BY <1>1 DEF OnWire

LEMMA WireApart == "wire" \notin Submitting /\ "wire" \notin {"mail"}
BY DEF Submitting

LEMMA FatalStays ==
  ASSUME NEW c, NEW a, IsSocket(c), OnWire(c), Vital(a), Fatal(c, a)
  PROVE  Stays
<1>1. PICK b : Step(Close(c), b) /\ b = [At(a, "Idle") EXCEPT !.state = "Disconnected", !.valid = FALSE, !.todo = {}]
  BY DEF Fatal
<1>2. b.valid = FALSE /\ Vital(b)
  BY <1>1 DEF At, Vital
<1>3. IsSocket(Close(c)) /\ OnWire(Close(c))
  BY CloseSame, WireSame, WireApart
<1>4. Sails(Close(c), b)
  BY <1>2, <1>3 DEF Sails
<1> QED  BY <1>1, <1>4, StepStays

LEMMA WholeFatal ==
  ASSUME NEW c, NEW a, Whole(c), Vital(a), Fatal(c, a)
  PROVE  Stays
BY WholeOnWire, FatalStays

\* A submission or a continuation, taken or not.
LEMMA SubmittedStays ==
  ASSUME NEW r, NEW a, NEW n, IsSocket(r.c), OnWire(r.c), r.taken \in BOOLEAN,
         r.taken = TRUE => Whole(r.c), Vital(a), Submitted(r, a, n)
  PROVE  Stays
<1>1. CASE r.taken = TRUE
  <2>1. PICK b : b = [a EXCEPT !.inFlight = @ + 1, !.submitted = @ + n]
    OBVIOUS
  <2>2. Step(r.c, b) /\ Vital(b)
    BY <1>1, <2>1 DEF Submitted, Vital
  <2> QED  BY <1>1, <2>2, WholeStays
<1>2. CASE r.taken = FALSE
  <2>1. Fatal(r.c, a)
    BY <1>2 DEF Submitted
  <2> QED  BY <2>1, FatalStays
<1> QED  BY <1>1, <1>2

LEMMA TakenIs ==
  ASSUME NEW r, NEW w, NEW t \in BOOLEAN, r = [c |-> w, taken |-> t]
  PROVE  r.taken \in BOOLEAN
OBVIOUS

LEMMA PinnedTaken ==
  ASSUME NEW c, NEW buffer, NEW records, NEW takes
  PROVE  SubmitPinnedSend(c, buffer, records, takes).taken \in BOOLEAN
<1>1. PICK x : x = SubmitPinnedSend(c, buffer, records, takes)
  OBVIOUS
<1>2. PICK p, q, r :
         x \in {[c |-> p, taken |-> TRUE], [c |-> q, taken |-> FALSE], [c |-> r, taken |-> FALSE]}
  BY <1>1 DEF SubmitPinnedSend
<1>3. x = [c |-> p, taken |-> TRUE] \/ x = [c |-> q, taken |-> FALSE] \/ x = [c |-> r, taken |-> FALSE]
  BY ONLY <1>2
<1>4. x.taken \in BOOLEAN
  BY ONLY <1>3, TRUE \in BOOLEAN, FALSE \in BOOLEAN, TakenIs
<1> QED  BY <1>1, <1>4

LEMMA CarryTaken ==
  ASSUME NEW c, NEW submission, NEW takes, NEW r \in CarrySend(c, submission, takes)
  PROVE  r.taken \in BOOLEAN
<1> DEFINE Waits(w) ==
        IF submission THEN ParkSendOperation(w)
        ELSE Post([w EXCEPT !.held = 0], <<Completed(None, c.held, TRUE), Released(None)>>)
      Carried(w, next) ==
        IF next = None THEN [c |-> Waits(w), taken |-> TRUE]
        ELSE SubmitPinnedSend([w EXCEPT !.tx = BeginSend(@)], next, w.tx.out[next].records, takes)
<1>1. PICK tx : r = Carried([c EXCEPT !.tx = tx], NextBeginSend([c EXCEPT !.tx = tx]))
  BY DEF CarrySend
<1>5. PICK w : w = [c EXCEPT !.tx = tx]
  OBVIOUS
<1>6. PICK next : next = NextBeginSend(w)
  OBVIOUS
<1>2. r = Carried(w, next)
  BY <1>1, <1>5, <1>6
<1> HIDE DEF Waits
<1>3. CASE next = None
  <2>1. r = [c |-> Waits(w), taken |-> TRUE]
    BY <1>2, <1>3
  <2> QED  BY ONLY <2>1
<1>4. CASE next # None
  <2>1. r = SubmitPinnedSend([w EXCEPT !.tx = BeginSend(@)], next, w.tx.out[next].records, takes)
    BY <1>2, <1>4
  <2>2. PICK v, records : r = SubmitPinnedSend(v, next, records, takes)
    BY <2>1
  <2> QED  BY ONLY <2>2, PinnedTaken
<1> QED  BY <1>3, <1>4

LEMMA ContinueTaken ==
  ASSUME NEW c, NEW takes, NEW r \in ContinueSend(c, takes)
  PROVE  r.taken \in BOOLEAN
<1>1. r = Refused(c) \/ r \in CarrySend(c, FALSE, takes)
  BY DEF ContinueSend
<1>2. Refused(c).taken = FALSE
  BY DEF Refused
<1> QED  BY <1>1, <1>2, CarryTaken

LEMMA SubmitTaken ==
  ASSUME NEW c, NEW n, NEW k, NEW takes, NEW r \in SubmitSend(c, n, k, takes)
  PROVE  r.taken \in BOOLEAN
<1>1. (\E w : r = [c |-> w, taken |-> TRUE]) \/ (\E w : r = [c |-> w, taken |-> FALSE])
        \/ \E w : r \in CarrySend(w, TRUE, takes)
  <2>1. CASE Refuses(c)
    BY <2>1 DEF SubmitSend, Refused
  <2>2. CASE ~Refuses(c) /\ k = 0
    BY <2>2 DEF SubmitSend
  <2>3. CASE ~Refuses(c) /\ k # 0
    BY <2>3 DEF SubmitSend
  <2> QED  BY <2>1, <2>2, <2>3
<1>3. ASSUME NEW w, r \in CarrySend(w, TRUE, takes) PROVE r.taken \in BOOLEAN
  BY ONLY <1>3, CarryTaken
<1> QED  BY ONLY <1>1, TakenIs, <1>3, TRUE \in BOOLEAN, FALSE \in BOOLEAN

LEMMA ContinueStays ==
  ASSUME NEW c, NEW a, Whole(c), Vital(a), NEW takes, NEW r \in ContinueSend(c, takes),
         Submitted(r, a, 0)
  PROVE  Stays
<1>1. IsSocket(c) /\ OnWire(c)
  BY WholeOnWire
<1>2. Same(c, r.c, Submitting)
  BY <1>1, ContinueSendSame
<1>3. IsSocket(r.c) /\ OnWire(r.c)
  BY <1>1, <1>2, WireSame, WireApart
<1>4. r.taken \in BOOLEAN /\ (r.taken = TRUE => Whole(r.c))
  BY ContinueTaken, WholeContinuesSend
<1> QED  BY <1>3, <1>4, SubmittedStays

\* fp_DrainSocketOutput
LEMMA DrainStays ==
  ASSUME NEW c, NEW a, Whole(c), Vital(a), DrainSocketOutput(c, a)
  PROVE  Stays
<1>1. (\E takes \in Takes : \E r \in ContinueSend(c, takes) : Submitted(r, a, 0)) \/ Step(c, a)
  BY DEF DrainSocketOutput
<1> QED  BY <1>1, WholeStays, ContinueStays

LEMMA VitalWith ==
  ASSUME NEW a, Vital(a), NEW call
  PROVE  Vital(At(a, call))
BY DEF Vital, At

LEMMA VitalActivates ==
  ASSUME NEW a, Vital(a), NEW c
  PROVE  Vital(TryActivate(c, a).a)
<1>1. PICK b : b = [a EXCEPT !.stream = "Active", !.drain = TRUE]
  OBVIOUS
<1>2. TryActivate(c, a).a \in {a, b}
  BY <1>1 DEF TryActivate, StartReceiveStream
<1>3. Vital(b)
  BY <1>1 DEF Vital
<1> QED  BY <1>2, <1>3

LEMMA VitalChecks ==
  ASSUME NEW a, Vital(a), NEW c
  PROVE  Vital(CheckHandshake(c, a).a)
<1>1. PICK p : p = SendNothing(c)
  OBVIOUS
<1>2. PICK b : b = [a EXCEPT !.state = "Connected", !.todo = @ \cup {"Write"}]
  OBVIOUS
<1>3. CheckHandshake(c, a).a \in {a, TryActivate(p, b).a}
  BY <1>1, <1>2 DEF CheckHandshake
<1>4. Vital(b)
  BY <1>2 DEF Vital
<1> QED  BY <1>3, <1>4, VitalActivates

\* A socket whose output is whole, its handshake under way, of an actor that has it.
Afloat == Whole(s) /\ Hand(s) /\ Configured /\ Vital(actor)

LEMMA StreamIs ==
  ASSUME Configured
  PROVE  stream \in Seq(RecordKinds)
BY ScenarioIs DEF Configured

LEMMA StartStays ==
  ASSUME Afloat, Start
  PROVE  Stays
<1>1. PICK c : Step(c, At(actor, "Idle")) /\ c \in {AddTCPState(s, {"Read"}), HandleHandshake(s).c}
  BY DEF Start
<1>2. Whole(AddTCPState(s, {"Read"})) /\ Whole(HandleHandshake(s).c)
  BY WholeAdds, WholeShakes DEF Afloat
<1>3. Vital(At(actor, "Idle"))
  BY VitalWith DEF Afloat
<1> QED  BY <1>1, <1>2, <1>3, WholeStays

LEMMA ProcessStateStays ==
  ASSUME Afloat, ProcessState
  PROVE  Stays
<1>1. PICK d : d = [s EXCEPT !.events = {}]
  OBVIOUS
<1>2. PICK call, todo, deferred : Step(d, [At(actor, call) EXCEPT !.todo = todo, !.deferred = deferred])
  BY <1>1 DEF ProcessState
<1>3. PICK a : a = [At(actor, call) EXCEPT !.todo = todo, !.deferred = deferred]
  OBVIOUS
<1>4. Vital(a)
  BY <1>3 DEF Afloat, Vital, At
<1>5. Same(s, d, {"events"})
  BY <1>1 DEF Afloat, Whole, IsSocket, Same, Fields
<1>6. Whole(d)
  BY <1>5, ApartFromFlow, WholeSame DEF Afloat
<1> QED  BY <1>2, <1>3, <1>4, <1>6, WholeStays

LEMMA ReceiveOnceStays ==
  ASSUME Afloat, ReceiveOnce
  PROVE  Stays
<1>0. Whole(s) /\ Hand(s) /\ Configured /\ Vital(actor)
  BY DEF Afloat
<1>1. \/ Step(TryActivate(s, actor).c, At(TryActivate(s, actor).a, "Rest"))
      \/ \E room : Fatal(Receive(s, room).c, actor)
      \/ \E room, call : Step(CheckHandshake(Receive(s, room).c, actor).c,
                              At(CheckHandshake(Receive(s, room).c, actor).a, call))
  BY DEF ReceiveOnce
<1>2. CASE Step(TryActivate(s, actor).c, At(TryActivate(s, actor).a, "Rest"))
  <2>1. Whole(TryActivate(s, actor).c) /\ Vital(At(TryActivate(s, actor).a, "Rest"))
    BY <1>0, WholeTriesActivate, VitalActivates, VitalWith
  <2> QED  BY <1>2, <2>1, WholeStays
<1>3. ASSUME NEW room, Fatal(Receive(s, room).c, actor) PROVE Stays
  <2>1. Whole(Receive(s, room).c)
    BY <1>0, WholeReceives
  <2> QED  BY <1>0, <1>3, <2>1, WholeFatal
<1>4. ASSUME NEW room, NEW call, NEW r, r = Receive(s, room).c,
             Step(CheckHandshake(r, actor).c, At(CheckHandshake(r, actor).a, call))
      PROVE  Stays
  <2>1. Whole(r) /\ Hand(r)
    BY <1>0, <1>4, WholeReceives, ReceiveIs
  <2>2. Whole(CheckHandshake(r, actor).c)
    BY <2>1, WholeChecksHandshake
  <2>3. Vital(At(CheckHandshake(r, actor).a, call))
    BY <1>0, VitalChecks, VitalWith
  <2> QED  BY <1>4, <2>2, <2>3, WholeStays
<1> QED  BY <1>1, <1>2, <1>3, <1>4

LEMMA ProcessRestStays ==
  ASSUME Afloat, ProcessRest
  PROVE  Stays
<1>1. PICK a : a = [At(actor, "Sending") EXCEPT !.todo = {}, !.did = FALSE]
  OBVIOUS
<1>2. Fatal(s, actor) \/ Step(s, a) \/ Step(s, At(actor, "Idle"))
  BY <1>1 DEF ProcessRest
<1>3. Vital(a) /\ Vital(At(actor, "Idle")) /\ Vital(actor) /\ Whole(s)
  BY <1>1 DEF Afloat, Vital, At
<1> QED  BY <1>2, <1>3, WholeStays, WholeFatal

LEMMA SendHandshakeStays ==
  ASSUME Afloat, SendHandshake
  PROVE  Stays
<1>0. Whole(s) /\ Hand(s) /\ Configured /\ Vital(actor)
  BY DEF Afloat
<1>1. PICK d, b : d = CheckHandshake(s, actor).c /\ b = CheckHandshake(s, actor).a
  OBVIOUS
<1>2. PICK e : e = At([b EXCEPT !.todo = {}], "Sending")
  OBVIOUS
<1>3. Step(SendNothing(d), At(b, "Idle")) \/ Step(d, e)
  BY <1>1, <1>2 DEF SendHandshake
<1>4. Whole(d) /\ Hand(d) /\ Vital(b)
  BY <1>0, <1>1, WholeChecksHandshake, CheckHandshakeHand, VitalChecks
<1>5. Whole(SendNothing(d))
  BY <1>4, WholeSendsNothing
<1>6. Vital(e) /\ Vital(At(b, "Idle"))
  BY <1>2, <1>4 DEF Vital, At
<1> QED  BY <1>3, <1>4, <1>5, <1>6, WholeStays

LEMMA SendReadyStays ==
  ASSUME Afloat, SendReady
  PROVE  Stays
<1>0. Whole(s) /\ Hand(s) /\ Configured /\ Vital(actor)
  BY DEF Afloat
<1>1. CASE Queued(actor) > 0
  <2> DEFINE v(n) == SendVectored(s, n)
             a(n) == [At(actor, IF v(n).sent = n THEN "Sending" ELSE "Sent") EXCEPT
                        !.credited = @ + v(n).sent, !.did = TRUE]
  <2>0. \E n \in 1 .. SendMost :
          IF v(n).is = "Thrown" THEN Fatal(v(n).c, actor) ELSE Step(v(n).c, a(n))
    <3>1. ~(Queued(actor) = 0)
      BY <1>1
    <3> QED  BY <1>1, <3>1, Zenon DEF SendReady
  <2>2. ASSUME NEW n PROVE Vital(a(n))
    <3> HIDE DEF v
    <3> QED  BY <1>0 DEF Vital, At
  <2> HIDE DEF v, a
  <2>1. PICK n \in 1 .. SendMost : Fatal(v(n).c, actor) \/ Step(v(n).c, a(n))
    BY <2>0
  <2>3. n \in Nat
    BY TlsAssumption
  <2>4. Whole(v(n).c)
    BY <1>0, <2>3, WholeSendsVectored DEF v
  <2> QED  BY <1>0, <2>1, <2>2, <2>4, WholeStays, WholeFatal
<1>2. CASE ~(Queued(actor) > 0)
  <2>1. Step(IF actor.did THEN s ELSE SendNothing(s), At(actor, "Sent"))
    BY <1>2 DEF SendReady
  <2>2. Step(s, At(actor, "Sent")) \/ Step(SendNothing(s), At(actor, "Sent"))
    BY <2>1
  <2>3. Whole(SendNothing(s)) /\ Vital(At(actor, "Sent"))
    BY <1>0, WholeSendsNothing, VitalWith
  <2> QED  BY <1>0, <2>2, <2>3, WholeStays
<1> QED  BY <1>1, <1>2

LEMMA AskedWhole ==
  ASSUME Afloat, NEW c \in Asked
  PROVE  Whole(c)
<1>1. c = s \/ c \in AskedWindow(s)
  BY DEF Asked
<1> QED  BY <1>1, WholeAsks DEF Afloat

LEMMA SubmitOnceStays ==
  ASSUME Afloat, SubmitOnce
  PROVE  Stays
<1>1. PICK n \in 1 .. SendMost, c \in Asked, takes \in Takes :
        \E k \in (IF "SealFails" \in left THEN 0 .. n ELSE {n}) :
          \E r \in SubmitSend(c, n, k, takes) : Submitted(r, actor, k)
  BY DEF SubmitOnce
<1>2. PICK k \in (IF "SealFails" \in left THEN 0 .. n ELSE {n}) :
        \E r \in SubmitSend(c, n, k, takes) : Submitted(r, actor, k)
  BY <1>1
<1>3. PICK r \in SubmitSend(c, n, k, takes) : Submitted(r, actor, k)
  BY <1>2
<1>4. n \in Nat /\ k \in Nat
  BY <1>1, <1>2, TlsAssumption
<1>5. Whole(c) /\ IsSocket(c) /\ OnWire(c)
  BY AskedWhole, WholeOnWire
<1>6. Same(c, r.c, Submitting)
  BY <1>5, SubmitSendSame
<1>7. IsSocket(r.c) /\ OnWire(r.c)
  BY <1>5, <1>6, WireSame, WireApart
<1>8. r.taken \in BOOLEAN /\ (r.taken = TRUE => Whole(r.c))
  BY <1>4, <1>5, SubmitTaken, WholeSubmitsVectored
<1> QED  BY <1>3, <1>7, <1>8, SubmittedStays DEF Afloat

LEMMA StopSubmittingStays ==
  ASSUME Afloat, StopSubmitting
  PROVE  Stays
<1>1. PICK c \in Asked : Step(c, At(actor, "Sent"))
  BY DEF StopSubmitting
<1>2. Vital(At(actor, "Sent"))
  BY VitalWith DEF Afloat
<1> QED  BY <1>1, <1>2, AskedWhole, WholeStays

LEMMA ShutDownStays ==
  ASSUME Whole(s), NEW a, Vital(a), ShutDown(s, a)
  PROVE  Stays
<1>1. PICK b : b = [a EXCEPT !.shutdownCalled = TRUE]
  OBVIOUS
<1>2. DrainSocketOutput(Shutdown(s), b) /\ Vital(b)
  BY <1>1 DEF ShutDown, Vital
<1> QED  BY <1>2, WholeShuts, DrainStays

LEMMA FinishSendStays ==
  ASSUME Afloat, FinishSend
  PROVE  Stays
<1>1. ShutDown(s, At(actor, "Draining")) \/ DrainSocketOutput(s, At(actor, "Draining"))
  BY DEF FinishSend
<1>2. Vital(At(actor, "Draining")) /\ Whole(s)
  BY VitalWith DEF Afloat
<1> QED  BY <1>1, <1>2, ShutDownStays, DrainStays

LEMMA FinishDrainStays ==
  ASSUME Afloat, FinishDrain
  PROVE  Stays
<1>1. DrainSocketOutput(s, At(actor, "Idle"))
  BY DEF FinishDrain
<1>2. Vital(At(actor, "Idle")) /\ Whole(s)
  BY VitalWith DEF Afloat
<1> QED  BY <1>1, <1>2, DrainStays

LEMMA AppClosesStays ==
  ASSUME Afloat, AppCloses
  PROVE  Stays
<1>1. PICK a : a = [actor EXCEPT !.state = "Disconnected"]
  OBVIOUS
<1>2. ShutDown(s, a) \/ Step(s, a)
  BY <1>1 DEF AppCloses
<1>3. Vital(a) /\ Whole(s)
  BY <1>1 DEF Afloat, Vital
<1> QED  BY <1>2, <1>3, ShutDownStays, WholeStays

LEMMA AppSetsWindowStays ==
  ASSUME Afloat, AppSetsWindow
  PROVE  Stays
<1>1. PICK n : Step(SetSendWindow(s, n), actor)
  BY DEF AppSetsWindow
<1> QED  BY <1>1, WholeSetsWindow, WholeStays DEF Afloat

LEMMA ReceiveSegmentStays ==
  ASSUME Afloat, ReceiveSegment
  PROVE  Stays
<1>1. PICK room, segment, call, is, fails, kept :
         Step(ResolveReceiveSegment(s, segment, room).c,
              [At(actor, call) EXCEPT !.segment = is, !.fails = fails, !.stream = kept])
  BY ZenonT(60) DEF ReceiveSegment
<1>2. PICK a : a = [At(actor, call) EXCEPT !.segment = is, !.fails = fails, !.stream = kept]
  OBVIOUS
<1>3. Vital(a)
  BY <1>2 DEF Afloat, Vital, At
<1>4. Whole(ResolveReceiveSegment(s, segment, room).c)
  BY StreamIs, WholeResolvesReceive DEF Afloat
<1> QED  BY <1>1, <1>2, <1>3, <1>4, WholeStays

LEMMA ReceiveHeldStays ==
  ASSUME Afloat, ReceiveHeld
  PROVE  Stays
<1>1. PICK room, call : Step(ResolveHeld(s, room).c, At(actor, call))
  BY DEF ReceiveHeld
<1>2. Whole(ResolveHeld(s, room).c) /\ Vital(At(actor, call))
  BY StreamIs, WholeResolvesHeld, VitalWith DEF Afloat
<1> QED  BY <1>1, <1>2, WholeStays

LEMMA DrainHeldStays ==
  ASSUME Afloat, DrainHeldInput
  PROVE  Stays
<1>1. PICK a : Step(s, a) /\ a = [At(actor, "Holding") EXCEPT !.segment = "Data", !.fails = FALSE, !.drain = FALSE]
  BY DEF DrainHeldInput
<1>2. Vital(a) /\ Whole(s)
  BY <1>1 DEF Afloat, Vital, At
<1> QED  BY <1>1, <1>2, WholeStays

LEMMA EndInputStays ==
  ASSUME Afloat, EndInput
  PROVE  Stays
<1>1. PICK kept, e : e = [actor EXCEPT !.stream = kept]
        /\ \/ Fatal(s, e) \/ Step(s, [At(e, "Rest") EXCEPT !.deferred = FALSE, !.todo = {"Closed"}])
           \/ Step(s, At(e, "Idle")) \/ DrainSocketOutput(s, At(actor, "Idle"))
  BY DEF EndInput
<1>2. PICK d : d = [At(e, "Rest") EXCEPT !.deferred = FALSE, !.todo = {"Closed"}]
  OBVIOUS
<1>3. Whole(s) /\ Vital(e) /\ Vital(At(e, "Idle")) /\ Vital(At(actor, "Idle")) /\ Vital(d)
  BY <1>1, <1>2 DEF Afloat, Vital, At
<1> QED  BY <1>1, <1>2, <1>3, WholeStays, WholeFatal, DrainStays

\* A job that its actor, which let go of the socket, only counts.
LEMMA DropsStays ==
  ASSUME Sails(s, actor), ~actor.valid, NEW a, Vital(a), ~a.valid,
         NEW c, c = [s EXCEPT !.mail = Tail(@)], Step(c, a)
  PROVE  Stays
<1>1. IsSocket(s) /\ OnWire(s)
  BY DEF Sails
<1>2. Same(s, c, {"mail"})
  BY <1>1 DEF IsSocket, Same, Fields
<1>3. IsSocket(c) /\ OnWire(c)
  BY <1>1, <1>2, WireSame, WireApart
<1> QED  BY <1>3, StepStays DEF Sails

LEMMA FirstJob ==
  ASSUME NEW c, Whole(c), c.mail # <<>>
  PROVE  Head(c.mail) \in Jobs
<1>1. c.mail \in Seq(Jobs)
  BY DEF Whole, Ledger, MailOk
<1>2. PICK m \in Seq(Jobs) : m = c.mail
  BY <1>1
<1> QED  BY <1>2, TailPlaces

\* f_ResolveSend of a transfer that failed.
LEMMA ResolveFails ==
  ASSUME NEW c, IsSocket(c), OnWire(c), NEW transfer, NEW ok, ok = FALSE
  PROVE  LET r == ResolveSend(c, transfer, ok) IN r.over = TRUE /\ IsSocket(r.c) /\ OnWire(r.c)
<1>1. PICK e : e = [[[c EXCEPT !.inFlight = @ - 1] EXCEPT !.failed = TRUE] EXCEPT !.held = 0]
  OBVIOUS
<1>2. Same(c, e, {"inFlight", "failed", "held"})
  BY <1>1 DEF IsSocket, Same, Fields
<1>3. "wire" \notin {"inFlight", "failed", "held"} /\ "wire" \notin {"ops", "mail"}
  OBVIOUS
<1>4. IsSocket(e) /\ OnWire(e)
  BY <1>2, <1>3, WireSame
<1>5. PICK x : x = FailAllSendOperations(e)
  OBVIOUS
<1>6. IsSocket(x) /\ OnWire(x)
  BY <1>3, <1>4, <1>5, FailAllSame, WireSame
<1>7. ResolveSend(c, transfer, ok) = [c |-> x, over |-> TRUE, n |-> 0]
  BY <1>1, <1>5 DEF ResolveSend
<1> QED  BY <1>6, <1>7

\* fp_SendCompleted
LEMMA SendCompletedStays ==
  ASSUME Sails(s, actor), SendCompleted
  PROVE  Stays
<1> DEFINE job == Head(s.mail)
           c == [s EXCEPT !.mail = Tail(@)]
           b == [actor EXCEPT !.inFlight = @ - 1]
           r == IF job.transfer = None THEN [c |-> c, over |-> TRUE, n |-> job.n]
                ELSE ResolveSend(c, job.transfer, job.ok)
           d(n) == [At([b EXCEPT !.credited = @ + n, !.submitted = @ - n], "Sending") EXCEPT !.did = FALSE]
<1>0. Vital(actor) /\ IsSocket(s) /\ OnWire(s)
  BY DEF Sails
<1>1. Vital(b) /\ b.valid = actor.valid /\ \A n : Vital(d(n))
  BY <1>0 DEF Vital, At
<1>2. CASE ~actor.valid
  <2>1. Step(c, b)
    BY <1>2 DEF SendCompleted
  <2>2. ~b.valid
    BY <1>1, <1>2
  <2> HIDE DEF b
  <2> QED  BY <1>1, <1>2, <2>1, <2>2, DropsStays
<1>3. CASE actor.valid
  <2>1. Whole(s)
    BY <1>3 DEF Sails
  <2>2. s.mail # <<>> /\ Head(s.mail).kind = "Completed"
    BY DEF SendCompleted
  <2>3. job \in Jobs
    BY <2>1, <2>2, FirstJob
  <2>4. job.ok \in BOOLEAN
    BY <2>3 DEF Jobs
  <2>5. Same(s, c, {"mail"}) /\ c.mail = Tail(s.mail) /\ IsSocket(c)
    BY <1>0 DEF IsSocket, Same, Fields
  <2>6. OnWire(c)
    BY <1>0, <2>5, WireSame, WireApart
  <2> HIDE DEF r, d, b
  <2>7. \/ ~r.over /\ \E takes \in Takes : \E result \in ContinueSend(r.c, takes) : Submitted(result, b, 0)
        \/ Fatal(r.c, b)
        \/ job.ok /\ Step(r.c, d(r.n))
    <3>1. CASE ~r.over
      BY ONLY ZenonT(30), <1>3, <3>1, SendCompleted DEF SendCompleted, r, d, b
    <3>2. CASE r.over /\ ~job.ok
      BY ONLY ZenonT(30), <1>3, <3>2, SendCompleted DEF SendCompleted, r, d, b
    <3>3. CASE r.over /\ job.ok
      BY <1>3, <3>3 DEF SendCompleted, r, d, b
    <3> QED  BY ONLY <3>1, <3>2, <3>3
  <2>8. CASE job.ok = TRUE
    <3>1. CASE job.transfer = None
      <4>1. Whole(c)
        BY <2>1, <2>2, <2>5, <3>1, WholeTakesNone DEF None
      <4>2. r.c = c
        BY <3>1 DEF r
      <4> QED  BY <1>1, <2>7, <4>1, <4>2, WholeStays, WholeFatal, ContinueStays
    <3>2. CASE job.transfer # None
      <4>1. PICK transfer, t, ok : transfer = job.transfer /\ t = c /\ ok = job.ok
        OBVIOUS
      <4>2. Whole(ResolveSend(t, transfer, ok).c)
        BY <2>1, <2>2, <2>8, <3>2, <4>1, WholeResolves DEF None
      <4>3. r.c = ResolveSend(t, transfer, ok).c
        BY <3>2, <4>1 DEF r
      <4>4. Whole(r.c)
        BY <4>2, <4>3
      <4> QED  BY <1>1, <2>7, <4>4, WholeStays, WholeFatal, ContinueStays
    <3> QED  BY <3>1, <3>2
  <2>9. CASE job.ok = FALSE
    <3>1. r.over = TRUE /\ IsSocket(r.c) /\ OnWire(r.c)
      <4>1. CASE job.transfer = None
        BY <2>5, <2>6, <4>1 DEF r
      <4>2. CASE job.transfer # None
        <5>1. PICK transfer, t, ok : transfer = job.transfer /\ t = c /\ ok = job.ok
          OBVIOUS
        <5>2. PICK x : x = ResolveSend(t, transfer, ok)
          OBVIOUS
        <5>3. x.over = TRUE /\ IsSocket(x.c) /\ OnWire(x.c)
          BY <2>5, <2>6, <2>9, <5>1, <5>2, ResolveFails
        <5>4. r = x
          BY <4>2, <5>1, <5>2 DEF r
        <5> QED  BY <5>3, <5>4
      <4> QED  BY <4>1, <4>2
    <3>2. Fatal(r.c, b)
      BY <2>7, <2>9, <3>1
    <3> QED  BY <1>1, <3>1, <3>2, FatalStays
  <2> QED  BY <2>4, <2>8, <2>9
<1> QED  BY <1>2, <1>3

\* fp_SendBufferReleased
LEMMA SendBufferReleasedStays ==
  ASSUME Sails(s, actor), SendBufferReleased
  PROVE  Stays
<1> DEFINE job == Head(s.mail)
           c == [s EXCEPT !.mail = Tail(@)]
           b == [At(actor, "Sending") EXCEPT !.did = FALSE]
<1>0. Vital(actor) /\ IsSocket(s) /\ OnWire(s)
  BY DEF Sails
<1>1. Vital(b)
  BY <1>0 DEF Vital, At
<1>2. CASE ~actor.valid
  <2>1. Step(c, actor)
    BY <1>2 DEF SendBufferReleased
  <2> QED  BY <1>0, <1>2, <2>1, DropsStays
<1>3. CASE actor.valid
  <2>1. Whole(s)
    BY <1>3 DEF Sails
  <2>2. s.mail # <<>> /\ Head(s.mail).kind = "Released"
    BY DEF SendBufferReleased
  <2>3. Step(IF job.transfer = None THEN c ELSE ResolveSendRelease(c, job.transfer), b)
    BY <1>3 DEF SendBufferReleased
  <2> HIDE DEF b
  <2>4. CASE job.transfer = None
    <3>1. Same(s, c, {"mail"}) /\ c.mail = Tail(s.mail)
      BY <1>0 DEF IsSocket, Same, Fields
    <3>2. Whole(c)
      BY <2>1, <2>2, <2>4, <3>1, WholeTakesNone DEF None
    <3> QED  BY <1>1, <2>3, <2>4, <3>2, WholeStays
  <2>5. CASE job.transfer # None
    <3>1. PICK transfer, t : transfer = job.transfer /\ t = c
      OBVIOUS
    <3>2. Whole(ResolveSendRelease(t, transfer))
      BY <2>1, <2>2, <2>5, <3>1, WholeResolvesRelease DEF None
    <3> QED  BY <1>1, <2>3, <2>5, <3>1, <3>2, WholeStays
  <2> QED  BY <2>4, <2>5
<1> QED  BY <1>2, <1>3

-----------------------------------------------------------------------------
(* The platform, the loop and the peer.                                    *)

LEMMA OutsideStays ==
  ASSUME NEW c, Sails(c, actor), Outside(c), lost' = lost \/ lost' = TRUE
  PROVE  Stays
BY DEF Outside, Stays

LEMMA SailsSame ==
  ASSUME NEW c, NEW a, Sails(c, a), NEW d, NEW F, Same(c, d, F), F \cap Flow = {}
  PROVE  Sails(d, a)
<1>1. "wire" \notin F
  BY DEF Flow
<1>2. IsSocket(d) /\ OnWire(d)
  BY <1>1, WireSame DEF Sails
<1> QED  BY <1>2, WholeSame DEF Sails

LEMMA BesideStays ==
  ASSUME Sails(s, actor), NEW c, NEW F, Same(s, c, F), F \cap Flow = {}, Outside(c),
         lost' = lost \/ lost' = TRUE
  PROVE  Stays
BY SailsSame, OutsideStays

LEMMA ApartAre ==
  /\ {} \cap Flow = {} /\ {"events"} \cap Flow = {} /\ {"taken"} \cap Flow = {}
  /\ {"ended"} \cap Flow = {} /\ {"events", "armed"} \cap Flow = {}
BY DEF Flow

\* There is room again.
LEMMA WholeRoom ==
  ASSUME NEW c, NEW d, Whole(c), Same(c, d, {"room"}), d.room \in Nat
  PROVE  Whole(d)
<1>1. IsSocket(c) /\ IsSocket(d)
  BY SocketStays DEF Whole
<1>2. /\ d.wire = c.wire /\ d.sealed = c.sealed /\ d.failed = c.failed /\ d.kernel = c.kernel
      /\ d.ops = c.ops /\ d.held = c.held /\ d.tx = c.tx /\ d.mail = c.mail
  BY <1>1 DEF Same, IsSocket, Fields
<1>3. OnWire(d)
  BY <1>2 DEF Whole, OnWire
<1>4. ~lost => InOrder(d)
  BY <1>2 DEF Whole, InOrder
<1>5. /\ c.held \in Nat /\ c.failed = FALSE /\ c.sealed \in Seq(RecordKinds) /\ c.ops \in Seq(Operations)
      /\ TxOk(c.tx) /\ Ledger(c.tx.out, c.kernel, c.mail)
  BY DEF Whole
<1> QED  BY <1>1, <1>2, <1>3, <1>4, <1>5 DEF Whole

LEMMA PeerReadsStays ==
  ASSUME Sails(s, actor), Configured, PeerReads
  PROVE  Stays
<1>1. PICK b : b = [s EXCEPT !.room = scenario.room]
  OBVIOUS
<1>2. PICK d : d = [AddTCPState(s, {"Write"}) EXCEPT !.room = scenario.room, !.armed = FALSE]
  OBVIOUS
<1>3. PICK c \in {b, d} : Outside(c) /\ lost' = lost
  BY <1>1, <1>2 DEF PeerReads
<1>4. IsSocket(s) /\ OnWire(s)
  BY DEF Sails
<1>5. scenario.room \in Nat
  BY ScenarioIs DEF Configured
<1>6. Same(s, b, {"room"}) /\ b.room \in Nat
  BY <1>1, <1>4, <1>5 DEF IsSocket, Same, Fields
<1>7. Same(b, d, {"events", "armed"})
  BY <1>1, <1>2, <1>4 DEF AddTCPState, IsSocket, Same, Fields
<1>8. IsSocket(b) /\ OnWire(b)
  <2>1. "wire" \notin {"room"}
    OBVIOUS
  <2> QED  BY <1>4, <1>6, <2>1, WireSame
<1>9. Sails(b, actor)
  BY <1>6, <1>8, WholeRoom DEF Sails
<1>10. Sails(d, actor)
  BY <1>7, <1>9, ApartAre, SailsSame
<1> QED  BY <1>3, <1>9, <1>10, OutsideStays

LEMMA BesidesStay ==
  ASSUME Sails(s, actor), PeerWrites \/ PeerEnds \/ SocketLost \/ LoopReads \/ LoopEnds
  PROVE  Stays
<1>0. IsSocket(s)
  BY DEF Sails
<1>1. Same(s, s, {}) /\ \A flags : Same(s, AddTCPState(s, flags), {"events"})
  BY <1>0, SameIs, AddTCPStateSame
<1>2. CASE PeerWrites
  <2>1. (Outside(s) \/ Outside(AddTCPState(s, {"Read"}))) /\ lost' = lost
    BY <1>2 DEF PeerWrites
  <2> QED  BY <1>1, <2>1, BesideStays, ApartAre
<1>3. CASE PeerEnds
  <2>1. (Outside(s) \/ Outside(AddTCPState(s, {"Read"}))) /\ lost' = lost
    BY <1>3 DEF PeerEnds
  <2> QED  BY <1>1, <2>1, BesideStays, ApartAre
<1>5. CASE SocketLost
  <2>1. Outside(AddTCPState(s, {"Read", "Write"})) /\ lost' = TRUE
    BY <1>5 DEF SocketLost
  <2> QED  BY <1>1, <2>1, BesideStays, ApartAre
<1>9. CASE LoopReads
  <2>1. PICK n : Outside([s EXCEPT !.taken = @ + n]) /\ lost' = lost
    BY <1>9 DEF LoopReads
  <2>2. Same(s, [s EXCEPT !.taken = @ + n], {"taken"})
    BY <1>0 DEF IsSocket, Same, Fields
  <2> QED  BY <2>1, <2>2, BesideStays, ApartAre
<1>10. CASE LoopEnds
  <2>1. Outside([s EXCEPT !.ended = TRUE]) /\ lost' = lost
    BY <1>10 DEF LoopEnds
  <2>2. Same(s, [s EXCEPT !.ended = TRUE], {"ended"})
    BY <1>0 DEF IsSocket, Same, Fields
  <2> QED  BY <2>1, <2>2, BesideStays, ApartAre
<1> QED  BY <1>2, <1>3, <1>5, <1>9, <1>10

\* An operation without the first of its records.
Wrote(kernel, i) == [kernel EXCEPT ![i].records = Tail(@)]

LEMMA KernelWrote ==
  ASSUME NEW kernel \in Seq(KernelOps), NEW i \in DOMAIN kernel, kernel[i].records # <<>>,
         NEW new, new = Wrote(kernel, i)
  PROVE  /\ new \in Seq(KernelOps) /\ DOMAIN new = DOMAIN kernel
         /\ new[i].records = Tail(kernel[i].records) /\ Head(kernel[i].records) \in Nat
         /\ new[i].buffer = kernel[i].buffer /\ new[i].stage = kernel[i].stage
         /\ \A j \in DOMAIN kernel : j # i => new[j] = kernel[j]
<1>1. PICK n \in Nat : n = Len(kernel) /\ DOMAIN kernel = 1 .. n
  BY DomainOf
<1>2. \A j \in DOMAIN kernel : kernel[j] \in KernelOps /\ kernel[j].records \in Datas
  BY KernelRecordsAre
<1>3. PICK g \in KernelOps : g = kernel[i]
  BY <1>2
<1>4. PICK x \in Seq(Nat) : x = g.records /\ x # <<>>
  BY <1>2, <1>3 DEF Datas
<1>5. Head(x) \in Nat /\ Tail(x) \in Seq(Nat)
  BY <1>4, FirstOf
<1>6. PICK t \in Seq(Nat) : t = Tail(x)
  BY <1>5
<1>7. PICK w : w = [g EXCEPT !.records = t]
  OBVIOUS
<1>8. w = [buffer |-> g.buffer, records |-> t, stage |-> g.stage]
  BY ONLY g \in KernelOps, <1>7 DEF KernelOps
<1>9. g.buffer \in Nat /\ g.stage \in {"Queued", "Completed"}
  BY ONLY g \in KernelOps DEF KernelOps
<1>10. w \in KernelOps
  BY ONLY <1>6, <1>8, <1>9 DEF KernelOps, Datas
<1>11. new = [kernel EXCEPT ![i] = w]
  BY <1>3, <1>4, <1>6, <1>7 DEF Wrote
<1>12. new = [j \in 1 .. n |-> IF j = i THEN w ELSE kernel[j]]
  BY <1>1, <1>11
<1>13. new \in [1 .. n -> KernelOps]
  BY <1>1, <1>2, <1>10, <1>12
<1>14. new \in Seq(KernelOps)
  BY ONLY n \in Nat, <1>13, SeqMade
<1>15. new[i] = w /\ \A j \in DOMAIN kernel : j # i => new[j] = kernel[j]
  BY <1>1, <1>12
<1>16. DOMAIN new = DOMAIN kernel
  BY <1>1, <1>12
<1> QED  BY <1>3, <1>4, <1>5, <1>6, <1>8, <1>14, <1>15, <1>16

\* One record behind the others.
LEMMA WireGains ==
  ASSUME NEW w \in Datas, NEW h \in Nat, NEW k \in Datas, NEW l \in Datas, NEW x \in Datas,
         NEW m \in Nat, Joined(w, Joined(k, l)) = Interval(0, m), k = Joined(<<h>>, x)
  PROVE  /\ Append(w, h) \in Datas
         /\ Joined(Append(w, h), Joined(x, l)) = Interval(0, m)
         /\ Append(w, h) = Interval(0, Len(Append(w, h)))
<1>1. <<h>> \in Datas
  BY OneOf DEF Datas
<1>2. PICK o \in Datas : o = <<h>>
  BY <1>1
<1>3. Append(w, h) = Joined(w, o)
  BY <1>2, AppendIsConcat DEF Datas, Joined
<1>4. PICK v \in Datas : v = Joined(w, o)
  BY DataJoins
<1>5. PICK y \in Datas : y = Joined(x, l)
  BY DataJoins
<1>6. Joined(v, y) = Joined(w, Joined(o, y))
  BY <1>4, DataJoinsBoth
<1>7. Joined(o, y) = Joined(k, l)
  BY <1>2, <1>5, DataJoinsBoth
<1>8. Joined(v, y) = Interval(0, m)
  BY <1>6, <1>7
<1>9. v = Interval(0, Len(v))
  BY <1>8, BeginsInterval
<1> QED  BY <1>3, <1>4, <1>5, <1>8, <1>9

\* One record of an operation goes on the wire.
LEMMA WholeCarried ==
  ASSUME NEW c, NEW d, Whole(c), ~lost, Same(c, d, {"wire", "room", "kernel"}), d.room \in Nat,
         NEW i \in DOMAIN c.kernel, c.kernel[i].records # <<>>, c.kernel[i].stage = "Queued",
         \A j \in 1 .. i - 1 : c.kernel[j].stage = "Completed",
         d.wire = Append(c.wire, Head(c.kernel[i].records)),
         d.kernel = [c.kernel EXCEPT ![i].records = Tail(@)]
  PROVE  Whole(d)
<1>1. IsSocket(c) /\ IsSocket(d) /\ TxOk(c.tx) /\ Ledger(c.tx.out, c.kernel, c.mail)
  BY WholeIs, SocketStays
<1>2. /\ d.sealed = c.sealed /\ d.failed = c.failed /\ d.ops = c.ops /\ d.held = c.held
      /\ d.tx = c.tx /\ d.mail = c.mail
  BY <1>1 DEF Same, IsSocket, Fields
<1>3. c.kernel \in Seq(KernelOps)
  BY WholeIs
<1>4. PICK kernel \in Seq(KernelOps) : kernel = c.kernel
  BY <1>3
<1>5. PICK mail, out, new : mail = c.mail /\ out = c.tx.out /\ new = d.kernel
  OBVIOUS
<1>6. i \in DOMAIN kernel /\ kernel[i].records # <<>> /\ new = Wrote(kernel, i)
  BY <1>4, <1>5 DEF Wrote
<1>7. /\ new \in Seq(KernelOps) /\ DOMAIN new = DOMAIN kernel
      /\ new[i].records = Tail(kernel[i].records) /\ Head(kernel[i].records) \in Nat
      /\ new[i].buffer = kernel[i].buffer /\ new[i].stage = kernel[i].stage
      /\ \A j \in DOMAIN kernel : j # i => new[j] = kernel[j]
  BY ONLY kernel \in Seq(KernelOps), <1>6, KernelWrote
<1>8. \A j \in DOMAIN new : new[j].buffer = kernel[j].buffer /\ new[j].stage = kernel[j].stage
  BY ONLY <1>7
<1>9. Ledger(out, new, mail)
  <2>1. Ledger(out, kernel, mail)
    BY <1>1, <1>4, <1>5
  <2> QED  BY ONLY <2>1, <1>7, <1>8, LedgerWrites
<1>10. InOrder(c)
  BY DEF Whole
<1>11. \A j \in DOMAIN kernel : kernel[j].stage = "Completed" => kernel[j].records = <<>>
  BY <1>4, <1>10 DEF InOrder
<1>12. \A j \in 1 .. i - 1 : kernel[j].records = <<>>
  <2>1. \A j \in 1 .. i - 1 : j \in DOMAIN kernel
    <3>1. PICK n \in Nat : DOMAIN kernel = 1 .. n
      BY DomainOf
    <3>2. i \in 1 .. n
      BY <1>6, <3>1
    <3> QED  BY ONLY <3>1, <3>2, n \in Nat
  <2> QED  BY <1>4, <1>11, <2>1
<1>13. Carrying(kernel) = Joined(<<Head(kernel[i].records)>>, Carrying(new))
  BY ONLY kernel \in Seq(KernelOps), <1>6, <1>7, <1>12, CarryingWrites
<1>14. PICK w \in Datas, h \in Nat, k \in Datas, l \in Datas, x \in Datas :
         /\ w = c.wire /\ h = Head(kernel[i].records) /\ k = Carrying(kernel) /\ l = Left(c.tx)
         /\ x = Carrying(new)
  BY <1>4, <1>7, WholeIs, KernelRecordsAre
<1>15. PICK m \in Nat : m = Len(c.sealed)
  BY WholeIs
<1>16. Joined(w, Joined(k, l)) = Interval(0, m)
  BY <1>4, <1>10, <1>14, <1>15 DEF InOrder
<1>17. k = Joined(<<h>>, x)
  BY <1>13, <1>14
<1>18. /\ Append(w, h) \in Datas /\ Joined(Append(w, h), Joined(x, l)) = Interval(0, m)
       /\ Append(w, h) = Interval(0, Len(Append(w, h)))
  BY ONLY <1>16, <1>17, w \in Datas, h \in Nat, k \in Datas, l \in Datas, x \in Datas, m \in Nat, WireGains
<1>19. d.wire = Append(w, h) /\ d.kernel = new /\ Left(d.tx) = l /\ m = Len(d.sealed)
  BY <1>2, <1>4, <1>5, <1>14, <1>15
<1>20. OnWire(d)
  BY <1>18, <1>19 DEF OnWire
<1>21. \A j \in DOMAIN d.kernel : d.kernel[j].stage = "Completed" => d.kernel[j].records = <<>>
  <2> TAKE j \in DOMAIN d.kernel
  <2>1. CASE j = i
    BY <1>4, <1>7, <1>19, <2>1
  <2>2. CASE j # i
    BY ONLY <1>7, <1>11, <1>19, <2>2
  <2> QED  BY <2>1, <2>2
<1>22. InOrder(d)
  BY <1>14, <1>18, <1>19, <1>21 DEF InOrder
<1>23. Ledger(d.tx.out, d.kernel, d.mail)
  BY <1>2, <1>5, <1>9
<1>24. /\ c.held \in Nat /\ c.failed = FALSE /\ c.sealed \in Seq(RecordKinds) /\ c.ops \in Seq(Operations)
  BY DEF Whole
<1> QED  BY <1>1, <1>2, <1>20, <1>22, <1>23, <1>24 DEF Whole

LEMMA KernelWritesStays ==
  ASSUME Sails(s, actor), KernelWrites
  PROVE  Stays
<1>0. IsSocket(s) /\ ~lost /\ actor.valid /\ Vital(actor) /\ lost' = lost /\ s.room > 0
  BY DEF Sails, KernelWrites
<1>1. Whole(s)
  BY ONLY <1>0, Sails(s, actor) DEF Sails
<1>2. PICK i \in DOMAIN s.kernel :
        /\ \A j \in 1 .. i - 1 : s.kernel[j].stage = "Completed"
        /\ s.kernel[i].stage = "Queued"
        /\ s.kernel[i].records # <<>>
        /\ Outside([s EXCEPT
                      !.wire = Append(@, Head(s.kernel[i].records)),
                      !.room = @ - 1,
                      !.kernel[i].records = Tail(@)])
  BY DEF KernelWrites
<1>3. PICK d : d = [s EXCEPT
                      !.wire = Append(@, Head(s.kernel[i].records)),
                      !.room = @ - 1,
                      !.kernel[i].records = Tail(@)]
  OBVIOUS
<1>4. /\ Same(s, d, {"wire", "room", "kernel"}) /\ d.room = s.room - 1
      /\ d.wire = Append(s.wire, Head(s.kernel[i].records))
      /\ d.kernel = [s.kernel EXCEPT ![i].records = Tail(@)]
  BY <1>0, <1>3 DEF Same, IsSocket, Fields
<1>5. d.room \in Nat
  <2>1. s.room \in Nat
    BY <1>1 DEF Whole
  <2> QED  BY <1>0, <1>4, <2>1
<1>6. Whole(d)
  BY <1>0, <1>1, <1>2, <1>4, <1>5, WholeCarried
<1>7. Sails(d, actor)
  BY <1>0, <1>6, WholeOnWire DEF Sails
<1> QED  BY <1>0, <1>2, <1>3, <1>7, OutsideStays

\* An operation that is over.
Over(kernel, i) == [kernel EXCEPT ![i].stage = "Completed"]

LEMMA KernelOver ==
  ASSUME NEW kernel \in Seq(KernelOps), NEW i \in DOMAIN kernel, NEW new, new = Over(kernel, i)
  PROVE  /\ new \in Seq(KernelOps) /\ DOMAIN new = DOMAIN kernel
         /\ new[i].stage = "Completed"
         /\ \A j \in DOMAIN kernel : /\ new[j].buffer = kernel[j].buffer
                                     /\ new[j].records = kernel[j].records
                                     /\ j # i => new[j] = kernel[j]
<1>1. PICK n \in Nat : n = Len(kernel) /\ DOMAIN kernel = 1 .. n
  BY DomainOf
<1>2. \A j \in DOMAIN kernel : kernel[j] \in KernelOps
  BY KernelRecordsAre
<1>3. PICK g \in KernelOps : g = kernel[i]
  BY <1>2
<1>4. PICK w : w = [g EXCEPT !.stage = "Completed"]
  OBVIOUS
<1>5. w = [buffer |-> g.buffer, records |-> g.records, stage |-> "Completed"]
  BY ONLY g \in KernelOps, <1>4 DEF KernelOps
<1>6. g.buffer \in Nat /\ g.records \in Datas
  BY ONLY g \in KernelOps DEF KernelOps
<1>7. w \in KernelOps
  BY ONLY <1>5, <1>6 DEF KernelOps
<1>8. new = [kernel EXCEPT ![i] = w]
  BY <1>3, <1>4 DEF Over
<1>9. new = [j \in 1 .. n |-> IF j = i THEN w ELSE kernel[j]]
  BY <1>1, <1>8
<1>10. new \in [1 .. n -> KernelOps]
  BY <1>1, <1>2, <1>7, <1>9
<1>11. new \in Seq(KernelOps)
  BY ONLY n \in Nat, <1>10, SeqMade
<1>12. new[i] = w /\ \A j \in DOMAIN kernel : j # i => new[j] = kernel[j]
  BY <1>1, <1>9
<1>13. DOMAIN new = DOMAIN kernel
  BY <1>1, <1>9
<1> QED  BY <1>3, <1>5, <1>11, <1>12, <1>13

\* An operation of the platform completes: its records are written, or the socket
\* is lost.
LEMMA WholeCompletes ==
  ASSUME NEW c, NEW d, Whole(c), NEW i \in DOMAIN c.kernel, c.kernel[i].records = <<>> \/ lost,
         NEW ok \in BOOLEAN, NEW job, job = Completed(c.kernel[i].buffer, 0, ok),
         Same(c, d, {"kernel", "mail"}), d.kernel = Over(c.kernel, i), d.mail = Append(c.mail, job)
  PROVE  Whole(d)
<1>1. IsSocket(c) /\ IsSocket(d) /\ TxOk(c.tx) /\ Ledger(c.tx.out, c.kernel, c.mail)
  BY WholeIs, SocketStays
<1>2. /\ d.sealed = c.sealed /\ d.failed = c.failed /\ d.ops = c.ops /\ d.held = c.held
      /\ d.tx = c.tx /\ d.wire = c.wire /\ d.room = c.room
  BY <1>1 DEF Same, IsSocket, Fields
<1>3. c.kernel \in Seq(KernelOps)
  BY WholeIs
<1>4. PICK kernel \in Seq(KernelOps) : kernel = c.kernel
  BY <1>3
<1>5. PICK mail, out, new : mail = c.mail /\ out = c.tx.out /\ new = d.kernel
  OBVIOUS
<1>6. i \in DOMAIN kernel /\ new = Over(kernel, i)
  BY <1>4, <1>5
<1>7. /\ new \in Seq(KernelOps) /\ DOMAIN new = DOMAIN kernel
      /\ new[i].stage = "Completed"
      /\ \A j \in DOMAIN kernel : /\ new[j].buffer = kernel[j].buffer
                                  /\ new[j].records = kernel[j].records
                                  /\ j # i => new[j] = kernel[j]
  BY ONLY SMTT(60), kernel \in Seq(KernelOps), <1>6, KernelOver
<1>8. PICK b \in Nat : b = kernel[i].buffer
  <2>1. kernel[i] \in KernelOps
    BY <1>6, KernelRecordsAre
  <2> QED  BY <2>1 DEF KernelOps
<1>9. job = [kind |-> "Completed", transfer |-> b, n |-> 0, ok |-> ok]
  BY <1>4, <1>8 DEF Completed
<1>10. job \in Jobs /\ job.kind = "Completed" /\ job.transfer = b
  BY ONLY <1>9, b \in Nat, ok \in BOOLEAN DEF Jobs
<1>11. b \in Buffers(kernel)
  BY <1>6, <1>8 DEF Buffers
<1>12. \A j \in DOMAIN new : /\ new[j].buffer = kernel[j].buffer
                             /\ new[j].stage = "Completed" => kernel[j].stage = "Completed"
                                                               \/ new[j].buffer = b
  BY ONLY <1>6, <1>7, <1>8
<1>13. Ledger(out, new, Append(mail, job))
  <2>1. Ledger(out, kernel, mail)
    BY <1>1, <1>4, <1>5
  <2> QED  BY ONLY <2>1, <1>7, <1>10, <1>11, <1>12, LedgerTells
<1>14. Carrying(new) = Carrying(kernel)
  BY ONLY kernel \in Seq(KernelOps), <1>7, CarryingSame
<1>15. ASSUME ~lost PROVE InOrder(d)
  <2>1. InOrder(c)
    BY <1>15 DEF Whole
  <2>2. Joined(d.wire, Joined(Carrying(d.kernel), Left(d.tx))) = Interval(0, Len(d.sealed))
    BY <1>2, <1>4, <1>5, <1>14, <2>1 DEF InOrder
  <2>3. \A j \in DOMAIN kernel : kernel[j].stage = "Completed" => kernel[j].records = <<>>
    BY <1>4, <2>1 DEF InOrder
  <2>4. \A j \in DOMAIN d.kernel : d.kernel[j].stage = "Completed" => d.kernel[j].records = <<>>
    <3> TAKE j \in DOMAIN d.kernel
    <3>1. CASE j = i
      BY <1>4, <1>5, <1>6, <1>7, <1>15, <3>1
    <3>2. CASE j # i
      BY <1>5, <1>7, <2>3, <3>2
    <3> QED  BY <3>1, <3>2
  <2> QED  BY <2>2, <2>4 DEF InOrder
<1>16. OnWire(d)
  BY <1>2 DEF Whole, OnWire
<1>17. Ledger(d.tx.out, d.kernel, d.mail)
  BY <1>2, <1>5, <1>13
<1>18. /\ c.held \in Nat /\ c.failed = FALSE /\ c.sealed \in Seq(RecordKinds) /\ c.ops \in Seq(Operations)
       /\ c.room \in Nat
  BY DEF Whole
<1> QED  BY <1>1, <1>2, <1>15, <1>16, <1>17, <1>18 DEF Whole

\* The platform lets go of the buffer of an operation that is over.
LEMMA WholeReleased ==
  ASSUME NEW c, NEW d, Whole(c), NEW i \in DOMAIN c.kernel, c.kernel[i].stage = "Completed",
         NEW job, job = Released(c.kernel[i].buffer),
         Same(c, d, {"kernel", "mail"}), d.kernel = CutOut(c.kernel, i), d.mail = Append(c.mail, job)
  PROVE  Whole(d)
<1>1. IsSocket(c) /\ IsSocket(d) /\ TxOk(c.tx) /\ Ledger(c.tx.out, c.kernel, c.mail)
  BY WholeIs, SocketStays
<1>2. /\ d.sealed = c.sealed /\ d.failed = c.failed /\ d.ops = c.ops /\ d.held = c.held
      /\ d.tx = c.tx /\ d.wire = c.wire /\ d.room = c.room
  BY <1>1 DEF Same, IsSocket, Fields
<1>3. c.kernel \in Seq(KernelOps)
  BY WholeIs
<1>4. PICK kernel \in Seq(KernelOps) : kernel = c.kernel
  BY <1>3
<1>5. PICK mail, out, new : mail = c.mail /\ out = c.tx.out /\ new = d.kernel
  OBVIOUS
<1>6. i \in DOMAIN kernel /\ kernel[i].stage = "Completed" /\ new = CutOut(kernel, i)
  BY <1>4, <1>5
<1>7. PICK b \in Nat : b = kernel[i].buffer
  <2>1. kernel[i] \in KernelOps
    BY <1>6, KernelRecordsAre
  <2> QED  BY <2>1 DEF KernelOps
<1>8. job = [kind |-> "Released", transfer |-> b, n |-> 0, ok |-> TRUE]
  BY <1>4, <1>7 DEF Released
<1>9. job \in Jobs /\ job.kind = "Released" /\ job.transfer = b
  BY ONLY <1>8, b \in Nat, TRUE \in BOOLEAN DEF Jobs
<1>10. Ledger(out, new, Append(mail, job))
  <2>1. Ledger(out, kernel, mail)
    BY <1>1, <1>4, <1>5
  <2>2. Ledger(out, CutOut(kernel, i), Append(mail, job))
    BY ONLY <2>1, <1>6, <1>7, <1>9, LedgerRemoves
  <2> QED  BY <1>6, <2>2
<1>11. ASSUME ~lost PROVE InOrder(d)
  <2>1. InOrder(c)
    BY <1>11 DEF Whole
  <2>3. \A j \in DOMAIN kernel : kernel[j].stage = "Completed" => kernel[j].records = <<>>
    BY <1>4, <2>1 DEF InOrder
  <2>5. kernel[i].records = <<>>
    BY <1>6, <2>3
  <2>6. Carrying(new) = Carrying(kernel)
    BY ONLY kernel \in Seq(KernelOps), <1>6, <2>5, CarryingCut
  <2>2. Joined(d.wire, Joined(Carrying(d.kernel), Left(d.tx))) = Interval(0, Len(d.sealed))
    BY <1>2, <1>4, <1>5, <2>1, <2>6 DEF InOrder
  <2>7. \A j \in DOMAIN new : Skip(i, j) \in DOMAIN kernel /\ new[j] = kernel[Skip(i, j)]
    BY ONLY kernel \in Seq(KernelOps), <1>6, CutOutIs
  <2>4. \A j \in DOMAIN d.kernel : d.kernel[j].stage = "Completed" => d.kernel[j].records = <<>>
    BY <1>5, <2>3, <2>7
  <2> QED  BY <2>2, <2>4 DEF InOrder
<1>12. OnWire(d)
  BY <1>2 DEF Whole, OnWire
<1>13. Ledger(d.tx.out, d.kernel, d.mail)
  BY <1>2, <1>5, <1>10
<1>14. /\ c.held \in Nat /\ c.failed = FALSE /\ c.sealed \in Seq(RecordKinds) /\ c.ops \in Seq(Operations)
       /\ c.room \in Nat
  BY DEF Whole
<1> QED  BY <1>1, <1>2, <1>11, <1>12, <1>13, <1>14 DEF Whole

\* What an actor that let go of the socket does not see.
LEMMA UnseenStays ==
  ASSUME Sails(s, actor), ~actor.valid, NEW d, Same(s, d, {"kernel", "mail"}), Outside(d), lost' = lost
  PROVE  Stays
<1>1. "wire" \notin {"kernel", "mail"}
  OBVIOUS
<1>2. IsSocket(d) /\ OnWire(d)
  BY <1>1, WireSame DEF Sails
<1>3. Sails(d, actor)
  BY <1>2 DEF Sails
<1> QED  BY <1>3, OutsideStays

LEMMA PostsOne ==
  ASSUME NEW mail \in Seq(Jobs), NEW job \in Jobs
  PROVE  mail \o <<job>> = Append(mail, job)
BY AppendIsConcat

LEMMA MailIs ==
  ASSUME NEW c, Whole(c)
  PROVE  c.mail \in Seq(Jobs)
BY DEF Whole, Ledger, MailOk

LEMMA BufferIs ==
  ASSUME NEW c, Whole(c), NEW i \in DOMAIN c.kernel
  PROVE  c.kernel[i].buffer \in Nat
<1>1. c.kernel \in Seq(KernelOps)
  BY WholeIs
<1>2. c.kernel[i] \in KernelOps
  BY <1>1, KernelRecordsAre
<1> QED  BY <1>2 DEF KernelOps

LEMMA KernelCompletesStays ==
  ASSUME Sails(s, actor), KernelCompletes
  PROVE  Stays
<1>0. IsSocket(s) /\ Vital(actor) /\ lost' = lost
  BY DEF Sails, KernelCompletes
<1>1. PICK i \in DOMAIN s.kernel :
        /\ s.kernel[i].records = <<>> \/ lost \/ ~actor.valid
        /\ Outside(Post([s EXCEPT !.kernel[i].stage = "Completed"],
                        <<Completed(s.kernel[i].buffer, 0, s.kernel[i].records = <<>>)>>))
  BY DEF KernelCompletes
<1>2. PICK ok \in BOOLEAN : ok = (s.kernel[i].records = <<>>)
  OBVIOUS
<1>3. PICK job : job = Completed(s.kernel[i].buffer, 0, ok)
  OBVIOUS
<1>4. PICK d : d = Post([s EXCEPT !.kernel[i].stage = "Completed"], <<job>>)
  OBVIOUS
<1>5. Outside(d)
  BY <1>1, <1>2, <1>3, <1>4
<1>6. /\ Same(s, d, {"kernel", "mail"}) /\ d.mail = s.mail \o <<job>>
      /\ d.kernel = Over(s.kernel, i)
  BY <1>0, <1>4 DEF Post, Same, IsSocket, Fields, Over
<1>7. CASE ~actor.valid
  BY <1>0, <1>5, <1>6, <1>7, UnseenStays
<1>8. CASE actor.valid
  <2>1. Whole(s)
    BY <1>8 DEF Sails
  <2>2. job \in Jobs
    <3>1. PICK b \in Nat : b = s.kernel[i].buffer
      BY <2>1, BufferIs
    <3>2. job = [kind |-> "Completed", transfer |-> b, n |-> 0, ok |-> ok]
      BY <1>3, <3>1 DEF Completed
    <3> QED  BY ONLY <3>2, b \in Nat, ok \in BOOLEAN DEF Jobs
  <2>3. d.mail = Append(s.mail, job)
    BY <1>6, <2>1, <2>2, MailIs, PostsOne
  <2>4. s.kernel[i].records = <<>> \/ lost
    BY <1>1, <1>8
  <2>5. Whole(d)
    BY <1>3, <1>6, <2>1, <2>3, <2>4, WholeCompletes
  <2>6. Sails(d, actor)
    BY <1>0, <2>5, WholeOnWire DEF Sails
  <2> QED  BY <1>0, <1>5, <2>6, OutsideStays
<1> QED  BY <1>7, <1>8

LEMMA KernelReleasesStays ==
  ASSUME Sails(s, actor), KernelReleases
  PROVE  Stays
<1>0. IsSocket(s) /\ Vital(actor) /\ lost' = lost
  BY DEF Sails, KernelReleases
<1>1. PICK i \in DOMAIN s.kernel :
        /\ s.kernel[i].stage = "Completed"
        /\ Outside(Post([s EXCEPT !.kernel = First(s.kernel, i - 1) \o From(s.kernel, i)],
                        <<Released(s.kernel[i].buffer)>>))
  BY DEF KernelReleases
<1>3. PICK job : job = Released(s.kernel[i].buffer)
  OBVIOUS
<1>4. PICK d : d = Post([s EXCEPT !.kernel = First(s.kernel, i - 1) \o From(s.kernel, i)], <<job>>)
  OBVIOUS
<1>5. Outside(d)
  BY <1>1, <1>3, <1>4
<1>6. /\ Same(s, d, {"kernel", "mail"}) /\ d.mail = s.mail \o <<job>>
      /\ d.kernel = CutOut(s.kernel, i)
  BY <1>0, <1>4 DEF Post, Same, IsSocket, Fields, CutOut, Joined
<1>7. CASE ~actor.valid
  BY <1>0, <1>5, <1>6, <1>7, UnseenStays
<1>8. CASE actor.valid
  <2>1. Whole(s)
    BY <1>8 DEF Sails
  <2>2. job \in Jobs
    <3>1. PICK b \in Nat : b = s.kernel[i].buffer
      BY <2>1, BufferIs
    <3>2. job = [kind |-> "Released", transfer |-> b, n |-> 0, ok |-> TRUE]
      BY <1>3, <3>1 DEF Released
    <3> QED  BY ONLY <3>2, b \in Nat, TRUE \in BOOLEAN DEF Jobs
  <2>3. d.mail = Append(s.mail, job)
    BY <1>6, <2>1, <2>2, MailIs, PostsOne
  <2>5. Whole(d)
    BY <1>1, <1>3, <1>6, <2>1, <2>3, WholeReleased
  <2>6. Sails(d, actor)
    BY <1>0, <2>5, WholeOnWire DEF Sails
  <2> QED  BY <1>0, <1>5, <2>6, OutsideStays
<1> QED  BY <1>7, <1>8

-----------------------------------------------------------------------------
(* The output of the connection, whatever runs beside it.                  *)

SealInv == HandshakeInv /\ Sails(s, actor)

LEMMA HandlersStay ==
  ASSUME SealInv, Next
  PROVE  Stays
<1>0. Sails(s, actor) /\ Configured /\ Hand(s)
  BY DEF SealInv, HandshakeInv
<1>1. actor.valid => Afloat
  BY <1>0 DEF Afloat, Sails
<1>2. CASE SendCompleted \/ SendBufferReleased
  BY <1>0, <1>2, SendCompletedStays, SendBufferReleasedStays
<1>3. CASE PeerWrites \/ PeerEnds \/ SocketLost \/ LoopReads \/ LoopEnds
  BY <1>0, <1>3, BesidesStay
<1>4. CASE PeerReads
  BY <1>0, <1>4, PeerReadsStays
<1>5. CASE KernelWrites \/ KernelCompletes \/ KernelReleases
  BY <1>0, <1>5, KernelWritesStays, KernelCompletesStays, KernelReleasesStays
<1>6. CASE Start \/ ProcessState \/ ReceiveOnce \/ ProcessRest \/ SendHandshake \/ SendReady
  <2>1. actor.valid
    BY <1>6 DEF Start, ProcessState, ReceiveOnce, ProcessRest, SendHandshake, SendReady, Running, Idle
  <2> QED  BY <1>1, <1>6, <2>1, StartStays, ProcessStateStays, ReceiveOnceStays, ProcessRestStays,
              SendHandshakeStays, SendReadyStays
<1>7. CASE SubmitOnce \/ StopSubmitting \/ FinishSend \/ FinishDrain
  <2>1. actor.valid
    BY <1>7 DEF SubmitOnce, StopSubmitting, FinishSend, FinishDrain, Running, Idle
  <2> QED  BY <1>1, <1>7, <2>1, SubmitOnceStays, StopSubmittingStays, FinishSendStays, FinishDrainStays
<1>8. CASE ReceiveSegment \/ DrainHeldInput \/ ReceiveHeld \/ EndInput \/ AppCloses \/ AppSetsWindow
  <2>1. actor.valid
    BY <1>8 DEF ReceiveSegment, DrainHeldInput, ReceiveHeld, EndInput, AppCloses, AppSetsWindow,
                Running, Idle
  <2> QED  BY <1>1, <1>8, <2>1, ReceiveSegmentStays, DrainHeldStays, ReceiveHeldStays, EndInputStays,
              AppClosesStays, AppSetsWindowStays
<1> QED  BY <1>2, <1>3, <1>4, <1>5, <1>6, <1>7, <1>8 DEF Next, ActorStep, World

\* What a socket begins with.
LEMMA NoneArranged ==
  LET out == <<EmptyGeneration>> IN
  Arranged(out, 1, <<>>, <<>>) /\ Pins(out) = {} /\ Unsent(out, <<>>) = <<>>
<1>1. PICK g \in Generation : g = EmptyGeneration
  BY EmptyIs
<1>2. g.records = <<>> /\ g.pinned = 0
  BY <1>1, EmptyIs
<1>3. PICK out \in Seq(Generation) : out = <<g>> /\ DOMAIN out = 1 .. 1 /\ out[1] = g
  BY OneOf
<1>4. Filling(out, 1)
  BY <1>2, <1>3 DEF Filling, Generations
<1>5. Waiting(out, 1, <<>>) /\ Spare(out, 1, <<>>)
  BY <1>2, <1>3, NothingListed DEF Waiting, Spare
<1>6. Pins(out) = {}
  BY <1>2, <1>3 DEF Pins
<1> QED  BY <1>1, <1>3, <1>4, <1>5, <1>6, UnsentNone DEF Arranged

LEMMA NoOutputOk == TxOk(NoOutput) /\ Left(NoOutput) = <<>> /\ NoOutput.out = <<EmptyGeneration>>
<1>1. /\ DOMAIN NoOutput = TxFields /\ NoOutput.out = <<EmptyGeneration>> /\ NoOutput.fill = 1
      /\ NoOutput.unsent = <<>> /\ NoOutput.free = <<>> /\ NoOutput.nPinned = 0
  BY DEF NoOutput, TxFields
<1> QED  BY <1>1, NoneArranged, FS_EmptySet DEF TxOk, Left

LEMMA NothingLedger ==
  ASSUME NEW out
  PROVE  Ledger(out, <<>>, <<>>)
BY DEF Ledger, KernelOk, MailOk

LEMMA NewSocketWhole ==
  ASSUME Configured, lost = FALSE
  PROVE  Whole(NewSocket)
<1>1. /\ IsSocket(NewSocket) /\ NewSocket.room = scenario.room /\ NewSocket.held = 0
      /\ NewSocket.failed = FALSE /\ NewSocket.sealed = <<>> /\ NewSocket.ops = <<>>
      /\ NewSocket.tx = NoOutput /\ NewSocket.kernel = <<>> /\ NewSocket.mail = <<>>
      /\ NewSocket.wire = <<>>
  BY DEF NewSocket, IsSocket, Fields
<1>2. PICK c : c = NewSocket
  OBVIOUS
<1>3. c.room \in Nat
  BY <1>1, <1>2, ScenarioIs DEF Configured
<1>4. Interval(0, 0) = <<>> /\ Len(<<>>) = 0
  BY IntervalNone
<1>5. <<>> \in Datas
  BY DEF Datas
<1>6. OnWire(c)
  BY <1>1, <1>2, <1>4, <1>5 DEF OnWire
<1>7. Joined(<<>>, Joined(<<>>, <<>>)) = <<>>
  BY <1>5, DataJoins
<1>8. InOrder(c)
  BY <1>1, <1>2, <1>4, <1>7, CarryingNone, NoOutputOk DEF InOrder
<1>9. TxOk(c.tx) /\ Ledger(c.tx.out, c.kernel, c.mail)
  BY <1>1, <1>2, NoOutputOk, NothingLedger
<1>10. c.sealed \in Seq(RecordKinds) /\ c.ops \in Seq(Operations) /\ c.held \in Nat
  <2>1. c.sealed = <<>> /\ c.ops = <<>> /\ c.held = 0
    BY ONLY <1>1, <1>2
  <2> QED  BY ONLY <2>1
<1>11. IsSocket(c) /\ c.failed = FALSE
  BY ONLY <1>1, <1>2
<1>12. Whole(c)
  BY <1>3, <1>6, <1>8, <1>9, <1>10, <1>11 DEF Whole
<1> QED  BY <1>2, <1>12

LEMMA SealStays ==
  SealInv /\ [Next]_vars => SealInv'
<1> SUFFICES ASSUME SealInv, [Next]_vars PROVE SealInv'
  OBVIOUS
<1>0. HandshakeInv'
  BY HandshakeStays DEF SealInv
<1>1. CASE UNCHANGED vars
  BY <1>0, <1>1 DEF SealInv, Sails, vars, Whole, InOrder
<1>2. CASE Next
  <2>1. PICK c, a : s' = c /\ actor' = a /\ Sails(c, a)
    BY <1>2, HandlersStay DEF Stays
  <2>2. lost' = lost \/ lost' = TRUE
    BY <1>2, HandlersStay DEF Stays
  <2>3. Sails(s, actor)'
    BY <2>1, <2>2 DEF Sails, Whole, InOrder
  <2> QED  BY <1>0, <2>3 DEF SealInv
<1> QED  BY <1>1, <1>2

LEMMA SealInit ==
  Init => SealInv
<1> SUFFICES ASSUME Init PROVE SealInv
  OBVIOUS
<1>1. HandshakeInv
  BY NewSocketHand DEF Init, HandshakeInv, Configured
<1>2. Whole(s)
  BY <1>1, NewSocketWhole DEF Init, HandshakeInv
<1>3. Vital(actor)
  BY DEF Init, Vital
<1> QED  BY <1>1, <1>2, <1>3, WholeOnWire DEF SealInv, Sails

\* Of a socket that is whole, no generation the platform has is any of the others.
LEMMA WholeApart ==
  ASSUME NEW c, Whole(c), NEW i \in DOMAIN c.kernel, NEW b, b = c.kernel[i].buffer
  PROVE  /\ IsPinned(c.tx, b)
         /\ b # c.tx.fill
         /\ \A k \in DOMAIN c.tx.unsent : c.tx.unsent[k] # b
         /\ \A k \in DOMAIN c.tx.free : c.tx.free[k] # b
         /\ \A j \in DOMAIN c.kernel : j # i => c.kernel[j].buffer # b
<1>1. TxOk(c.tx) /\ KernelOk(c.tx.out, c.kernel)
  BY DEF Whole, Ledger
<1>2. b \in DOMAIN c.tx.out /\ c.tx.out[b].pinned # 0
  BY <1>1 DEF KernelOk
<1>3. \A j \in DOMAIN c.kernel : j # i => c.kernel[j].buffer # b
  BY <1>1 DEF KernelOk
<1>4. PICK out, fill, unsent, free :
        out = c.tx.out /\ fill = c.tx.fill /\ unsent = c.tx.unsent /\ free = c.tx.free
  OBVIOUS
<1>5. Arranged(out, fill, unsent, free)
  BY <1>1, <1>4 DEF TxOk
<1>6. /\ out[fill].pinned = 0 /\ \A a \in Listed(unsent) : out[a].pinned = 0
      /\ \A a \in Listed(free) : out[a].pinned = 0
  BY <1>5, ArrangedIs
<1>7. b # fill /\ b \notin Listed(unsent) /\ b \notin Listed(free)
  BY <1>2, <1>4, <1>6
<1>8. (\A k \in DOMAIN unsent : unsent[k] # b) /\ (\A k \in DOMAIN free : free[k] # b)
  BY <1>7, ListedIn
<1> QED  BY <1>2, <1>3, <1>4, <1>7, <1>8 DEF IsPinned

\* The records reach the platform in the order the library sealed them, and no
\* generation the platform has is filled, queued or free: for every scenario, whoever
\* carries them, whatever is pinned, refused, lost or released meanwhile.
\* (f_Flush and f_BeginSend against fp_ReleasePin)
THEOREM SealOrderKeptSafe == Spec => []SealOrderKept
<1>1. SealInv => SealOrderKept
  <2> SUFFICES ASSUME SealInv PROVE SealOrderKept
    OBVIOUS
  <2>1. s.wire = Interval(0, Len(s.wire)) /\ (actor.valid => Whole(s))
    BY DEF SealInv, Sails, OnWire
  <2>2. ASSUME actor.valid, NEW i \in DOMAIN s.kernel
        PROVE  LET buffer == s.kernel[i].buffer IN
                 /\ IsPinned(s.tx, buffer)
                 /\ buffer # s.tx.fill
                 /\ \A k \in DOMAIN s.tx.unsent : s.tx.unsent[k] # buffer
                 /\ \A k \in DOMAIN s.tx.free : s.tx.free[k] # buffer
                 /\ \A j \in DOMAIN s.kernel : j # i => s.kernel[j].buffer # buffer
    BY <2>1, <2>2, WholeApart
  <2> QED  BY <2>1, <2>2 DEF SealOrderKept
<1> QED  BY <1>1, SealInit, SealStays, PTL DEF Spec
=============================================================================
