----------------------------- MODULE WireProofs -----------------------------
(***************************************************************************)
(* TLAPS proofs about the operators of Wire: what a backend decodes from a *)
(* parameter header, and which lines of its answer are relayed.            *)
(***************************************************************************)
EXTENDS Wire, SequenceTheorems, WellFoundedInduction, TLAPS

\* Two sequences in a row, element by element.
LEMMA Joined ==
  ASSUME NEW S, NEW a \in Seq(S), NEW b \in Seq(S)
  PROVE  /\ a \o b \in Seq(S) /\ Len(a \o b) = Len(a) + Len(b)
         /\ \A i \in 1..Len(a) : (a \o b)[i] = a[i]
         /\ \A i \in 1..Len(b) : (a \o b)[Len(a) + i] = b[i]
<1> DEFINE c == a \o b
<1>1. c \in Seq(S) /\ Len(c) = Len(a) + Len(b)
  BY ConcatProperties
<1>2. \A i \in 1 .. Len(a) + Len(b) : c[i] = IF i <= Len(a) THEN a[i] ELSE b[i - Len(a)]
  BY ConcatProperties
<1>3. Len(a) \in Nat /\ Len(b) \in Nat
  OBVIOUS
<1> HIDE DEF c
<1>4. \A i \in 1..Len(a) : c[i] = a[i]
  BY <1>2, <1>3
<1>5. \A i \in 1..Len(b) : c[Len(a) + i] = b[i]
  <2> TAKE i \in 1..Len(b)
  <2> DEFINE j == Len(a) + i
  <2>1. j \in 1 .. Len(a) + Len(b) /\ ~(j <= Len(a)) /\ j - Len(a) = i
    BY <1>3
  <2> QED
    BY <1>2, <2>1
<1> QED
  BY <1>1, <1>4, <1>5 DEF c
-----------------------------------------------------------------------------
(* Parameter headers *)

\* HTTP trims nothing from a value whose ends are no blanks.
LEMMA TrimNothing ==
  ASSUME NEW S, NEW s \in Seq(S), s # <<>>, s[1] \notin Blank, s[Len(s)] \notin Blank
  PROVE  TrimBlanks(s) = s
<1> DEFINE n == Len(s)
           inner == {i \in DOMAIN s : s[i] \notin Blank}
           lo == CHOOSE i \in inner : \A j \in inner : i <= j
           hi == CHOOSE i \in inner : \A j \in inner : i >= j
<1>1. n \in Nat /\ n >= 1 /\ DOMAIN s = 1..n
  BY EmptySeq, LenProperties
<1>2. 1 \in inner /\ n \in inner /\ \A j \in inner : j \in Int /\ 1 <= j /\ j <= n
  BY <1>1
<1> HIDE DEF inner
<1>3. lo \in inner /\ \A j \in inner : lo <= j
  BY <1>2
<1>4. hi \in inner /\ \A j \in inner : hi >= j
  BY <1>2
<1>5. TrimBlanks(s) = SubSeq(s, lo, hi)
  BY <1>2 DEF TrimBlanks, inner
<1> HIDE DEF lo, hi
<1>6. lo = 1 /\ hi = n
  BY <1>1, <1>2, <1>3, <1>4
<1> QED
  BY <1>5, <1>6, SubSeqFull

\* The wrapped form of a text, element by element.
LEMMA Wrapped ==
  ASSUME NEW S, NEW s \in Seq(S), \A i \in DOMAIN s : s[i] \in DOMAIN Encoded
  PROVE  LET w == Prefix \o [i \in DOMAIN s |-> Encoded[s[i]]] \o Suffix
             n == Len(s)
         IN  /\ \E T : w \in Seq(T)
             /\ Len(w) = n + 4
             /\ w[1] = "=?base64" /\ w[2] = "?" /\ w[n + 3] = "?" /\ w[n + 4] = "="
             /\ \A i \in 1..n : w[i + 2] = Encoded[s[i]]
<1> DEFINE n == Len(s)
           enc == [i \in DOMAIN s |-> Encoded[s[i]]]
           T == {Encoded[c] : c \in DOMAIN Encoded} \cup {"=?base64", "?", "="}
           v == Prefix \o enc
           w == v \o Suffix
<1>1. n \in Nat /\ DOMAIN s = 1..n
  BY LenProperties
<1>2. enc \in Seq(T) /\ Len(enc) = n /\ \A i \in 1..n : enc[i] = Encoded[s[i]]
  <2>1. enc \in [1..n -> T]
    BY <1>1
  <2> QED
    BY <1>1, <2>1, SeqDef, LenProperties
<1>3. /\ Prefix \in Seq(T) /\ Len(Prefix) = 2 /\ Prefix[1] = "=?base64" /\ Prefix[2] = "?"
      /\ Suffix \in Seq(T) /\ Len(Suffix) = 2 /\ Suffix[1] = "?" /\ Suffix[2] = "="
  BY DEF Prefix, Suffix
<1> HIDE DEF enc, T
<1>4. /\ v \in Seq(T) /\ Len(v) = 2 + n
      /\ v[1] = "=?base64" /\ v[2] = "?" /\ \A i \in 1..n : v[2 + i] = enc[i]
  <2>1. /\ v \in Seq(T) /\ Len(v) = Len(Prefix) + Len(enc)
        /\ \A i \in 1..Len(Prefix) : v[i] = Prefix[i]
        /\ \A i \in 1..Len(enc) : v[Len(Prefix) + i] = enc[i]
    <3>1. Prefix \in Seq(T) /\ enc \in Seq(T)
      BY <1>2, <1>3
    <3> QED
      BY <3>1, Joined
  <2> HIDE DEF v
  <2> QED
    BY <1>2, <1>3, <2>1
<1> HIDE DEF v
<1>5. /\ w \in Seq(T) /\ Len(w) = n + 4
      /\ \A i \in 1..(2 + n) : w[i] = v[i]
      /\ w[n + 3] = "?" /\ w[n + 4] = "="
  <2>1. /\ w \in Seq(T) /\ Len(w) = Len(v) + Len(Suffix)
        /\ \A i \in 1..Len(v) : w[i] = v[i]
        /\ \A i \in 1..Len(Suffix) : w[Len(v) + i] = Suffix[i]
    <3>1. v \in Seq(T) /\ Suffix \in Seq(T)
      BY <1>3, <1>4
    <3> QED
      BY <3>1, Joined
  <2> HIDE DEF w
  <2>2. w[Len(v) + 1] = Suffix[1] /\ w[Len(v) + 2] = Suffix[2]
    BY <1>3, <2>1
  <2> QED
    BY <1>1, <1>3, <1>4, <2>1, <2>2
<1> HIDE DEF w
<1>6. w[1] = "=?base64" /\ w[2] = "?" /\ \A i \in 1..n : w[i + 2] = Encoded[s[i]]
  BY <1>1, <1>2, <1>4, <1>5
<1> QED
  BY <1>5, <1>6 DEF w, v, enc

\* A backend that trims and decodes a parameter header gets the text that was encoded, whatever
\* characters it has: those the header carries as they are, and those that need base64
\* (requiresParamHeaderBase64, encodeParamHeaderValue).
THEOREM HeaderRoundTrip ==
  ASSUME NEW S, NEW s \in Seq(S),
         RequiresBase64(s) => \A i \in DOMAIN s : s[i] \in DOMAIN Encoded
  PROVE  DecodeHeader(EncodeText(s)) = s
<1> DEFINE n == Len(s)
<1>1. n \in Nat /\ DOMAIN s = 1..n
  BY LenProperties
<1>2. CASE RequiresBase64(s)
  <2> DEFINE w == Prefix \o [i \in DOMAIN s |-> Encoded[s[i]]] \o Suffix
             decode(c) == CHOOSE d \in DOMAIN Encoded : Encoded[d] = c
             back == [i \in 1..n |-> decode(w[i + 2])]
  <2>1. /\ \E T : w \in Seq(T)
        /\ Len(w) = n + 4
        /\ w[1] = "=?base64" /\ w[2] = "?" /\ w[n + 3] = "?" /\ w[n + 4] = "="
        /\ \A i \in 1..n : w[i + 2] = Encoded[s[i]]
    BY <1>2, Wrapped
  <2>2. EncodeText(s) = w
    BY <1>2 DEF EncodeText
  <2> HIDE DEF w
  <2>3. PICK T : w \in Seq(T)
    BY <2>1
  <2>4. TrimBlanks(w) = w
    <3>1. w # <<>>
      BY <1>1, <2>1, <2>3
    <3>2. w[1] \notin Blank /\ w[Len(w)] \notin Blank
      BY <2>1 DEF Blank
    <3> QED
      BY <2>3, <3>1, <3>2, TrimNothing
  <2>5. LooksEncoded(w) /\ Len(w) - 4 = n /\ n >= 0
    <3>1. (n + 4) - 1 = n + 3 /\ n + 4 >= 2 /\ (n + 4) - 4 = n /\ n >= 0
      BY <1>1
    <3> QED
      BY <2>1, <3>1 DEF LooksEncoded, Prefix, Suffix
  <2>6. DecodeHeader(w) = back
    <3> DEFINE dec(x) == [i \in 1..(Len(x) - 4) |-> decode(x[i + 2])]
               t == TrimBlanks(w)
    <3>1. DecodeHeader(w) = IF Len(t) - 4 >= 0 /\ LooksEncoded(t) THEN dec(t) ELSE t
      BY DEF DecodeHeader
    <3>2. dec(w) = back
      BY <2>5
    <3> HIDE DEF dec, back
    <3> QED
      BY <2>4, <2>5, <3>1, <3>2
  <2>7. ASSUME NEW i \in 1..n PROVE decode(w[i + 2]) = s[i]
    <3>1. s[i] \in DOMAIN Encoded /\ w[i + 2] = Encoded[s[i]]
      BY <1>1, <1>2, <2>1
    <3>2. \A d \in DOMAIN Encoded : Encoded[d] = Encoded[s[i]] => d = s[i]
      BY <3>1, EncodedAssumption
    <3> QED
      BY <3>1, <3>2
  <2>8. back = s
    <3>1. back = [i \in 1..n |-> s[i]]
      BY <2>7
    <3>2. s = [i \in 1..n |-> s[i]]
      BY <1>1
    <3> QED
      BY <3>1, <3>2
  <2> QED
    BY <2>2, <2>6, <2>8
<1>3. CASE ~RequiresBase64(s)
  <2>1. EncodeText(s) = s
    BY <1>3 DEF EncodeText
  <2>2. CASE s = <<>>
    <3> DEFINE e == <<>>
    <3>1. TrimBlanks(e) = e
      BY DEF TrimBlanks
    <3>2. Len(e) = 0
      OBVIOUS
    <3> HIDE DEF e
    <3>3. DecodeHeader(e) = e
      BY <3>1, <3>2 DEF DecodeHeader
    <3> QED
      BY <2>1, <2>2, <3>3 DEF e
  <2>3. CASE s # <<>>
    <3>1. s[1] \notin Blank /\ s[Len(s)] \notin Blank /\ ~LooksEncoded(s)
      BY <1>3, <2>3 DEF RequiresBase64
    <3>2. TrimBlanks(s) = s
      BY <2>3, <3>1, TrimNothing
    <3> QED
      BY <2>1, <3>1, <3>2 DEF DecodeHeader
  <2> QED
    BY <2>2, <2>3
<1> QED
  BY <1>2, <1>3

\* float64: an integer up to 2^53 is itself.
LEMMA FloatIsExact ==
  ASSUME NEW n \in Int, n <= FloatExact, -FloatExact <= n
  PROVE  Float(n) = n
<1> DEFINE m == IF n < 0 THEN -n ELSE n
<1>1. FloatExact \in Int
  <2>1. FloatExact \in Nat \ {0}
    BY EncodedAssumption, Zenon
  <2> QED
    BY <2>1
<1>2. m \in Int /\ m <= FloatExact /\ n = IF n < 0 THEN -m ELSE m
  BY <1>1
<1> QED
  BY <1>2 DEF Float
-----------------------------------------------------------------------------
(* Answers of backends *)

\* A nonempty set of naturals has a least element.
LEMMA LeastOf ==
  ASSUME NEW T, T \subseteq Nat, T # {}
  PROVE  \E i \in T : \A j \in T : i <= j
<1>1. PICK i \in T : \A j \in T : ~ (<<j, i>> \in OpToRel(<, Nat))
  BY WFMin, NatLessThanWellFounded
<1>2. \A j \in T : ~(j < i)
  BY <1>1, Zenon DEF OpToRel
<1> QED
  BY <1>2

\* Where decodeSSE stops reading: no blank line before that follows a line of data, and there
\* a blank line that does, or the end of the stream.
LEMMA WhereItEnds ==
  ASSUME NEW reply, Framed(reply), NEW payload \in DecodeSSE(reply.lines)
  PROVE  LET lines == reply.lines
         IN  \E end \in Nat :
               /\ \A b \in DOMAIN lines : \A i \in DOMAIN lines :
                     lines[b][1] = "blank" /\ IsData(lines[i]) /\ i < b => end <= b
               /\ end <= Len(lines) => lines[end][1] = "blank"
               /\ end <= Len(lines) + 1
               /\ payload = {i \in 1..(end - 1) : IsData(lines[i])}
<1> DEFINE lines == reply.lines
           n == Len(lines)
           closed == {i \in DOMAIN lines : /\ lines[i][1] \in {"blank", "cut"}
                                           /\ \/ \E j \in 1..(i - 1) : IsData(lines[j])
                                              \/ lines[i][1] = "cut"}
           end == IF closed = {} THEN n + 1 ELSE CHOOSE i \in closed : \A j \in closed : i <= j
           data == {i \in 1..(end - 1) : IsData(lines[i])}
<1>1. n \in Nat /\ DOMAIN lines = 1..n
  BY DEF Framed
<1>2. DecodeSSE(lines) = IF data = {} \/ (end <= n /\ lines[end][1] = "cut") THEN {} ELSE {data}
  BY DEF DecodeSSE
<1>3. closed \subseteq 1..n
  BY <1>1
<1>4. \A b \in closed : lines[b][1] \in {"blank", "cut"}
  OBVIOUS
<1>5. \A b \in DOMAIN lines : \A i \in DOMAIN lines :
         lines[b][1] = "blank" /\ IsData(lines[i]) /\ i < b => b \in closed
  <2> TAKE b \in DOMAIN lines
  <2> TAKE i \in DOMAIN lines
  <2> HAVE lines[b][1] = "blank" /\ IsData(lines[i]) /\ i < b
  <2>1. i \in 1..(b - 1)
    BY <1>1
  <2> QED
    BY <2>1
<1> HIDE DEF closed
<1>6. CASE closed = {}
  <2>1. end = n + 1
    BY <1>6
  <2> HIDE DEF end
  <2> QED
    BY <1>1, <1>2, <1>5, <1>6, <2>1
<1>7. CASE closed # {}
  <2>1. \E i \in closed : \A j \in closed : i <= j
    <3>1. closed \subseteq Nat
      BY <1>1, <1>3
    <3> QED
      BY <1>7, <3>1, LeastOf, Zenon
  <2>2. end \in closed /\ \A j \in closed : end <= j
    BY <1>7, <2>1
  <2> HIDE DEF end
  <2>3. end \in 1..n /\ lines[end][1] \in {"blank", "cut"}
    BY <1>3, <1>4, <2>2
  <2>4. payload = data /\ lines[end][1] = "blank"
    BY <1>1, <1>2, <2>3
  <2> QED
    BY <1>1, <1>5, <2>2, <2>3, <2>4
<1> QED
  BY <1>6, <1>7

\* What a call relays of a backend's answer, if it is not empty, is the first message of it and
\* the whole of that message: no line of a later one, no line left out (decodeSSE, decodeBody).
THEOREM FirstMessageRelayed ==
  ASSUME NEW reply, Framed(reply), NEW payload \in Posted(reply), payload # {}
  PROVE  LET lines == reply.lines
             datas == {i \in DOMAIN lines : IsData(lines[i])}
         IN  \E first \in datas : /\ payload = {i \in datas : lines[i][2] = lines[first][2]}
                                  /\ \A i \in datas : lines[i][2] >= lines[first][2]
<1> DEFINE lines == reply.lines
           n == Len(lines)
           datas == {i \in DOMAIN lines : IsData(lines[i])}
           blank(i, j) == \E b \in (i + 1)..(j - 1) : lines[b][1] = "blank"
<1>1. n \in Nat /\ DOMAIN lines = 1..n
  BY DEF Framed
<1>2. /\ \A i \in datas : lines[i][2] \in Nat
      /\ \A i, j \in datas : i < j =>
            IF blank(i, j) THEN lines[i][2] < lines[j][2] ELSE lines[i][2] = lines[j][2]
  BY DEF Framed
<1>3. \E end \in Nat :
         /\ \A b \in DOMAIN lines : \A i \in DOMAIN lines :
               lines[b][1] = "blank" /\ IsData(lines[i]) /\ i < b => end <= b
         /\ end <= n => lines[end][1] = "blank"
         /\ end <= n + 1
         /\ payload = {i \in 1..(end - 1) : IsData(lines[i])}
  <2>1. payload \in DecodeBody(reply)
    BY DEF Posted
  <2>2. CASE reply.stream
    <3>1. payload \in DecodeSSE(reply.lines)
      BY <2>1, <2>2 DEF DecodeBody
    <3> QED
      BY <3>1, WhereItEnds
  <2>3. CASE ~reply.stream
    <3>1. payload = DOMAIN lines /\ \A i \in DOMAIN lines : lines[i][1] # "cut"
      BY <2>1, <2>3 DEF DecodeBody
    <3>2. \A i \in DOMAIN lines : lines[i][1] = "data"
      BY <2>3, <3>1 DEF Framed
    <3>3. payload = {i \in 1..((n + 1) - 1) : IsData(lines[i])}
      BY <1>1, <3>1, <3>2 DEF IsData
    <3> HIDE DEF lines
    <3> QED
      BY <1>1, <3>2, <3>3
  <2> QED
    BY <2>2, <2>3
<1>4. PICK end \in Nat :
         /\ \A b \in DOMAIN lines : \A i \in DOMAIN lines :
               lines[b][1] = "blank" /\ IsData(lines[i]) /\ i < b => end <= b
         /\ end <= n => lines[end][1] = "blank"
         /\ end <= n + 1
         /\ payload = {i \in 1..(end - 1) : IsData(lines[i])}
  BY <1>3
<1> HIDE DEF lines
<1>5. PICK first \in payload : TRUE
  OBVIOUS
<1>6. first \in datas /\ first \in 1..n /\ first < end
  BY <1>1, <1>4
<1>7. payload = {i \in datas : i < end}
  BY <1>1, <1>4
<1>8. ASSUME NEW i \in datas, NEW j \in datas, i < j, j < end
      PROVE  lines[i][2] = lines[j][2]
  <2>1. ~blank(i, j)
    BY <1>1, <1>4, <1>8
  <2> QED
    BY <1>2, <1>8, <2>1
<1>9. ASSUME NEW i \in datas, end <= i
      PROVE  lines[first][2] < lines[i][2]
  <2>1. i \in 1..n /\ end \in 1..n /\ lines[end][1] = "blank" /\ lines[i][1] = "data"
    BY <1>1, <1>4, <1>6, <1>9 DEF IsData
  <2>2. end # i
    BY <2>1
  <2>3. blank(first, i) /\ first < i
    BY <1>6, <1>9, <2>1, <2>2
  <2> HIDE DEF blank
  <2> QED
    BY <1>2, <1>6, <2>3
<1>10. ASSUME NEW i \in datas
       PROVE  /\ i < end => lines[i][2] = lines[first][2]
              /\ ~(i < end) => lines[first][2] < lines[i][2]
              /\ lines[i][2] \in Nat /\ lines[first][2] \in Nat
  <2>1. i \in Nat /\ lines[i][2] \in Nat /\ lines[first][2] \in Nat
    BY <1>1, <1>2, <1>6
  <2>2. CASE i < end
    <3>1. CASE i < first
      BY <1>6, <1>8, <2>1, <3>1
    <3>2. CASE first < i
      BY <1>6, <1>8, <2>1, <2>2, <3>2
    <3> QED
      BY <1>6, <2>1, <2>2, <3>1, <3>2
  <2>3. CASE ~(i < end)
    BY <1>9, <2>1, <2>3
  <2> QED
    BY <2>1, <2>2, <2>3
<1>11. payload = {i \in datas : lines[i][2] = lines[first][2]}
  BY <1>7, <1>10
<1>12. \A i \in datas : lines[i][2] >= lines[first][2]
  BY <1>10
<1> QED
  BY <1>6, <1>11, <1>12 DEF lines
=============================================================================
