--------------------------- MODULE EndpointProofs ---------------------------
(***************************************************************************)
(* TLAPS proofs about the operators of Endpoint: the URLs of oauth.go.     *)
(***************************************************************************)
EXTENDS Endpoint, WireProofs, TLAPS

\* strings.TrimSuffix takes off what was put on.
LEMMA TrimJoined ==
  ASSUME NEW S, NEW x \in Seq(S), NEW suf \in Seq(S), suf # <<>>
  PROVE  /\ TrimSuffix(x \o suf, suf) = x
         /\ x \o suf # x
<1> DEFINE y == x \o suf
           n == Len(x)
           k == Len(suf)
<1>1. n \in Nat /\ k \in Nat /\ k >= 1
  BY EmptySeq, LenProperties
<1>2. /\ y \in Seq(S) /\ Len(y) = n + k
      /\ \A i \in 1..n : y[i] = x[i]
      /\ \A i \in 1..k : y[n + i] = suf[i]
  BY Joined
<1> HIDE DEF y
<1>3. SubSeq(y, n + 1, n + k) = suf
  <2> DEFINE z == SubSeq(y, n + 1, n + k)
  <2>1. \A i \in (n + 1)..(n + k) : y[i] \in S
    BY <1>1, <1>2
  <2>2. z \in Seq(S) /\ Len(z) = k /\ \A i \in 1..k : z[i] = y[(n + 1) + i - 1]
    <3>1. /\ z \in Seq(S) /\ Len(z) = IF n + 1 <= n + k THEN (n + k) - (n + 1) + 1 ELSE 0
          /\ \A i \in 1..((n + k) - (n + 1) + 1) : z[i] = y[(n + 1) + i - 1]
      BY <1>1, <2>1, SubSeqProperties
    <3>2. (n + k) - (n + 1) + 1 = k /\ n + 1 <= n + k
      BY <1>1
    <3> HIDE DEF z
    <3> QED
      BY <3>1, <3>2
  <2> HIDE DEF z
  <2>3. \A i \in 1..k : z[i] = suf[i]
    BY <1>1, <1>2, <2>2
  <2>4. z = suf
    BY <2>2, <2>3, SeqEqual
  <2> QED
    BY <2>4 DEF z
<1>4. SubSeq(y, 1, n) = x
  <2> DEFINE z == SubSeq(y, 1, n)
  <2>1. \A i \in 1..n : y[i] \in S
    BY <1>1, <1>2
  <2>2. z \in Seq(S) /\ Len(z) = n /\ \A i \in 1..n : z[i] = y[i]
    <3>1. /\ z \in Seq(S) /\ Len(z) = IF 1 <= n THEN n - 1 + 1 ELSE 0
          /\ \A i \in 1..(n - 1 + 1) : z[i] = y[1 + i - 1]
      BY <1>1, <2>1, SubSeqProperties
    <3> HIDE DEF z
    <3> QED
      BY <1>1, <3>1
  <2> HIDE DEF z
  <2>3. z = x
    BY <1>2, <2>2, SeqEqual
  <2> QED
    BY <2>3 DEF z
<1>5. /\ Len(y) >= k /\ Len(y) - k + 1 = n + 1 /\ Len(y) - k = n /\ Len(y) # n
  BY <1>1, <1>2
<1>6. TrimSuffix(y, suf) = x
  BY <1>2, <1>3, <1>4, <1>5 DEF TrimSuffix
<1> QED
  BY <1>5, <1>6 DEF y

\* What it takes off was there.
LEMMA Trimmed ==
  ASSUME NEW S, NEW s \in Seq(S), NEW suf \in Seq(S)
  PROVE  LET t == TrimSuffix(s, suf)
         IN  /\ t \in Seq(S)
             /\ t # s => s = t \o suf
<1> DEFINE n == Len(s)
           k == Len(suf)
           t == SubSeq(s, 1, n - k)
           u == SubSeq(s, n - k + 1, n)
<1>1. n \in Nat /\ k \in Nat
  BY LenProperties
<1>2. CASE n >= k /\ u = suf
  <2>1. TrimSuffix(s, suf) = t
    BY <1>2 DEF TrimSuffix
  <2>2. t \in Seq(S)
    <3>1. n - k \in Int /\ \A i \in 1..(n - k) : s[i] \in S
      BY <1>1
    <3> QED
      BY <3>1, SubSeqProperties
  <2>3. t \o u = s
    <3>1. 1 \in 1..(Len(s) + 1) /\ n - k \in (1 - 1)..Len(s) /\ n \in (n - k)..Len(s)
      BY <1>1, <1>2
    <3>2. t \o u = SubSeq(s, 1, n)
      BY <3>1, ConcatAdjacentSubSeq
    <3> QED
      BY <3>2, SubSeqFull
  <2> HIDE DEF t, u
  <2> QED
    BY <1>2, <2>1, <2>2, <2>3
<1>3. CASE ~(n >= k /\ u = suf)
  BY <1>3 DEF TrimSuffix
<1> QED
  BY <1>2, <1>3

\* A text whose last piece is no slash keeps it.
LEMMA NoSlashNoTrim ==
  ASSUME NEW S, "/" \in S, NEW s \in Seq(S)
  PROVE  IF s = <<>> \/ s[Len(s)] # "/" THEN TrimSuffix(s, <<"/">>) = s
                                        ELSE TrimSuffix(s, <<"/">>) # s
<1> DEFINE w == <<"/">>
           n == Len(s)
<1>1. w \in Seq(S) /\ Len(w) = 1 /\ w[1] = "/" /\ w # <<>>
  OBVIOUS
<1>2. n \in Nat
  BY LenProperties
<1> HIDE DEF w
<1>3. CASE s = <<>> \/ s[n] # "/"
  <2> SUFFICES ASSUME TrimSuffix(s, w) # s PROVE FALSE
    BY <1>3 DEF w
  <2>1. TrimSuffix(s, w) \in Seq(S) /\ s = TrimSuffix(s, w) \o w
    BY <1>1, Trimmed
  <2> DEFINE t == TrimSuffix(s, w)
  <2> HIDE DEF t
  <2>2. /\ Len(s) = Len(t) + Len(w) /\ \A i \in 1..Len(w) : s[Len(t) + i] = w[i]
        /\ Len(t) \in Nat
    <3>1. t \in Seq(S) /\ s = t \o w
      BY <2>1 DEF t
    <3> QED
      BY <1>1, <3>1, Joined
  <2>3. s[n] = "/" /\ n # 0
    BY <1>1, <2>2
  <2> QED
    BY <1>3, <2>3
<1>4. CASE ~(s = <<>> \/ s[n] # "/")
  <2>1. n >= 1
    BY <1>2, <1>4, EmptySeq, LenProperties
  <2> DEFINE z == SubSeq(s, n, n)
             t == SubSeq(s, 1, n - 1)
  <2>2. z = w
    <3>1. \A i \in n..n : s[i] \in S
      BY <1>2, <2>1
    <3>2. /\ z \in Seq(S) /\ Len(z) = IF n <= n THEN n - n + 1 ELSE 0
          /\ \A i \in 1..(n - n + 1) : z[i] = s[n + i - 1]
      BY <1>2, <3>1, SubSeqProperties
    <3> HIDE DEF z
    <3>3. z \in Seq(S) /\ Len(z) = 1 /\ \A i \in 1..1 : z[i] = w[i]
      BY <1>1, <1>2, <1>4, <3>2
    <3> QED
      BY <1>1, <3>3, SeqEqual
  <2>3. n - 1 + 1 = n
    BY <1>2
  <2>4. TrimSuffix(s, w) = t
    BY <1>1, <2>1, <2>2, <2>3 DEF TrimSuffix
  <2>5. Len(t) # n
    <3>1. n - 1 \in Int /\ \A i \in 1..(n - 1) : s[i] \in S
      BY <1>2
    <3>2. Len(t) = IF 1 <= n - 1 THEN n - 1 - 1 + 1 ELSE 0
      BY <3>1, SubSeqProperties
    <3> HIDE DEF t
    <3> QED
      BY <1>2, <2>1, <3>2
  <2> HIDE DEF t
  <2> QED
    BY <1>4, <2>4, <2>5 DEF w
<1> QED
  BY <1>3, <1>4

\* Without empty segments, the external URL less its last slash ends in no slash, and neither
\* does what is left of it when the path has been taken off.
LEMMA NoSlashLeft ==
  ASSUME NEW S, "/" \in S, NEW e \in Seq(S), NEW p \in Seq(S), p # <<>>, p[1] = "/",
         \A i \in 1..(Len(e) - 1) : ~(e[i] = "/" /\ e[i + 1] = "/")
  PROVE  LET ext  == TrimSuffix(e, <<"/">>)
             rest == TrimSuffix(ext, p)
         IN  /\ ext \in Seq(S) /\ rest \in Seq(S)
             /\ TrimSuffix(ext, <<"/">>) = ext
             /\ rest # ext => ext = rest \o p /\ TrimSuffix(rest, <<"/">>) = rest
<1> DEFINE w    == <<"/">>
           ext  == TrimSuffix(e, w)
           rest == TrimSuffix(ext, p)
<1>1. w \in Seq(S) /\ Len(w) = 1 /\ w[1] = "/" /\ w # <<>>
  OBVIOUS
<1>2. Len(e) \in Nat /\ Len(p) \in Nat /\ Len(p) >= 1
  BY EmptySeq, LenProperties
<1>3. ext \in Seq(S) /\ (ext # e => e = ext \o w)
  BY <1>1, Trimmed
<1>4. IF e = <<>> \/ e[Len(e)] # "/" THEN ext = e ELSE ext # e
  BY <1>1, NoSlashNoTrim
<1>5. ASSUME NEW s \in Seq(S), s = <<>> \/ s[Len(s)] # "/"
      PROVE  TrimSuffix(s, w) = s
  BY <1>1, <1>5, NoSlashNoTrim
<1> HIDE DEF w, ext
<1>6. /\ Len(ext) \in Nat /\ Len(ext) <= Len(e)
      /\ \A i \in 1..Len(ext) : ext[i] = e[i]
      /\ ext # e => Len(e) = Len(ext) + 1 /\ e[Len(ext) + 1] = "/"
  <2>1. Len(ext) \in Nat
    BY <1>3, LenProperties
  <2>2. CASE ext = e
    BY <1>2, <2>2
  <2>3. CASE ext # e
    <3>1. /\ Len(e) = Len(ext) + Len(w)
          /\ \A i \in 1..Len(ext) : e[i] = ext[i]
          /\ \A i \in 1..Len(w) : e[Len(ext) + i] = w[i]
      <4>1. e = ext \o w /\ ext \in Seq(S) /\ w \in Seq(S)
        BY <1>1, <1>3, <2>3
      <4> QED
        BY <4>1, Joined
    <3> QED
      BY <1>1, <2>1, <3>1
  <2> QED
    BY <2>2, <2>3
<1>7. ext = <<>> \/ ext[Len(ext)] # "/"
  <2>1. CASE ext = e
    BY <1>4, <2>1
  <2>2. CASE ext # e
    <3> SUFFICES ASSUME ext # <<>>, ext[Len(ext)] = "/" PROVE FALSE
      OBVIOUS
    <3>1. Len(ext) >= 1
      BY <1>3, <1>6, EmptySeq, LenProperties
    <3>2. Len(ext) \in 1..(Len(e) - 1) /\ e[Len(ext)] = "/" /\ e[Len(ext) + 1] = "/"
      BY <1>6, <2>2, <3>1
    <3> QED
      BY <3>2
  <2> QED
    BY <2>1, <2>2
<1>8. TrimSuffix(ext, w) = ext
  BY <1>3, <1>5, <1>7
<1>9. rest \in Seq(S) /\ (rest # ext => ext = rest \o p)
  BY <1>3, Trimmed
<1> HIDE DEF rest
<1>10. ASSUME rest # ext PROVE TrimSuffix(rest, w) = rest
  <2>1. Len(rest) \in Nat
    BY <1>9, LenProperties
  <2>2. /\ Len(ext) = Len(rest) + Len(p)
        /\ \A i \in 1..Len(rest) : ext[i] = rest[i]
        /\ \A i \in 1..Len(p) : ext[Len(rest) + i] = p[i]
    BY <1>9, <1>10, Joined
  <2>3. ext[Len(rest) + 1] = "/"
    BY <1>2, <2>2
  <2>4. rest = <<>> \/ rest[Len(rest)] # "/"
    <3> SUFFICES ASSUME rest # <<>>, rest[Len(rest)] = "/" PROVE FALSE
      OBVIOUS
    <3>1. Len(rest) >= 1
      BY <1>9, <2>1, EmptySeq, LenProperties
    <3>2. /\ Len(rest) \in 1..(Len(e) - 1)
          /\ Len(rest) \in 1..Len(ext) /\ Len(rest) + 1 \in 1..Len(ext)
      BY <1>2, <1>6, <2>1, <2>2, <3>1
    <3>3. e[Len(rest)] = ext[Len(rest)] /\ e[Len(rest) + 1] = ext[Len(rest) + 1]
      BY <1>6, <3>2
    <3>4. ext[Len(rest)] = rest[Len(rest)]
      BY <2>1, <2>2, <3>1
    <3> QED
      BY <2>3, <3>2, <3>3, <3>4
  <2> QED
    BY <1>5, <1>9, <2>4
<1> QED
  BY <1>3, <1>8, <1>9, <1>10 DEF rest, ext, w

\* The metadata document of a challenge lies below the base of the resource that it names, for
\* every absolute path, with or without an external URL, which may end in the path, in a slash
\* or in both (metadataURL, resourceURL).
THEOREM MetadataBesideResource ==
  ASSUME NEW c, NEW q, NEW S, c.external \in Seq(S), c.path \in Seq(S), c.path # <<>>,
         UsualURLs(c)
  PROVE  LET url  == MetadataURL(c, q)
             base == TrimSuffix(url, WellKnown)
         IN  /\ base # url
             /\ ResourceURL(c, q) = base \o c.path
<1> DEFINE e == c.external
           p == c.path
           ext  == TrimSuffix(e, <<"/">>)
           rest == TrimSuffix(ext, p)
<1> DEFINE T == S \cup {"/", ".well-known", "oauth-protected-resource"} \cup {"https://host", "http://host"}
<1>1. /\ WellKnown \in Seq(T) /\ WellKnown # <<>> /\ e \in Seq(T) /\ p \in Seq(T)
      /\ "/" \in T /\ {"https://host", "http://host"} \subseteq T
  BY DEF WellKnown
<1> HIDE DEF T
<1>2. ASSUME NEW base \in Seq(T), MetadataURL(c, q) = base \o WellKnown,
             ResourceURL(c, q) = base \o p
      PROVE  LET url == MetadataURL(c, q)
                 b   == TrimSuffix(url, WellKnown)
             IN  b # url /\ ResourceURL(c, q) = b \o p
  <2>1. TrimSuffix(base \o WellKnown, WellKnown) = base /\ base \o WellKnown # base
    BY <1>1, TrimJoined
  <2> QED
    BY <1>2, <2>1
<1>3. CASE e = <<>>
  <2>1. Origin(q) \in Seq(T)
    <3>1. "https://host" \in T /\ "http://host" \in T
      BY <1>1
    <3> QED
      BY <3>1 DEF Origin
  <2>2. MetadataURL(c, q) = Origin(q) \o WellKnown /\ ResourceURL(c, q) = Origin(q) \o p
    BY <1>3 DEF MetadataURL, ResourceURL
  <2> QED
    BY <1>2, <2>1, <2>2
<1>4. CASE e # <<>>
  <2>1. /\ ext \in Seq(T) /\ rest \in Seq(T)
        /\ TrimSuffix(ext, <<"/">>) = ext
        /\ rest # ext => ext = rest \o p /\ TrimSuffix(rest, <<"/">>) = rest
    <3>1. /\ "/" \in T /\ e \in Seq(T) /\ p \in Seq(T) /\ p # <<>> /\ p[1] = "/"
          /\ \A i \in 1..(Len(e) - 1) : ~(e[i] = "/" /\ e[i + 1] = "/")
      BY <1>1 DEF UsualURLs
    <3> HIDE DEF e, p
    <3> QED
      BY <3>1, NoSlashLeft, Zenon
  <2>2. /\ MetadataURL(c, q) = TrimSuffix(rest, <<"/">>) \o WellKnown
        /\ ResourceURL(c, q) = IF rest = ext THEN ext \o p ELSE ext
    BY <1>4 DEF MetadataURL, ResourceURL
  <2> HIDE DEF ext, rest
  <2>3. MetadataURL(c, q) = rest \o WellKnown /\ ResourceURL(c, q) = rest \o p
    BY <2>1, <2>2
  <2> QED
    BY <1>2, <2>1, <2>3
<1> QED
  BY <1>3, <1>4
=============================================================================
