------------------------------ MODULE SemVerProofs ------------------------------
(***************************************************************************)
(* What the version arithmetic guarantees, for every version.              *)
(***************************************************************************)
EXTENDS SemVer, TLAPS

\* parseSemVer yields three numbers of every version, also of a missing one.
LEMMA ParseType ==
    ASSUME NEW v \in Version \cup {Absent}
    PROVE  /\ ParseSemVer(v) \in Version
           /\ ParseSemVer(v).suffix = NoSuffix
BY VersionAssumption DEF ParseSemVer, Plain, Version

\* Versions that formatSemVer writes parse as themselves.
LEMMA ParseOfPlain ==
    ASSUME NEW a \in Nat, NEW b \in Nat, NEW c \in Nat
    PROVE  /\ Plain(a, b, c) \in Version
           /\ ParseSemVer(Plain(a, b, c)) = Plain(a, b, c)
BY VersionAssumption DEF ParseSemVer, Plain, Version

\* What ApplyBump returns, number by number.
Numbers(p, q, b) ==
    /\ b = 3 => q.major = p.major + 1
    /\ b = 2 => q.major = p.major /\ q.minor = p.minor + 1
    /\ b = 1 => q.major = p.major /\ q.minor = p.minor /\ q.patch = p.patch + 1

\* Each bump raises its own number and keeps those before it.
LEMMA ApplyBumpNumbers ==
    ASSUME NEW v \in Version \cup {Absent}, NEW b \in 1 .. 3
    PROVE  /\ ApplyBump(v, b) \in Version
           /\ ParseSemVer(v) \in Version
           /\ ParseSemVer(ApplyBump(v, b)) \in Version
           /\ Numbers(ParseSemVer(v), ParseSemVer(ApplyBump(v, b)), b)
<1> DEFINE p == ParseSemVer(v)
<1>1. p \in Version /\ p.major \in Nat /\ p.minor \in Nat /\ p.patch \in Nat
  BY ParseType DEF Version
<1> HIDE DEF p
<1>2. CASE b = 3
  <2>1. ApplyBump(v, b) = Plain(p.major + 1, 0, 0)
    BY <1>2 DEF ApplyBump, BumpMajor, BumpMinor, BumpPatch, p
  <2> QED
    BY <1>1, <1>2, <2>1, ParseOfPlain DEF Numbers, Plain, p
<1>3. CASE b = 2
  <2>1. ApplyBump(v, b) = Plain(p.major, p.minor + 1, 0)
    BY <1>3 DEF ApplyBump, BumpMajor, BumpMinor, BumpPatch, p
  <2> QED
    BY <1>1, <1>3, <2>1, ParseOfPlain DEF Numbers, Plain, p
<1>4. CASE b = 1
  <2>1. ApplyBump(v, b) = Plain(p.major, p.minor, p.patch + 1)
    BY <1>4 DEF ApplyBump, BumpMajor, BumpMinor, BumpPatch, p
  <2> QED
    BY <1>1, <1>4, <2>1, ParseOfPlain DEF Numbers, Plain, p
<1> QED
  BY <1>2, <1>3, <1>4

\* The order of versions can be chained.
LEMMA EarlierTransitive ==
    ASSUME NEW u \in Version \cup {Absent}, NEW v \in Version \cup {Absent},
           NEW w \in Version \cup {Absent},
           ~Earlier(v, u), ~Earlier(w, v)
    PROVE  ~Earlier(w, u)
<1> DEFINE P(x) == ParseSemVer(x)
<1>1. \A x \in {u, v, w} : P(x).major \in Nat /\ P(x).minor \in Nat /\ P(x).patch \in Nat
  BY ParseType DEF Version
<1> HIDE DEF P
<1> QED
  BY <1>1 DEF Earlier, P

\* No version is earlier than itself.
LEMMA NotEarlierItself ==
    ASSUME NEW v \in Version \cup {Absent}
    PROVE  ~Earlier(v, v)
<1>1. ParseSemVer(v).major \in Nat /\ ParseSemVer(v).minor \in Nat /\ ParseSemVer(v).patch \in Nat
  BY ParseType DEF Version
<1> QED
  BY <1>1 DEF Earlier

\* In the order of the parsed numbers, a bumped version is later than the one
\* it was made from.
LEMMA BumpIsLater ==
    ASSUME NEW v \in Version \cup {Absent}, NEW b \in 1 .. 3
    PROVE  Earlier(v, ApplyBump(v, b)) /\ ~Earlier(ApplyBump(v, b), v)
<1> DEFINE p == ParseSemVer(v)
           q == ParseSemVer(ApplyBump(v, b))
<1>1. /\ q \in Version /\ p \in Version
      /\ Numbers(p, q, b)
  BY ApplyBumpNumbers
<1>2. /\ p.major \in Nat /\ p.minor \in Nat /\ p.patch \in Nat
      /\ q.major \in Nat /\ q.minor \in Nat /\ q.patch \in Nat
  BY <1>1 DEF Version
<1> HIDE DEF p, q
<1>3. \/ p.major < q.major
      \/ p.major = q.major /\ p.minor < q.minor
      \/ p.major = q.major /\ p.minor = q.minor /\ p.patch < q.patch
  BY <1>1, <1>2 DEF Numbers
<1>4. ~(\/ q.major < p.major
        \/ q.major = p.major /\ q.minor < p.minor
        \/ q.major = p.major /\ q.minor = p.minor /\ q.patch < p.patch)
  BY <1>2, <1>3
<1> QED
  BY <1>3, <1>4 DEF Earlier, p, q

\* The order of the numbers as they are written, whatever the suffix.
WrittenBefore(v, w) ==
    \/ v.major < w.major
    \/ v.major = w.major /\ v.minor < w.minor
    \/ v.major = w.major /\ v.minor = w.minor /\ v.patch < w.patch

\* applyBump raises the numbers as they are written, with one exception: a
\* patch of a version with a suffix restarts the third number at 1, and so
\* takes the version back exactly when that number was above 1, as that of
\* "13.2.5_20230928" is.
THEOREM BumpAdvances ==
    ASSUME NEW v \in Version, NEW b \in 1 .. 3
    PROVE  /\ v.suffix = NoSuffix \/ b # BumpPatch => WrittenBefore(v, ApplyBump(v, b))
           /\ v.suffix # NoSuffix /\ b = BumpPatch
                 => ApplyBump(v, b) = Plain(v.major, v.minor, 1)
           /\ WrittenBefore(ApplyBump(v, b), v)
                 <=> v.suffix # NoSuffix /\ b = BumpPatch /\ v.patch > 1
<1> DEFINE third == IF v.suffix = NoSuffix THEN v.patch ELSE 0
<1>1. v.major \in Nat /\ v.minor \in Nat /\ v.patch \in Nat
  BY DEF Version
<1>2. /\ ParseSemVer(v).major = v.major /\ ParseSemVer(v).minor = v.minor
      /\ ParseSemVer(v).patch = third
  BY VersionAssumption DEF ParseSemVer, Plain
<1>3. CASE b = BumpMajor
  <2>1. ApplyBump(v, b) = Plain(v.major + 1, 0, 0)
    BY <1>2, <1>3 DEF ApplyBump, BumpMajor, BumpMinor, BumpPatch
  <2> QED
    BY <1>1, <1>3, <2>1 DEF WrittenBefore, Plain, BumpMajor, BumpPatch
<1>4. CASE b = BumpMinor
  <2>1. ApplyBump(v, b) = Plain(v.major, v.minor + 1, 0)
    BY <1>2, <1>4 DEF ApplyBump, BumpMajor, BumpMinor, BumpPatch
  <2> QED
    BY <1>1, <1>4, <2>1 DEF WrittenBefore, Plain, BumpMinor, BumpPatch
<1>5. CASE b = BumpPatch
  <2>1. ApplyBump(v, b) = Plain(v.major, v.minor, third + 1)
    BY <1>2, <1>5 DEF ApplyBump, BumpMajor, BumpMinor, BumpPatch
  <2> QED
    BY <1>1, <1>5, <2>1 DEF WrittenBefore, Plain
<1> QED
  BY <1>3, <1>4, <1>5 DEF BumpMajor, BumpMinor, BumpPatch

\* Where the script sees no step back and the numbers as written take one, a
\* version with a suffix has lost its third number.
LEMMA OnlyDatesRestart ==
    ASSUME NEW v \in Version, NEW w \in Version,
           WrittenBefore(w, v), ~Earlier(w, v)
    PROVE  v.suffix # NoSuffix /\ w.major = v.major /\ w.minor = v.minor
<1> DEFINE third(x) == IF x.suffix = NoSuffix THEN x.patch ELSE 0
<1>1. \A x \in {v, w} :
          /\ x.major \in Nat /\ x.minor \in Nat /\ x.patch \in Nat
          /\ ParseSemVer(x).major = x.major /\ ParseSemVer(x).minor = x.minor
          /\ ParseSemVer(x).patch = third(x)
  BY VersionAssumption DEF ParseSemVer, Plain, Version
<1> QED
  BY <1>1 DEF WrittenBefore, Earlier

\* calcBumpType recognises what applyBump did: the two halves of the script,
\* and the next run that compares its commit, speak of the same bumps.
THEOREM BumpIsRecognised ==
    ASSUME NEW v \in Version, NEW b \in 1 .. 3
    PROVE  CalcBump(v, ApplyBump(v, b)) = b
<1> DEFINE w == ApplyBump(v, b)
           p == ParseSemVer(v)
           q == ParseSemVer(w)
<1>1. /\ w \in Version /\ q \in Version /\ p \in Version
      /\ Numbers(p, q, b)
  BY ApplyBumpNumbers
<1>2. /\ p.major \in Nat /\ p.minor \in Nat /\ p.patch \in Nat
      /\ q.major \in Nat /\ q.minor \in Nat /\ q.patch \in Nat
  BY <1>1 DEF Version
<1>3. ~Earlier(w, v) /\ v # w
  BY BumpIsLater, NotEarlierItself
<1>4. v # Absent /\ w # Absent
  BY <1>1, VersionAssumption
<1>5. CalcBump(v, w) = IF p.major < q.major THEN 3 ELSE IF p.minor < q.minor THEN 2 ELSE 1
  BY <1>3, <1>4 DEF CalcBump, BumpMajor, BumpMinor, BumpPatch
<1> HIDE DEF p, q, w
<1>6. (IF p.major < q.major THEN 3 ELSE IF p.minor < q.minor THEN 2 ELSE 1) = b
  BY <1>1, <1>2 DEF Numbers
<1> QED
  BY <1>5, <1>6 DEF w

\* When a chip's own bump is smaller than the one it inherits, applying the
\* inherited bump to the version it has already been given makes the whole
\* difference to the version before the push exactly the inherited bump.
THEOREM InheritedBumpIsExact ==
    ASSUME NEW old \in Version, NEW mid \in Version, NEW b \in 1 .. 3,
           CalcBump(old, mid) < b
    PROVE  CalcBump(old, ApplyBump(mid, b)) = b
<1> DEFINE new == ApplyBump(mid, b)
           p == ParseSemVer(old)
           m == ParseSemVer(mid)
           q == ParseSemVer(new)
<1>1. /\ new \in Version /\ q \in Version /\ m \in Version
      /\ Numbers(m, q, b)
  BY ApplyBumpNumbers
<1>2. p \in Version
  BY ParseType
<1>3. /\ p.major \in Nat /\ p.minor \in Nat /\ p.patch \in Nat
      /\ m.major \in Nat /\ m.minor \in Nat /\ m.patch \in Nat
      /\ q.major \in Nat /\ q.minor \in Nat /\ q.patch \in Nat
  BY <1>1, <1>2 DEF Version
<1>4. old # Absent /\ mid # Absent /\ new # Absent
  BY <1>1, VersionAssumption
<1>5. CASE old = mid
  BY <1>5, BumpIsRecognised
<1>6. CASE old # mid
  <2>1. ~Earlier(mid, old) /\ ~(p.major < m.major) /\ (p.minor < m.minor => b = 3)
        /\ b > 1
    BY <1>4, <1>6 DEF CalcBump, BumpMajor, BumpMinor, BumpPatch
  <2>2. p.major = m.major /\ p.minor <= m.minor
        /\ (p.minor = m.minor => p.patch <= m.patch)
    BY <2>1, <1>3 DEF Earlier
  <2>3. ~Earlier(new, old) /\ old # new
    <3>1. ~Earlier(new, mid)
      BY BumpIsLater
    <3>2. q.major # p.major \/ q.minor # p.minor
      BY <1>1, <1>3, <2>1, <2>2 DEF Numbers
    <3> QED
      BY <3>1, <3>2, <2>1, <1>1, EarlierTransitive
  <2>4. CalcBump(old, new) = IF p.major < q.major THEN 3 ELSE IF p.minor < q.minor THEN 2 ELSE 1
    BY <2>3, <1>4 DEF CalcBump, BumpMajor, BumpMinor, BumpPatch
  <2>5. (IF p.major < q.major THEN 3 ELSE IF p.minor < q.minor THEN 2 ELSE 1) = b
    <3> HIDE DEF p, q, m, new
    <3> QED BY <1>1, <1>3, <2>1, <2>2 DEF Numbers
  <2> QED
    BY <2>4, <2>5
<1> QED
  BY <1>5, <1>6

\* Along versions that never fall, a change is as big as the biggest of its
\* steps: a push of several commits is bumped as if each had been compared on
\* its own, whatever the suffixes.  Only a change that ends where it began
\* counts for nothing, and its steps are then changes the numbers do not show.
THEOREM BumpsCompose ==
    ASSUME NEW u \in Version, NEW v \in Version, NEW w \in Version,
           ~Earlier(v, u), ~Earlier(w, v)
    PROVE  /\ u # w => CalcBump(u, w) = HigherBump(CalcBump(u, v), CalcBump(v, w))
           /\ u = w => CalcBump(u, v) <= BumpPatch /\ CalcBump(v, w) <= BumpPatch
<1> DEFINE Of(p, q) == IF p.major < q.major THEN 3 ELSE IF p.minor < q.minor THEN 2 ELSE 1
           a == ParseSemVer(u)
           b == ParseSemVer(v)
           c == ParseSemVer(w)
<1>1. /\ a.major \in Nat /\ a.minor \in Nat /\ a.patch \in Nat
      /\ b.major \in Nat /\ b.minor \in Nat /\ b.patch \in Nat
      /\ c.major \in Nat /\ c.minor \in Nat /\ c.patch \in Nat
  BY ParseType DEF Version
<1>2. ~Earlier(w, u)
  BY EarlierTransitive
<1>3. u # Absent /\ v # Absent /\ w # Absent
  BY VersionAssumption
<1>4. /\ CalcBump(u, v) = IF u = v THEN 0 ELSE Of(a, b)
      /\ CalcBump(v, w) = IF v = w THEN 0 ELSE Of(b, c)
      /\ CalcBump(u, w) = IF u = w THEN 0 ELSE Of(a, c)
  BY <1>2, <1>3 DEF CalcBump, BumpNone, BumpMajor, BumpMinor, BumpPatch
<1>5. /\ a.major <= b.major /\ (a.major = b.major => a.minor <= b.minor)
      /\ b.major <= c.major /\ (b.major = c.major => b.minor <= c.minor)
  BY <1>1 DEF Earlier
<1> HIDE DEF a, b, c
<1>6. Of(a, c) = HigherBump(Of(a, b), Of(b, c))
  BY <1>1, <1>5 DEF HigherBump
<1>7. Of(a, b) \in 1 .. 3 /\ Of(b, c) \in 1 .. 3 /\ Of(a, c) \in 1 .. 3
  OBVIOUS
<1>8. ASSUME u # w
      PROVE  CalcBump(u, w) = HigherBump(CalcBump(u, v), CalcBump(v, w))
  <2>1. CASE u = v
    BY <1>4, <1>7, <1>8, <2>1 DEF HigherBump, a, b, c
  <2>2. CASE v = w
    BY <1>4, <1>7, <1>8, <2>2 DEF HigherBump, a, b, c
  <2>3. CASE u # v /\ v # w
    BY <1>4, <1>6, <1>8, <2>3
  <2> QED
    BY <2>1, <2>2, <2>3
<1>9. ASSUME u = w
      PROVE  CalcBump(u, v) <= BumpPatch /\ CalcBump(v, w) <= BumpPatch
  <2>1. a = c
    BY <1>9 DEF a, c
  <2>2. Of(a, b) = 1 /\ Of(b, c) = 1
    BY <1>1, <1>5, <2>1
  <2> QED
    BY <1>4, <2>2 DEF BumpPatch
<1> QED
  BY <1>8, <1>9
=============================================================================
