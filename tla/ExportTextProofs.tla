--------------------------- MODULE ExportTextProofs ----------------------------
(***************************************************************************)
(* What TLAPS proves of the names in an exported hand-in's directory and   *)
(* of the text functions: what they store is made of text and allowed      *)
(* tags, nests, is a fixed point, and has lost only what is dropped.       *)
(***************************************************************************)
EXTENDS ExportText, Integers, FiniteSetTheorems, SequenceTheorems, WellFoundedInduction, TLAPS

Name == [letters : {o.letters : o \in OriginalNames}, capital : BOOLEAN, numbers : Seq(Nat)]

LEMMA OriginalsTyped == OriginalNames \subseteq Name
<1> SUFFICES ASSUME NEW o \in OriginalNames PROVE o \in Name
  OBVIOUS
<1>1. /\ o = [letters |-> o.letters, capital |-> o.capital, numbers |-> o.numbers]
      /\ o.capital \in BOOLEAN /\ o.numbers \in Seq(Nat)
  BY NamesAssumption
<1>2. [letters |-> o.letters, capital |-> o.capital, numbers |-> o.numbers] \in Name
  BY <1>1 DEF Name
<1> QED
  BY <1>1, <1>2

(* A number that is given in parentheses is part of what names differ by.  *)
LEMMA NumbersTellApart ==
    ASSUME NEW name \in Name, NEW m \in Nat, NEW n \in Nat,
           Fold(Numbered(name, m)) = Fold(Numbered(name, n))
    PROVE  m = n
<1>1. Fold(Numbered(name, m)).numbers = Append(name.numbers, m)
  BY DEF Fold, Numbered, Name
<1>2. Fold(Numbered(name, n)).numbers = Append(name.numbers, n)
  BY DEF Fold, Numbered, Name
<1>3. name.numbers \in Seq(Nat)
  BY DEF Name
<1>4. Append(name.numbers, m)[Len(name.numbers) + 1] = m
  BY <1>3
<1>5. Append(name.numbers, n)[Len(name.numbers) + 1] = n
  BY <1>3
<1> QED
  BY <1>1, <1>2, <1>4, <1>5

LEMMA SmallestNumber ==
    ASSUME NEW T \in SUBSET Nat, T # {}
    PROVE  \E n \in T : \A m \in T : n <= m
<1>1. PICK n \in T : \A m \in T : <<m, n>> \notin OpToRel(<, Nat)
  BY NatLessThanWellFounded, WFMin
<1>2. \A m \in T : ~(m < n)
  BY <1>1 DEF OpToRel
<1> QED
  BY <1>2

(* The search of unique_name ends, by the count of names in use and two at *)
(* the latest, at a number that is free.                                   *)
LEMMA FreeNumber ==
    ASSUME NEW name \in Name, NEW used, IsFiniteSet(used)
    PROVE  \E n \in 2 .. Cardinality(used) + 2 :
              /\ Fold(Numbered(name, n)) \notin used
              /\ \A m \in 2 .. n - 1 : Fold(Numbered(name, m)) \in used
<1> DEFINE S == 2 .. Cardinality(used) + 2
           f == [n \in S |-> Fold(Numbered(name, n))]
           T == {n \in S : Fold(Numbered(name, n)) \notin used}
<1>1. Cardinality(used) \in Nat
  BY FS_CardinalityType
<1>2. IsFiniteSet(S) /\ Cardinality(S) = Cardinality(used) + 1
  BY <1>1, FS_Interval
<1>3. T # {}
  <2> SUFFICES ASSUME T = {} PROVE FALSE
    OBVIOUS
  <2>1. f \in [S -> used]
    OBVIOUS
  <2>2. Cardinality(used) < Cardinality(S)
    BY <1>1, <1>2
  <2>3. PICK m \in S, n \in S : m # n /\ f[m] = f[n]
    <3> HIDE DEF S, f
    <3> QED
      BY <1>2, <2>1, <2>2, FS_PigeonHole
  <2>4. Fold(Numbered(name, m)) = Fold(Numbered(name, n))
    BY <2>3
  <2>5. m \in Nat /\ n \in Nat
    BY <1>1
  <2> QED
    BY <2>3, <2>4, <2>5, NumbersTellApart
<1>4. PICK n \in T : \A m \in T : n <= m
  <2>1. T \in SUBSET Nat
    BY <1>1
  <2> HIDE DEF T
  <2> QED
    BY <1>3, <2>1, SmallestNumber
<1>5. ASSUME NEW m \in 2 .. n - 1 PROVE Fold(Numbered(name, m)) \in used
  BY <1>1, <1>4, <1>5
<1> QED
  BY <1>4, <1>5

LEMMA UniqueNameIsFree ==
    ASSUME NEW name \in Name, NEW used, IsFiniteSet(used)
    PROVE  UniqueName(name, used) \in Name /\ Fold(UniqueName(name, used)) \notin used
<1>1. CASE Fold(name) \notin used
  BY <1>1 DEF UniqueName
<1>2. CASE Fold(name) \in used
  <2>1. PICK n \in 2 .. Cardinality(used) + 2 :
           UniqueName(name, used) = Numbered(name, n) /\ Fold(Numbered(name, n)) \notin used
    BY <1>2, FreeNumber DEF UniqueName
  <2>2. n \in Nat
    BY FS_CardinalityType
  <2>3. Append(name.numbers, n) \in Seq(Nat)
    BY <2>2 DEF Name
  <2>4. Numbered(name, n) \in Name
    BY <2>3 DEF Numbered, Name
  <2> QED
    BY <2>1, <2>4
<1> QED
  BY <1>1, <1>2

LEMMA UsedIsFinite == ASSUME names \in Seq(Name) PROVE IsFiniteSet(Used)
<1> DEFINE f == [i \in DOMAIN names |-> Fold(names[i])]
<1>1. DOMAIN names = 1 .. Len(names) /\ Len(names) \in Nat
  OBVIOUS
<1>2. f \in Surjection(DOMAIN names, Used)
  BY DEF Surjection, Used
<1>3. IsFiniteSet(1 .. Len(names))
  BY <1>1, FS_Interval
<1> QED
  BY <1>1, <1>2, <1>3, FS_Surjection

(* exports.py:28-38 (unique_name): however a pupil's own names look like   *)
(* numbered ones, and whatever letters are capitals, a directory of any    *)
(* number of files has no two names that fold to the same.                 *)
THEOREM NamesStayApart == ExportTextSpec => []NamesApart
<1> DEFINE Inv == names \in Seq(Name) /\ NamesApart
<1>1. ExportTextInit => Inv
  BY DEF ExportTextInit, NamesApart
<1>2. Inv /\ [ExportTextNext]_<<vars, names>> => Inv'
  <2> SUFFICES ASSUME Inv, GiveName PROVE Inv'
    BY DEF ExportTextNext, NamesApart
  <2>1. PICK original \in OriginalNames : names' = Append(names, UniqueName(original, Used))
    BY DEF GiveName
  <2> DEFINE name == UniqueName(original, Used)
  <2>2. name \in Name /\ Fold(name) \notin Used
    BY OriginalsTyped, UsedIsFinite, UniqueNameIsFree
  <2>3. /\ names' \in Seq(Name) /\ Len(names') = Len(names) + 1
        /\ \A i \in 1 .. Len(names) : names'[i] = names[i]
        /\ names'[Len(names) + 1] = name
    BY <2>1, <2>2
  <2>4. \A i \in 1 .. Len(names) : Fold(names[i]) # Fold(name)
    <3>1. \A i \in DOMAIN names : Fold(names[i]) \in Used
      BY DEF Used
    <3> QED
      BY <2>2, <3>1
  <2>5. NamesApart'
    BY <2>3, <2>4 DEF NamesApart
  <2> QED
    BY <2>3, <2>5
<1> QED
  BY <1>1, <1>2, PTL DEF ExportTextSpec
-------------------------------------------------------------------------------
(* Induction, and functions that are defined by recursion over positions.  *)

(* A set of naturals with 0 and every successor of its members is Nat; the *)
(* argument of every induction below.                                      *)
LEMMA Induct ==
    ASSUME NEW T \in SUBSET Nat, 0 \in T, \A n \in T : n + 1 \in T
    PROVE  T = Nat
<1> SUFFICES ASSUME Nat \ T # {} PROVE FALSE
  OBVIOUS
<1>1. PICK n \in Nat \ T : \A m \in Nat \ T : n <= m
  BY SmallestNumber
<1>2. n # 0 /\ n - 1 \in Nat /\ n - 1 \in T
  BY <1>1
<1> QED
  BY <1>1, <1>2

(* A sequence of N steps, each a function of what the one before it made.  *)
Steps(N, S) == [1..N -> [S -> S]]

Unrolls(f, N, S, base, step) ==
    /\ f \in [0..N -> S]
    /\ f[0] = base
    /\ \A i \in 1..N : f[i] = step[i][f[i - 1]]

(* Such steps define a function.                                           *)
LEMMA Recursion ==
    ASSUME NEW N \in Nat, NEW S, NEW base \in S, NEW step \in Steps(N, S)
    PROVE  \E f : Unrolls(f, N, S, base, step)
<1> DEFINE T == {n \in Nat : n <= N => \E f : Unrolls(f, n, S, base, step)}
<1>1. 0 \in T
  <2> DEFINE f == [i \in 0..0 |-> base]
  <2>1. Unrolls(f, 0, S, base, step)
    BY DEF Unrolls
  <2> HIDE DEF f
  <2> QED
    BY <2>1
<1>2. ASSUME NEW n \in T PROVE n + 1 \in T
  <2> SUFFICES ASSUME n + 1 <= N PROVE \E f : Unrolls(f, n + 1, S, base, step)
    OBVIOUS
  <2>1. PICK f : Unrolls(f, n, S, base, step)
    OBVIOUS
  <2>2. /\ f \in [0..n -> S] /\ f[0] = base
        /\ \A i \in 1..n : f[i] = step[i][f[i - 1]]
    BY <2>1 DEF Unrolls
  <2> DEFINE g == [i \in 0..(n+1) |-> IF i = n+1 THEN step[n+1][f[n]] ELSE f[i]]
  <2>3. g \in [0..(n+1) -> S]
    <3>1. step[n+1] \in [S -> S] /\ f[n] \in S
      BY <2>2 DEF Steps
    <3>2. step[n+1][f[n]] \in S
      BY <3>1
    <3> QED
      BY <2>2, <3>2
  <2>4. g[0] = base
    BY <2>2
  <2>5. ASSUME NEW i \in 1..(n+1) PROVE g[i] = step[i][g[i-1]]
    <3>1. i - 1 \in 0..n /\ g[i - 1] = f[i - 1]
      OBVIOUS
    <3>2. CASE i = n + 1
      <4>1. g[i] = step[n + 1][f[n]] /\ i - 1 = n
        BY <3>2
      <4> QED
        BY <3>1, <3>2, <4>1
    <3>3. CASE i \in 1..n
      <4>1. g[i] = f[i]
        BY <3>3
      <4> QED
        BY <2>2, <3>1, <3>3, <4>1
    <3> QED
      BY <3>2, <3>3
  <2> HIDE DEF g
  <2>6. Unrolls(g, n + 1, S, base, step)
    BY <2>3, <2>4, <2>5 DEF Unrolls
  <2> QED
    BY <2>6
<1>3. T = Nat
  <2> HIDE DEF T
  <2>1. T \in SUBSET Nat
    BY DEF T
  <2> QED
    BY <1>1, <1>2, <2>1, Induct
<1> QED
  BY <1>3

(* What is made by such steps, and by them only while it is in S, stays in *)
(* S.                                                                      *)
LEMMA StepsStay ==
    ASSUME NEW N \in Nat, NEW S, NEW base \in S, NEW step \in Steps(N, S),
           NEW h, h[0] = base, \A i \in 1..N : h[i - 1] \in S => h[i] = step[i][h[i - 1]]
    PROVE  \A i \in 0..N : h[i] \in S
<1> DEFINE T == {i \in Nat : i <= N => h[i] \in S}
<1>1. 0 \in T
  OBVIOUS
<1>2. ASSUME NEW i \in T PROVE i + 1 \in T
  <2> SUFFICES ASSUME i + 1 <= N PROVE h[i + 1] \in S
    OBVIOUS
  <2>1. i + 1 \in 1..N /\ (i + 1) - 1 = i /\ h[i] \in S
    OBVIOUS
  <2>2. step[i + 1] \in [S -> S]
    BY <2>1 DEF Steps
  <2>3. h[i + 1] = step[i + 1][h[i]]
    BY <2>1
  <2> QED
    BY <2>1, <2>2, <2>3
<1>3. T = Nat
  <2> HIDE DEF T
  <2>1. T \in SUBSET Nat
    BY DEF T
  <2> QED
    BY <1>1, <1>2, <2>1, Induct
<1> QED
  BY <1>3

(* What the tokens are made of, and the parser's state.                    *)
TagName  == Tags \cup RawTags \cup AllowedTags
Content  == Chars \cup {Dash}
Token    == ({"start", "startend", "end"} \X TagName) \cup ({"data"} \X Content)
OpenTags == AllowedTags \ VoidTags
Parser   == [output : Seq(SafeTokens), stack : Seq(OpenTags), blocked : Seq(TagName)]

(* Max, of a set of positions, is its last.                                *)
LEMMA LargestNumber ==
    ASSUME NEW N \in Nat, NEW T \in SUBSET (1..N), T # {}
    PROVE  Max(T) \in T /\ \A i \in T : i <= Max(T)
<1> DEFINE U == {n \in Nat : N - n \in T}
<1>1. PICK i \in T : TRUE
  OBVIOUS
<1>2. N - i \in Nat /\ N - (N - i) = i
  OBVIOUS
<1>3. N - i \in U
  BY <1>2
<1>4. PICK n \in U : \A m \in U : n <= m
  <2>1. U \in SUBSET Nat
    OBVIOUS
  <2> HIDE DEF U
  <2> QED
    BY <1>3, <2>1, SmallestNumber
<1>5. N - n \in T /\ \A j \in T : j <= N - n
  <2>1. ASSUME NEW j \in T PROVE N - j \in U
    <3>1. N - j \in Nat /\ N - (N - j) = j
      OBVIOUS
    <3> QED
      BY <3>1
  <2> QED
    BY <1>4, <2>1
<1>6. \E x \in T : \A y \in T : x >= y
  BY <1>5
<1> QED
  BY <1>6 DEF Max

(* What SelectLastInSeq finds.                                             *)
LEMMA LastIndex ==
    ASSUME NEW N \in Nat, NEW I \in SUBSET (1..N), NEW n, n = IF I # {} THEN Max(I) ELSE 0
    PROVE  /\ n \in 0..N
           /\ n = 0 => I = {}
           /\ n # 0 => n \in I
           /\ \A i \in I : i <= n
<1>1. I # {} => Max(I) \in I /\ \A i \in I : i <= Max(I)
  BY LargestNumber
<1>2. CASE I = {}
  BY <1>2
<1>3. CASE I # {}
  <2>1. n = Max(I)
    BY <1>3
  <2>2. n \in I /\ \A i \in I : i <= n
    BY <1>1, <1>3, <2>1
  <2>3. n \in 1..N
    BY <2>2
  <2> QED
    BY <1>3, <2>2, <2>3
<1> QED
  BY <1>2, <1>3

(* What SelectInSeq finds.                                                 *)
LEMMA FirstIndex ==
    ASSUME NEW N \in Nat, NEW I \in SUBSET (1..N), NEW n, n = IF I # {} THEN Min(I) ELSE 0
    PROVE  /\ n \in 0..N
           /\ n = 0 => I = {}
           /\ n # 0 => n \in I
           /\ \A i \in I : n <= i
<1>1. I # {} => \E x \in I : \A y \in I : x <= y
  BY SmallestNumber
<1>2. I # {} => Min(I) \in I /\ \A i \in I : Min(I) <= i
  BY <1>1 DEF Min
<1>3. CASE I = {}
  BY <1>3
<1>4. CASE I # {}
  <2>1. n = Min(I)
    BY <1>4
  <2>2. n \in I /\ \A i \in I : n <= i
    BY <1>2, <1>4, <2>1
  <2>3. n \in 1..N
    BY <2>2
  <2> QED
    BY <1>4, <2>2, <2>3
<1> QED
  BY <1>3, <1>4

(* What a prefix is made of.                                               *)
LEMMA PrefixFacts ==
    ASSUME NEW S, NEW s \in Seq(S), NEW n \in 0..Len(s)
    PROVE  /\ SubSeq(s, 1, n) \in Seq(S) /\ Len(SubSeq(s, 1, n)) = n
           /\ \A i \in 1..n : SubSeq(s, 1, n)[i] = s[i]
<1>1. n \in Int /\ 1 \in Int /\ n >= 0 /\ \A i \in 1..n : s[i] \in S
  BY LenProperties, ElementOfSeq
<1>2. /\ SubSeq(s, 1, n) \in Seq(S)
      /\ Len(SubSeq(s, 1, n)) = IF 1 <= n THEN n - 1 + 1 ELSE 0
      /\ \A i \in 1..n - 1 + 1 : SubSeq(s, 1, n)[i] = s[1 + i - 1]
  BY <1>1, SubSeqProperties
<1>3. n - 1 + 1 = n /\ \A i \in 1..n : 1 + i - 1 = i
  BY <1>1
<1>4. Len(SubSeq(s, 1, n)) = n
  BY <1>1, <1>2
<1>5. \A i \in 1..n : SubSeq(s, 1, n)[i] = s[i]
  BY <1>2, <1>3
<1> QED
  BY <1>2, <1>4, <1>5

(* rich_text.py:55-68: a stack is popped down to the last occurrence.      *)
LEMMA PopToFacts ==
    ASSUME NEW S, NEW s \in Seq(S), NEW t
    PROVE  /\ Contains(s, t) => \E n \in 0..Len(s)-1 :
                 /\ PopTo(s, t) = SubSeq(s, 1, n) /\ s[n + 1] = t
                 /\ \A i \in n+2..Len(s) : s[i] # t
           /\ ~Contains(s, t) => PopTo(s, t) = <<>>
<1> DEFINE I == {i \in 1..Len(s) : s[i] = t}
           n == SelectLastInSeq(s, LAMBDA x : x = t)
<1>1. Len(s) \in Nat /\ I \in SUBSET (1..Len(s))
  OBVIOUS
<1>2. n = IF I # {} THEN Max(I) ELSE 0
  BY DEF SelectLastInSeq
<1>3. PopTo(s, t) = SubSeq(s, 1, IF Contains(s, t) THEN n - 1 ELSE 0)
  BY DEF PopTo
<1>4. Contains(s, t) <=> I # {}
  BY DEF Contains
<1> HIDE DEF n, I
<1>5. /\ n \in 0..Len(s)
      /\ n = 0 => I = {}
      /\ n # 0 => n \in I
      /\ \A i \in I : i <= n
  BY <1>1, <1>2, LastIndex
<1>6. CASE Contains(s, t)
  <2>1. n \in I /\ n \in 1..Len(s)
    BY <1>4, <1>5, <1>6
  <2>2. n - 1 \in 0..Len(s)-1 /\ (n - 1) + 1 = n /\ (n - 1) + 2 = n + 1
    BY <1>1, <2>1
  <2>3. PopTo(s, t) = SubSeq(s, 1, n - 1)
    BY <1>3, <1>6
  <2>4. s[n] = t /\ \A i \in n+1..Len(s) : s[i] # t
    BY <1>1, <1>5, <2>1 DEF I
  <2>5. /\ PopTo(s, t) = SubSeq(s, 1, n - 1) /\ s[(n - 1) + 1] = t
        /\ \A i \in (n - 1)+2..Len(s) : s[i] # t
    BY <2>2, <2>3, <2>4
  <2> QED
    BY <1>6, <2>2, <2>5
<1>7. CASE ~Contains(s, t)
  BY <1>3, <1>7
<1> QED
  BY <1>6, <1>7

(* A token by its four forms.                                              *)
LEMMA TokenCases ==
    ASSUME NEW x \in Token
    PROVE  /\ x[1] \in {"start", "startend", "end", "data"}
           /\ x = <<x[1], x[2]>>
           /\ x[1] = "data" => x[2] \in Content
           /\ x[1] # "data" => x[2] \in TagName
BY DEF Token

(* ... and one of the output.                                              *)
LEMMA SafeTokenCases ==
    ASSUME NEW x \in SafeTokens
    PROVE  /\ x[1] \in {"start", "end", "data"}
           /\ x = <<x[1], x[2]>>
           /\ x[1] = "data" => x[2] \in Content
           /\ x[1] = "start" => x[2] \in AllowedTags
           /\ x[1] = "end" => x[2] \in OpenTags
BY DEF SafeTokens, Data, Start, End, Content, OpenTags

(* What is put out could also be read.                                     *)
LEMMA SafeAreTokens == SafeTokens \subseteq Token
BY SafeTokenCases DEF Token, OpenTags, TagName

(* The parts of an output: text, ...                                       *)
LEMMA DataSafe == ASSUME NEW c \in Content PROVE Data(c) \in SafeTokens
BY DEF SafeTokens, Content

(* ... start tags, under the names Alias gives them, ...                   *)
LEMMA StartSafe == ASSUME NEW t \in AllowedTags PROVE Start(t) \in SafeTokens
BY DEF SafeTokens

(* ... and end tags of elements that can be open.                          *)
LEMMA EndSafe == ASSUME NEW t \in OpenTags PROVE End(t) \in SafeTokens
BY DEF SafeTokens, OpenTags

(* A parser is its three fields.                                           *)
LEMMA ParserFields ==
    ASSUME NEW p \in Parser
    PROVE  /\ p = [output |-> p.output, stack |-> p.stack, blocked |-> p.blocked]
           /\ p.output \in Seq(SafeTokens) /\ p.stack \in Seq(OpenTags)
           /\ p.blocked \in Seq(TagName)
BY DEF Parser

(* And any three of their types make one.                                  *)
LEMMA ParserMade ==
    ASSUME NEW o \in Seq(SafeTokens), NEW s \in Seq(OpenTags), NEW b \in Seq(TagName)
    PROVE  [output |-> o, stack |-> s, blocked |-> b] \in Parser
BY DEF Parser

(* What handle_starttag leaves of the parser's three fields.               *)
LEMMA StartTagSteps ==
    ASSUME NEW p \in Parser, NEW t
    PROVE  LET tag == Alias(t) q == StartTag(p, t) IN
           /\ Dropping(p, t) /\ t \notin HtmlVoidTags =>
                 q = [output |-> p.output, stack |-> p.stack, blocked |-> Append(p.blocked, t)]
           /\ ~Dropping(p, t) /\ tag \in AllowedTags =>
                 q = [output |-> Append(p.output, Start(tag)),
                      stack |-> IF tag \in VoidTags THEN p.stack ELSE Append(p.stack, tag),
                      blocked |-> p.blocked]
           /\ (Dropping(p, t) /\ t \in HtmlVoidTags) \/ (~Dropping(p, t) /\ tag \notin AllowedTags)
                 => q = p
<1> DEFINE tag == Alias(t)
           q == StartTag(p, t)
<1>1. p = [output |-> p.output, stack |-> p.stack, blocked |-> p.blocked]
  BY ParserFields
<1>2. ASSUME Dropping(p, t), t \notin HtmlVoidTags
      PROVE  q = [output |-> p.output, stack |-> p.stack, blocked |-> Append(p.blocked, t)]
  <2>1. q = [p EXCEPT !.blocked = Append(@, t)]
    BY <1>2 DEF StartTag
  <2> HIDE DEF q
  <2> QED
    BY <1>1, <2>1
<1>3. ASSUME ~Dropping(p, t), tag \in AllowedTags
      PROVE  q = [output |-> Append(p.output, Start(tag)),
                  stack |-> IF tag \in VoidTags THEN p.stack ELSE Append(p.stack, tag),
                  blocked |-> p.blocked]
  <2> DEFINE c == [p EXCEPT !.output = Append(@, Start(tag))]
             st == IF tag \in VoidTags THEN p.stack ELSE Append(p.stack, tag)
  <2>1. q = [p EXCEPT !.output = Append(@, Start(tag)),
                      !.stack  = IF tag \in VoidTags THEN @ ELSE Append(@, tag)]
    BY <1>3 DEF StartTag
  <2>2. c = [output |-> Append(p.output, Start(tag)), stack |-> p.stack, blocked |-> p.blocked]
    BY <1>1
  <2>3. q = [c EXCEPT !.stack = IF tag \in VoidTags THEN @ ELSE Append(@, tag)]
    BY <2>1, Zenon
  <2> HIDE DEF c, q, tag
  <2> QED
    BY <2>2, <2>3
<1>4. ASSUME (Dropping(p, t) /\ t \in HtmlVoidTags) \/ (~Dropping(p, t) /\ tag \notin AllowedTags)
      PROVE  q = p
  BY <1>4 DEF StartTag
<1> HIDE DEF q, tag
<1> QED
  BY <1>2, <1>3, <1>4 DEF tag, q

(* What closing down to depth n leaves of them.                            *)
LEMMA CloseSteps ==
    ASSUME NEW p \in Parser, NEW n
    PROVE  Close(p, n) = [output |-> p.output \o Closing(p.stack, n),
                          stack |-> SubSeq(p.stack, 1, n), blocked |-> p.blocked]
<1> DEFINE o == p.output \o Closing(p.stack, n)
           st == SubSeq(p.stack, 1, n)
           c == [p EXCEPT !.output = o]
<1>1. p = [output |-> p.output, stack |-> p.stack, blocked |-> p.blocked]
  BY ParserFields
<1>2. c = [output |-> o, stack |-> p.stack, blocked |-> p.blocked]
  <2> HIDE DEF o
  <2> QED
    BY <1>1
<1>3. Close(p, n) = [c EXCEPT !.stack = SubSeq(@, 1, n)]
  BY Zenon DEF Close
<1>4. c.stack = p.stack
  <2> HIDE DEF o, c
  <2> QED
    BY <1>2
<1>5. Close(p, n) = [c EXCEPT !.stack = st]
  <2> HIDE DEF o, c
  <2> QED
    BY <1>3, <1>4
<1> HIDE DEF c, o, st
<1>6. Close(p, n) = [output |-> o, stack |-> st, blocked |-> p.blocked]
  BY <1>2, <1>5
<1> QED
  BY <1>6 DEF o, st

(* End tags for a stack are safe tokens.                                   *)
LEMMA ClosingTyped ==
    ASSUME NEW s \in Seq(OpenTags), NEW n \in 0..Len(s)
    PROVE  Closing(s, n) \in Seq(SafeTokens)
<1> DEFINE k == Len(s) - n
<1>1. k \in Nat /\ Len(s) \in Nat
  OBVIOUS
<1>2. ASSUME NEW i \in 1..k PROVE End(s[Len(s) - i + 1]) \in SafeTokens
  <2>1. Len(s) - i + 1 \in 1..Len(s)
    BY <1>1
  <2>2. s[Len(s) - i + 1] \in OpenTags
    BY <2>1
  <2> QED
    BY <2>2, EndSafe
<1>3. [i \in 1..k |-> End(s[Len(s) - i + 1])] \in Seq(SafeTokens)
  BY <1>1, <1>2
<1> QED
  BY <1>3 DEF Closing

(* What handle_endtag leaves of them.                                      *)
LEMMA EndTagSteps ==
    ASSUME NEW p \in Parser, NEW t
    PROVE  LET tag == Alias(t) q == EndTag(p, t) IN
           /\ p.blocked # <<>> =>
                 q = [output |-> p.output, stack |-> p.stack, blocked |-> PopTo(p.blocked, t)]
           /\ p.blocked = <<>> /\ Contains(p.stack, tag) =>
                 \E n \in 0..Len(p.stack)-1 :
                    q = [output |-> p.output \o Closing(p.stack, n),
                         stack |-> SubSeq(p.stack, 1, n), blocked |-> <<>>]
           /\ p.blocked = <<>> /\ ~Contains(p.stack, tag) => q = p
<1> DEFINE tag == Alias(t)
           q == EndTag(p, t)
<1>1. p = [output |-> p.output, stack |-> p.stack, blocked |-> p.blocked]
  BY ParserFields
<1>2. ASSUME p.blocked # <<>>
      PROVE  q = [output |-> p.output, stack |-> p.stack, blocked |-> PopTo(p.blocked, t)]
  <2>1. q = [p EXCEPT !.blocked = PopTo(@, t)]
    BY <1>2 DEF EndTag
  <2> HIDE DEF q
  <2> QED
    BY <1>1, <2>1
<1>3. ASSUME p.blocked = <<>>, Contains(p.stack, tag)
      PROVE  \E n \in 0..Len(p.stack)-1 :
                q = [output |-> p.output \o Closing(p.stack, n),
                     stack |-> SubSeq(p.stack, 1, n), blocked |-> <<>>]
  <2>1. p.stack \in Seq(OpenTags)
    BY ParserFields
  <2>2. PICK n \in 0..Len(p.stack)-1 : PopTo(p.stack, tag) = SubSeq(p.stack, 1, n)
    BY <1>3, <2>1, PopToFacts
  <2>3. Len(SubSeq(p.stack, 1, n)) = n
    BY <2>1, <2>2
  <2>4. q = Close(p, Len(PopTo(p.stack, tag)))
    BY <1>3 DEF EndTag
  <2>5. q = Close(p, n)
    BY <2>2, <2>3, <2>4
  <2> HIDE DEF q
  <2> QED
    BY <1>3, <2>2, <2>5, CloseSteps
<1>4. ASSUME p.blocked = <<>>, ~Contains(p.stack, tag) PROVE q = p
  BY <1>4 DEF EndTag
<1> HIDE DEF q, tag
<1> QED
  BY <1>2, <1>3, <1>4 DEF tag, q

(* What handle_data leaves of them.                                        *)
LEMMA HandleDataSteps ==
    ASSUME NEW p \in Parser, NEW c
    PROVE  HandleData(p, c) = IF p.blocked = <<>>
              THEN [output |-> Append(p.output, Data(c)), stack |-> p.stack, blocked |-> p.blocked]
              ELSE p
<1>1. p = [output |-> p.output, stack |-> p.stack, blocked |-> p.blocked]
  BY ParserFields
<1> QED
  BY <1>1 DEF HandleData

(* A popped stack holds what it held.                                      *)
LEMMA PopToTyped == ASSUME NEW S, NEW s \in Seq(S), NEW t PROVE PopTo(s, t) \in Seq(S)
<1>1. CASE Contains(s, t)
  <2>1. PICK n \in 0..Len(s)-1 : PopTo(s, t) = SubSeq(s, 1, n)
    BY <1>1, PopToFacts
  <2> QED
    BY <2>1
<1>2. CASE ~Contains(s, t)
  <2>1. PopTo(s, t) = <<>>
    BY <1>2, PopToFacts
  <2> QED
    BY <2>1
<1> QED
  BY <1>1, <1>2

(* handle_starttag keeps the parser well formed.                           *)
LEMMA StartTagTyped ==
    ASSUME NEW p \in Parser, NEW t \in TagName
    PROVE  StartTag(p, t) \in Parser
<1> DEFINE tag == Alias(t)
           st == IF tag \in VoidTags THEN p.stack ELSE Append(p.stack, tag)
<1>1. /\ p.output \in Seq(SafeTokens) /\ p.stack \in Seq(OpenTags)
      /\ p.blocked \in Seq(TagName)
  BY ParserFields
<1>2. CASE Dropping(p, t) /\ t \notin HtmlVoidTags
  <2>1. Append(p.blocked, t) \in Seq(TagName)
    BY <1>1
  <2>2. StartTag(p, t) = [output |-> p.output, stack |-> p.stack, blocked |-> Append(p.blocked, t)]
    BY <1>2, StartTagSteps
  <2> QED
    BY <1>1, <2>1, <2>2, ParserMade
<1>3. CASE ~Dropping(p, t) /\ tag \in AllowedTags
  <2>1. Append(p.output, Start(tag)) \in Seq(SafeTokens)
    BY <1>1, <1>3, StartSafe
  <2>2. st \in Seq(OpenTags)
    BY <1>1, <1>3 DEF OpenTags
  <2>3. StartTag(p, t) = [output |-> Append(p.output, Start(tag)), stack |-> st,
                          blocked |-> p.blocked]
    BY <1>3, StartTagSteps
  <2> HIDE DEF st, tag
  <2> QED
    BY <1>1, <2>1, <2>2, <2>3, ParserMade
<1>4. CASE (Dropping(p, t) /\ t \in HtmlVoidTags) \/ (~Dropping(p, t) /\ tag \notin AllowedTags)
  BY <1>4, StartTagSteps
<1> QED
  BY <1>2, <1>3, <1>4

(* HTMLParser calls the handler of the token's form.                       *)
LEMMA HandleCases ==
    ASSUME NEW p, NEW x \in Token
    PROVE  /\ x[1] = "start" => Handle(p, x) = StartTag(p, x[2])
           /\ x[1] = "startend" => Handle(p, x) = StartEndTag(p, x[2])
           /\ x[1] = "end" => Handle(p, x) = EndTag(p, x[2])
           /\ x[1] = "data" => Handle(p, x) = HandleData(p, x[2])
BY DEF Handle

(* Every handler leaves a parser with text and allowed tags in its output. *)
LEMMA HandleTyped == ASSUME NEW p \in Parser, NEW x \in Token PROVE Handle(p, x) \in Parser
<1>1. /\ p.output \in Seq(SafeTokens) /\ p.stack \in Seq(OpenTags)
      /\ p.blocked \in Seq(TagName)
  BY ParserFields
<1>2. CASE x[1] \in {"start", "startend"}
  <2>1. StartTag(p, x[2]) \in Parser
    BY <1>2, TokenCases, StartTagTyped
  <2>2. Handle(p, x) \in {p, StartTag(p, x[2])}
    BY <1>2, HandleCases DEF StartEndTag
  <2> QED
    BY <2>1, <2>2
<1>3. CASE x[1] = "end"
  <2>1. Handle(p, x) = EndTag(p, x[2])
    BY <1>3, HandleCases
  <2>2. CASE p.blocked # <<>>
    <3>1. PopTo(p.blocked, x[2]) \in Seq(TagName)
      BY <1>1, PopToTyped
    <3>2. EndTag(p, x[2]) = [output |-> p.output, stack |-> p.stack,
                             blocked |-> PopTo(p.blocked, x[2])]
      BY <2>2, EndTagSteps
    <3> QED
      BY <1>1, <2>1, <3>1, <3>2, ParserMade
  <2>3. CASE p.blocked = <<>> /\ Contains(p.stack, Alias(x[2]))
    <3>1. PICK n \in 0..Len(p.stack)-1 :
              EndTag(p, x[2]) = [output |-> p.output \o Closing(p.stack, n),
                                 stack |-> SubSeq(p.stack, 1, n), blocked |-> <<>>]
      BY <2>3, EndTagSteps
    <3>2. Closing(p.stack, n) \in Seq(SafeTokens)
      BY <1>1, ClosingTyped
    <3>3. p.output \o Closing(p.stack, n) \in Seq(SafeTokens)
      BY <1>1, <3>2
    <3>4. SubSeq(p.stack, 1, n) \in Seq(OpenTags) /\ <<>> \in Seq(TagName)
      BY <1>1
    <3> QED
      BY <2>1, <3>1, <3>3, <3>4, ParserMade
  <2>4. CASE p.blocked = <<>> /\ ~Contains(p.stack, Alias(x[2]))
    <3>1. EndTag(p, x[2]) = p
      BY <2>4, EndTagSteps
    <3> QED
      BY <2>1, <3>1
  <2> QED
    BY <2>2, <2>3, <2>4
<1>4. CASE x[1] = "data"
  <2>1. Append(p.output, Data(x[2])) \in Seq(SafeTokens)
    BY <1>1, <1>4, TokenCases, DataSafe
  <2>2. Handle(p, x) \in {p, [output |-> Append(p.output, Data(x[2])), stack |-> p.stack,
                              blocked |-> p.blocked]}
    BY <1>4, HandleCases, HandleDataSteps
  <2> QED
    BY <1>1, <2>1, <2>2, ParserMade
<1> QED
  BY <1>2, <1>3, <1>4, TokenCases

-------------------------------------------------------------------------------
(* Balanced text: the output of the parser after every token.              *)

(* The recursive function of Parsing, unrolled.                            *)
LEMMA ParsingSteps ==
    ASSUME NEW s \in Seq(Token)
    PROVE  /\ Parsing(s) \in [0..Len(s) -> Parser]
           /\ Parsing(s)[0] = NewParser
           /\ \A i \in 1..Len(s) : Parsing(s)[i] = Handle(Parsing(s)[i - 1], s[i])
<1> DEFINE N == Len(s)
           step == [i \in 1..N |-> [p \in Parser |-> Handle(p, s[i])]]
           h == Parsing(s)
           g == [i \in 0..N |-> IF i = 0 THEN NewParser ELSE Handle(h[i - 1], s[i])]
<1>1. step \in [1..N -> [Parser -> Parser]]
  BY HandleTyped
<1>2. NewParser \in Parser
  BY DEF NewParser, Parser
<1>3. PICK f : Unrolls(f, N, Parser, NewParser, step)
  <2>1. N \in Nat
    OBVIOUS
  <2>2. step \in Steps(N, Parser)
    BY <1>1 DEF Steps
  <2> HIDE DEF step, N
  <2> QED
    BY <1>2, <2>1, <2>2, Recursion
<1>4. /\ f \in [0..N -> Parser] /\ f[0] = NewParser
       /\ \A i \in 1..N : f[i] = step[i][f[i - 1]]
  BY <1>3 DEF Unrolls
<1>5. ASSUME NEW i \in 1..N PROVE f[i] = Handle(f[i - 1], s[i])
  <2>1. f[i - 1] \in Parser
    BY <1>4
  <2>2. step[i][f[i - 1]] = Handle(f[i - 1], s[i])
    BY <2>1
  <2> QED
    BY <1>4, <2>2
<1>6. h = g
  <2>1. f = [i \in 0..N |-> IF i = 0 THEN NewParser ELSE Handle(f[i - 1], s[i])]
    BY <1>4, <1>5
  <2> QED
    BY <2>1 DEF Parsing
<1> HIDE DEF h
<1>7. g[0] = NewParser /\ \A i \in 1..N : g[i] = Handle(h[i - 1], s[i])
  OBVIOUS
<1>8. h[0] = NewParser /\ \A i \in 1..N : h[i] = Handle(h[i - 1], s[i])
  BY <1>6, <1>7
<1>9. \A i \in 0..N : h[i] = f[i]
  <2> DEFINE T == {i \in Nat : i <= N => h[i] = f[i]}
  <2>1. 0 \in T
    BY <1>4, <1>8
  <2>2. ASSUME NEW i \in T PROVE i + 1 \in T
    <3> SUFFICES ASSUME i + 1 <= N PROVE h[i + 1] = f[i + 1]
      OBVIOUS
    <3>1. i + 1 \in 1..N /\ (i + 1) - 1 = i /\ h[i] = f[i]
      OBVIOUS
    <3>2. f[i + 1] = Handle(f[i], s[i + 1])
      BY <1>5, <3>1
    <3> QED
      BY <1>8, <3>1, <3>2
  <2>3. T = Nat
    <3> HIDE DEF T
    <3>1. T \in SUBSET Nat
      BY DEF T
    <3> QED
      BY <2>1, <2>2, <3>1, Induct
  <2> QED
    BY <2>3
<1>10. DOMAIN h = 0..N
  BY <1>6
<1>11. h = [i \in 0..N |-> h[i]]
  BY <1>6
<1>12. h \in [0..N -> Parser]
  <2> HIDE DEF g, N
  <2> QED
    BY <1>9, <1>11, <1>4
<1> QED
  BY <1>8, <1>12 DEF h

(* How a token x changes what is open: from a to b.                        *)
Turn(a, x, b) ==
    \/ IsData(x) /\ b = a
    \/ x[1] = "start" /\ x[2] \in VoidTags /\ b = a
    \/ x[1] = "start" /\ x[2] \notin VoidTags /\ b = Append(a, x[2])
    \/ x[1] = "end" /\ a = Append(b, x[2])

(* o says what is open after each prefix of s.                             *)
Opens(s, o) == o[0] = <<>> /\ \A i \in 1..Len(s) : Turn(o[i - 1], s[i], o[i])

(* Tags of s match, and those of open are left open.                       *)
Balanced(s, open) ==
    \E o \in [0..Len(s) -> Seq(OpenTags)] : Opens(s, o) /\ o[Len(s)] = open

(* Nothing is balanced, with nothing open.                                 *)
LEMMA BalancedEmpty == Balanced(<<>>, <<>>)
<1> DEFINE o == [i \in 0..0 |-> <<>>]
<1>1. o \in [0..Len(<<>>) -> Seq(OpenTags)]
  OBVIOUS
<1>2. Opens(<<>>, o) /\ o[Len(<<>>)] = <<>>
  BY DEF Opens
<1> HIDE DEF o
<1> QED
  BY <1>1, <1>2 DEF Balanced

(* One more token, and what is open after it.                              *)
LEMMA BalancedAppend ==
    ASSUME NEW s \in Seq(SafeTokens), NEW a, Balanced(s, a), NEW x \in SafeTokens,
           NEW b \in Seq(OpenTags), Turn(a, x, b)
    PROVE  Balanced(Append(s, x), b)
<1> DEFINE N == Len(s)
           r == Append(s, x)
<1>1. PICK o \in [0..N -> Seq(OpenTags)] : Opens(s, o) /\ o[N] = a
  BY DEF Balanced
<1> DEFINE q == [i \in 0..N + 1 |-> IF i = N + 1 THEN b ELSE o[i]]
<1>2. N \in Nat /\ Len(r) = N + 1 /\ r[N + 1] = x /\ \A i \in 1..N : r[i] = s[i]
  OBVIOUS
<1>3. q \in [0..N + 1 -> Seq(OpenTags)]
  BY <1>2
<1>4. q[0] = <<>> /\ q[N + 1] = b
  BY <1>1, <1>2 DEF Opens
<1>5. ASSUME NEW i \in 1..N + 1 PROVE Turn(q[i - 1], r[i], q[i])
  <2>1. CASE i = N + 1
    <3>1. q[i - 1] = a /\ q[i] = b /\ r[i] = x
      BY <1>1, <1>2, <2>1
    <3> QED
      BY <3>1
  <2>2. CASE i \in 1..N
    <3>1. q[i - 1] = o[i - 1] /\ q[i] = o[i] /\ r[i] = s[i]
      BY <1>2, <2>2
    <3> QED
      BY <1>1, <2>2, <3>1 DEF Opens
  <2> QED
    BY <1>2, <2>1, <2>2
<1> HIDE DEF q, r, N
<1>6. Opens(r, q)
  BY <1>2, <1>4, <1>5 DEF Opens
<1>7. Balanced(r, b)
  BY <1>2, <1>3, <1>4, <1>6 DEF Balanced
<1> QED
  BY <1>7 DEF r

(* The length of a sequence that is given as a function.                   *)
LEMMA LenByDomain ==
    ASSUME NEW S, NEW s \in Seq(S), NEW n \in Nat, DOMAIN s = 1..n
    PROVE  Len(s) = n
<1>1. DOMAIN s = 1..Len(s) /\ Len(s) \in Nat
  BY LenProperties
<1>2. CASE n = 0
  BY <1>1, <1>2
<1>3. CASE n # 0
  BY <1>1, <1>3
<1> QED
  BY <1>2, <1>3

(* One element deeper, one more end tag.                                   *)
LEMMA ClosingStep ==
    ASSUME NEW s \in Seq(OpenTags), NEW n \in 0..Len(s) - 1
    PROVE  Closing(s, n) = Append(Closing(s, n + 1), End(s[n + 1]))
<1> DEFINE L == Len(s)
           c == Closing(s, n + 1)
<1>1. L \in Nat /\ n \in Nat /\ n + 1 \in 0..L
  OBVIOUS
<1>2. /\ c = [i \in 1..(L - (n + 1)) |-> End(s[L - i + 1])]
      /\ Closing(s, n) = [i \in 1..(L - n) |-> End(s[L - i + 1])]
  BY DEF Closing
<1>3. c \in Seq(SafeTokens) /\ Closing(s, n) \in Seq(SafeTokens)
  BY <1>1, ClosingTyped
<1>4. Len(c) = L - n - 1 /\ Len(Closing(s, n)) = L - n
  <2>1. L - (n + 1) \in Nat /\ L - n \in Nat /\ L - (n + 1) = L - n - 1
    BY <1>1
  <2>2. Len(c) = L - (n + 1)
    <3>1. DOMAIN c = 1..(L - (n + 1))
      BY <1>2
    <3> QED
      BY <1>3, <2>1, <3>1, LenByDomain
  <2>3. Len(Closing(s, n)) = L - n
    <3>1. DOMAIN Closing(s, n) = 1..(L - n)
      BY <1>2
    <3> QED
      BY <1>3, <2>1, <3>1, LenByDomain
  <2> QED
    BY <2>1, <2>2, <2>3
<1>5. \A i \in 1..(L - n - 1) : c[i] = End(s[L - i + 1])
  BY <1>1, <1>2
<1>6. \A i \in 1..(L - n) : Closing(s, n)[i] = End(s[L - i + 1])
  BY <1>2
<1>7. L - (L - n) + 1 = n + 1
  BY <1>1
<1>8. End(s[n + 1]) \in SafeTokens
  BY <1>1, EndSafe
<1> DEFINE d == Append(c, End(s[n + 1]))
<1> HIDE DEF c
<1>9. d \in Seq(SafeTokens) /\ Len(d) = L - n
  BY <1>1, <1>3, <1>4, <1>8
<1>10. ASSUME NEW i \in 1..(L - n) PROVE d[i] = Closing(s, n)[i]
  <2>1. CASE i = L - n
    <3>1. d[i] = End(s[n + 1])
      BY <1>1, <1>3, <1>4, <2>1
    <3>2. Closing(s, n)[i] = End(s[L - i + 1])
      BY <1>6
    <3> QED
      BY <1>7, <2>1, <3>1, <3>2
  <2>2. CASE i \in 1..(L - n - 1)
    <3>1. d[i] = c[i]
      BY <1>1, <1>3, <1>4, <2>2
    <3> QED
      BY <1>5, <1>6, <2>2, <3>1
  <2>3. i = L - n \/ i \in 1..(L - n - 1)
    BY <1>1
  <2> QED
    BY <2>1, <2>2, <2>3
<1> HIDE DEF d
<1>11. d = Closing(s, n)
  BY <1>3, <1>4, <1>9, <1>10, SeqEqual
<1> QED
  BY <1>11 DEF d, c

(* End tags for the innermost elements of a balanced text keep it          *)
(* balanced.                                                               *)
LEMMA BalancedClose ==
    ASSUME NEW s \in Seq(SafeTokens), NEW a \in Seq(OpenTags), Balanced(s, a),
           NEW n \in 0..Len(a)
    PROVE  Balanced(s \o Closing(a, n), SubSeq(a, 1, n))
<1> DEFINE L == Len(a)
           P(m) == Balanced(s \o Closing(a, m), SubSeq(a, 1, m))
           T == {k \in Nat : k <= L => P(L - k)}
<1>1. L \in Nat
  OBVIOUS
<1>2. 0 \in T
  <2>1. Closing(a, L) = <<>>
    BY <1>1 DEF Closing
  <2>2. s \o Closing(a, L) = s /\ SubSeq(a, 1, L) = a
    BY <2>1
  <2>3. P(L)
    BY <2>2
  <2>4. L - 0 = L
    BY <1>1
  <2> HIDE DEF P, L
  <2> QED
    BY <2>3, <2>4
<1>3. ASSUME NEW k \in T PROVE k + 1 \in T
  <2> SUFFICES ASSUME k + 1 <= L PROVE P(L - (k + 1))
    OBVIOUS
  <2> DEFINE m == L - (k + 1)
  <2>1. m \in 0..L - 1 /\ m + 1 \in 0..L /\ L - k = m + 1
    BY <1>1
  <2>2. Balanced(s \o Closing(a, m + 1), SubSeq(a, 1, m + 1))
    BY <2>1
  <2> HIDE DEF m
  <2>3. Closing(a, m) = Append(Closing(a, m + 1), End(a[m + 1]))
    BY <2>1, ClosingStep
  <2>4. Closing(a, m + 1) \in Seq(SafeTokens)
    BY <2>1, ClosingTyped
  <2>5. a[m + 1] \in OpenTags
    BY <1>1, <2>1
  <2>6. End(a[m + 1]) \in SafeTokens
    BY <2>5, EndSafe
  <2>7. s \o Closing(a, m) = Append(s \o Closing(a, m + 1), End(a[m + 1]))
    BY <2>3, <2>4, <2>6
  <2>8. SubSeq(a, 1, m + 1) = Append(SubSeq(a, 1, m), a[m + 1])
    BY <1>1, <2>1
  <2>9. Turn(SubSeq(a, 1, m + 1), End(a[m + 1]), SubSeq(a, 1, m))
    BY <2>8 DEF Turn, End
  <2>10. s \o Closing(a, m + 1) \in Seq(SafeTokens) /\ SubSeq(a, 1, m) \in Seq(OpenTags)
    BY <2>1, <2>4
  <2>11. Balanced(Append(s \o Closing(a, m + 1), End(a[m + 1])), SubSeq(a, 1, m))
    BY <2>2, <2>6, <2>9, <2>10, BalancedAppend
  <2> QED
    BY <2>7, <2>11 DEF m
<1>4. T = Nat
  <2> HIDE DEF T
  <2>1. T \in SUBSET Nat
    BY DEF T
  <2> QED
    BY <1>2, <1>3, <2>1, Induct
<1>5. L - n \in Nat /\ L - (L - n) = n /\ L - n <= L
  BY <1>1
<1>6. L - n \in T
  <2> HIDE DEF T
  <2> QED
    BY <1>4, <1>5
<1> HIDE DEF P, L
<1> QED
  BY <1>5, <1>6 DEF P

(* Whatever token comes, the output stays balanced with the parser's stack *)
(* open.                                                                   *)
LEMMA HandleBalanced ==
    ASSUME NEW p \in Parser, Balanced(p.output, p.stack), NEW x \in Token
    PROVE  Balanced(Handle(p, x).output, Handle(p, x).stack)
<1> DEFINE q == Handle(p, x)
           t == x[2]
           tag == Alias(t)
<1>1. /\ p.output \in Seq(SafeTokens) /\ p.stack \in Seq(OpenTags)
      /\ p.blocked \in Seq(TagName)
  BY ParserFields
<1>2. CASE q.output = p.output /\ q.stack = p.stack
  BY <1>2
<1>3. ASSUME x[1] \in {"start", "startend"}, q = StartTag(p, t)
      PROVE  Balanced(q.output, q.stack)
  <2>1. CASE ~Dropping(p, t) /\ tag \in AllowedTags
    <3> DEFINE st == IF tag \in VoidTags THEN p.stack ELSE Append(p.stack, tag)
    <3>1. q = [output |-> Append(p.output, Start(tag)), stack |-> st, blocked |-> p.blocked]
      BY <1>3, <2>1, StartTagSteps
    <3>2. st \in Seq(OpenTags)
      BY <1>1, <2>1 DEF OpenTags
    <3>3. Turn(p.stack, Start(tag), st)
      BY DEF Turn, Start
    <3>4. Balanced(Append(p.output, Start(tag)), st)
      BY <1>1, <2>1, <3>2, <3>3, StartSafe, BalancedAppend
    <3> QED
      BY <3>1, <3>4
  <2>2. CASE ~(~Dropping(p, t) /\ tag \in AllowedTags)
    <3>1. q.output = p.output /\ q.stack = p.stack
      BY <1>3, <2>2, StartTagSteps
    <3> QED
      BY <1>2, <3>1
  <2> QED
    BY <2>1, <2>2
<1>4. CASE x[1] = "start"
  BY <1>3, <1>4, HandleCases
<1>5. CASE x[1] = "startend"
  <2>1. q = StartTag(p, t) \/ q = p
    BY <1>5, HandleCases DEF StartEndTag
  <2> QED
    BY <1>2, <1>3, <1>5, <2>1
<1>6. CASE x[1] = "end"
  <2>1. q = EndTag(p, t)
    BY <1>6, HandleCases
  <2>2. CASE p.blocked = <<>> /\ Contains(p.stack, tag)
    <3>1. PICK n \in 0..Len(p.stack)-1 :
              EndTag(p, t) = [output |-> p.output \o Closing(p.stack, n),
                              stack |-> SubSeq(p.stack, 1, n), blocked |-> <<>>]
      BY <2>2, EndTagSteps
    <3>2. n \in 0..Len(p.stack)
      BY <1>1
    <3>3. Balanced(p.output \o Closing(p.stack, n), SubSeq(p.stack, 1, n))
      BY <1>1, <3>2, BalancedClose
    <3> QED
      BY <2>1, <3>1, <3>3
  <2>3. CASE ~(p.blocked = <<>> /\ Contains(p.stack, tag))
    <3>1. CASE p.blocked # <<>>
      <4>1. q = [output |-> p.output, stack |-> p.stack, blocked |-> PopTo(p.blocked, t)]
        BY <2>1, <3>1, EndTagSteps
      <4> QED
        BY <1>2, <4>1
    <3>2. CASE p.blocked = <<>> /\ ~Contains(p.stack, tag)
      <4>1. q = p
        BY <2>1, <3>2, EndTagSteps
      <4> QED
        BY <1>2, <4>1
    <3> QED
      BY <2>3, <3>1, <3>2
  <2> QED
    BY <2>2, <2>3
<1>7. CASE x[1] = "data"
  <2>1. CASE p.blocked = <<>>
    <3>1. q = [output |-> Append(p.output, Data(t)), stack |-> p.stack, blocked |-> p.blocked]
      BY <1>7, <2>1, HandleCases, HandleDataSteps
    <3>2. Turn(p.stack, Data(t), p.stack)
      BY DEF Turn, Data, IsData
    <3>3. Data(t) \in SafeTokens
      BY <1>7, TokenCases, DataSafe
    <3>4. Balanced(Append(p.output, Data(t)), p.stack)
      BY <1>1, <3>2, <3>3, BalancedAppend
    <3> QED
      BY <3>1, <3>4
  <2>2. CASE p.blocked # <<>>
    <3>1. q = p
      BY <1>7, <2>2, HandleCases, HandleDataSteps
    <3> QED
      BY <1>2, <3>1
  <2> QED
    BY <2>1, <2>2
<1> QED
  BY <1>4, <1>5, <1>6, <1>7, TokenCases

(* After any text the output is balanced, with the stack open.             *)
LEMMA FedBalanced ==
    ASSUME NEW s \in Seq(Token)
    PROVE  Fed(s) \in Parser /\ Balanced(Fed(s).output, Fed(s).stack)
<1> DEFINE h == Parsing(s)
           T == {i \in Nat : i <= Len(s) => Balanced(h[i].output, h[i].stack)}
<1>1. /\ h \in [0..Len(s) -> Parser] /\ h[0] = NewParser
      /\ \A i \in 1..Len(s) : h[i] = Handle(h[i - 1], s[i])
  BY ParsingSteps
<1> HIDE DEF h
<1>2. 0 \in T
  BY <1>1, BalancedEmpty DEF NewParser
<1>3. ASSUME NEW i \in T PROVE i + 1 \in T
  <2> SUFFICES ASSUME i + 1 <= Len(s)
               PROVE  Balanced(h[i + 1].output, h[i + 1].stack)
    OBVIOUS
  <2>1. i \in 0..Len(s) /\ i + 1 \in 1..Len(s) /\ (i + 1) - 1 = i
    OBVIOUS
  <2>2. h[i] \in Parser /\ Balanced(h[i].output, h[i].stack) /\ s[i + 1] \in Token
    BY <1>1, <2>1
  <2>3. h[i + 1] = Handle(h[i], s[i + 1])
    BY <1>1, <2>1
  <2> QED
    BY <2>2, <2>3, HandleBalanced
<1>4. T = Nat
  <2> HIDE DEF T
  <2>1. T \in SUBSET Nat
    BY DEF T
  <2> QED
    BY <1>2, <1>3, <2>1, Induct
<1>5. Len(s) \in Nat
  OBVIOUS
<1>6. Len(s) \in T
  BY <1>4, <1>5
<1> QED
  BY <1>1, <1>5, <1>6 DEF Fed, h

-------------------------------------------------------------------------------
(* What a reader of the text has open.                                     *)

(* What may be open to a reader.                                           *)
Opened == TagName \cup {"mismatch"}

(* A reader's open elements are names, or a mismatch.                      *)
LEMMA InsideTyped ==
    ASSUME NEW open \in Seq(Opened), NEW x \in Token
    PROVE  Inside(open, x) \in Seq(Opened)
<1>1. CASE x[1] = "start" /\ x[2] \notin HtmlVoidTags
  <2>1. x[2] \in Opened
    BY <1>1, TokenCases DEF Opened
  <2> QED
    BY <1>1, <2>1 DEF Inside
<1>2. CASE x[1] = "end" /\ open # <<>> /\ Last(open) = x[2]
  BY <1>2 DEF Inside, Front
<1>3. CASE x[1] = "end" /\ ~(open # <<>> /\ Last(open) = x[2])
  <2>1. <<"mismatch">> \o open \in Seq(Opened)
    BY DEF Opened
  <2>2. Inside(open, x) = <<"mismatch">> \o open
    BY <1>3 DEF Inside
  <2> QED
    BY <2>1, <2>2
<1>4. CASE x[1] # "end" /\ ~(x[1] = "start" /\ x[2] \notin HtmlVoidTags)
  BY <1>4 DEF Inside
<1> QED
  BY <1>1, <1>2, <1>3, <1>4

(* The recursive function of Nested, unrolled.                             *)
LEMMA NestedSteps ==
    ASSUME NEW s \in Seq(Token)
    PROVE  /\ Nested(s) \in [0..Len(s) -> Seq(Opened)]
           /\ Nested(s)[0] = <<>>
           /\ \A i \in 1..Len(s) : Nested(s)[i] = Inside(Nested(s)[i - 1], s[i])
<1> DEFINE N == Len(s)
           Open == Seq(Opened)
           step == [i \in 1..N |-> [a \in Open |-> Inside(a, s[i])]]
           h == Nested(s)
           g == [i \in 0..N |-> IF i = 0 THEN <<>> ELSE Inside(h[i - 1], s[i])]
<1>1. step \in [1..N -> [Open -> Open]]
  <2>1. \A a \in Open, x \in Token : Inside(a, x) \in Open
    BY InsideTyped
  <2> HIDE DEF Open
  <2> QED
    BY <2>1
<1>2. <<>> \in Open
  OBVIOUS
<1>3. PICK f : Unrolls(f, N, Open, <<>>, step)
  <2>1. N \in Nat
    OBVIOUS
  <2>2. step \in Steps(N, Open)
    BY <1>1 DEF Steps
  <2> HIDE DEF step, N, Open
  <2> QED
    BY <1>2, <2>1, <2>2, Recursion
<1>4. /\ f \in [0..N -> Open] /\ f[0] = <<>>
       /\ \A i \in 1..N : f[i] = step[i][f[i - 1]]
  BY <1>3 DEF Unrolls
<1>5. ASSUME NEW i \in 1..N PROVE f[i] = Inside(f[i - 1], s[i])
  <2>1. f[i - 1] \in Open
    BY <1>4
  <2>2. step[i][f[i - 1]] = Inside(f[i - 1], s[i])
    BY <2>1
  <2> QED
    BY <1>4, <2>2
<1>6. f = [i \in 0..N |-> IF i = 0 THEN <<>> ELSE Inside(f[i - 1], s[i])]
  BY <1>4, <1>5
<1>7. h = g
  BY <1>6 DEF Nested
<1> HIDE DEF h
<1>8. g[0] = <<>> /\ \A i \in 1..N : g[i] = Inside(h[i - 1], s[i])
  OBVIOUS
<1>9. h[0] = <<>> /\ \A i \in 1..N : h[i] = Inside(h[i - 1], s[i])
  BY <1>7, <1>8
<1>10. \A i \in 0..N : h[i] = f[i]
  <2> DEFINE T == {i \in Nat : i <= N => h[i] = f[i]}
  <2>1. 0 \in T
    BY <1>4, <1>9
  <2>2. ASSUME NEW i \in T PROVE i + 1 \in T
    <3> SUFFICES ASSUME i + 1 <= N PROVE h[i + 1] = f[i + 1]
      OBVIOUS
    <3>1. i + 1 \in 1..N /\ (i + 1) - 1 = i /\ h[i] = f[i]
      OBVIOUS
    <3> QED
      BY <1>5, <1>9, <3>1
  <2>3. T = Nat
    <3> HIDE DEF T
    <3>1. T \in SUBSET Nat
      BY DEF T
    <3> QED
      BY <2>1, <2>2, <3>1, Induct
  <2> QED
    BY <2>3
<1>11. h \in [0..N -> Open]
  <2>1. h = [i \in 0..N |-> h[i]]
    BY <1>7
  <2> HIDE DEF g, N, Open
  <2> QED
    BY <1>10, <1>4, <2>1
<1> QED
  BY <1>9, <1>11 DEF h

(* A reader agrees with every turn of a balanced text.                     *)
LEMMA TurnInside ==
    ASSUME NEW b \in Seq(OpenTags), NEW c \in Seq(OpenTags), NEW x \in SafeTokens, Turn(b, x, c)
    PROVE  Inside(b, x) = c
<1>1. x[1] = "start" => (x[2] \in VoidTags <=> x[2] \in HtmlVoidTags)
  BY SafeTokenCases DEF AllowedTags, VoidTags, HtmlVoidTags
<1>2. CASE x[1] = "data" /\ c = b
  BY <1>2 DEF Inside
<1>3. CASE x[1] = "start" /\ x[2] \in VoidTags /\ c = b
  BY <1>1, <1>3 DEF Inside
<1>4. CASE x[1] = "start" /\ x[2] \notin VoidTags /\ c = Append(b, x[2])
  BY <1>1, <1>4 DEF Inside
<1>5. CASE x[1] = "end" /\ b = Append(c, x[2])
  <2>1. x[2] \in OpenTags
    BY <1>5, SafeTokenCases
  <2>2. b # <<>> /\ Last(b) = x[2] /\ Front(b) = c
    <3>1. Len(b) = Len(c) + 1 /\ b[Len(b)] = x[2] /\ Len(c) \in Nat
      BY <1>5, <2>1
    <3>2. SubSeq(b, 1, Len(b) - 1) = c
      BY <1>5, <2>1, AppendProperties
    <3> QED
      BY <3>1, <3>2 DEF Last, Front
  <2> QED
    BY <1>5, <2>2 DEF Inside
<1> QED
  BY <1>2, <1>3, <1>4, <1>5 DEF Turn, IsData

(* A reader of balanced text has open what the text leaves open.           *)
LEMMA BalancedNest ==
    ASSUME NEW s \in Seq(SafeTokens), NEW a, Balanced(s, a)
    PROVE  Nest(s) = a
<1> DEFINE N == Len(s)
           h == Nested(s)
<1>1. PICK o \in [0..N -> Seq(OpenTags)] : Opens(s, o) /\ o[N] = a
  BY DEF Balanced
<1>2. s \in Seq(Token) /\ N \in Nat
  BY SafeAreTokens
<1>3. h[0] = <<>> /\ \A i \in 1..N : h[i] = Inside(h[i - 1], s[i])
  BY <1>2, NestedSteps
<1> HIDE DEF h
<1> DEFINE T == {i \in Nat : i <= N => h[i] = o[i]}
<1>4. 0 \in T
  BY <1>1, <1>3 DEF Opens
<1>5. ASSUME NEW i \in T PROVE i + 1 \in T
  <2> SUFFICES ASSUME i + 1 <= N PROVE h[i + 1] = o[i + 1]
    OBVIOUS
  <2> DEFINE b == o[i]  c == o[i + 1]  x == s[i + 1]
  <2>1. i + 1 \in 1..N /\ i \in 0..N /\ i + 1 \in 0..N /\ (i + 1) - 1 = i /\ h[i] = b
    BY <1>2
  <2>2. h[i + 1] = Inside(b, x)
    BY <1>3, <2>1
  <2>3. b \in Seq(OpenTags) /\ c \in Seq(OpenTags) /\ x \in SafeTokens
    BY <1>1, <2>1
  <2>4. Turn(b, x, c)
    BY <1>1, <2>1 DEF Opens
  <2> HIDE DEF b, c, x
  <2>5. Inside(b, x) = c
    BY <2>3, <2>4, TurnInside
  <2> QED
    BY <2>2, <2>5 DEF c
<1>6. T = Nat
  <2> HIDE DEF T
  <2>1. T \in SUBSET Nat
    BY DEF T
  <2> QED
    BY <1>4, <1>5, <2>1, Induct
<1>7. h[N] = o[N]
  BY <1>2, <1>6
<1> QED
  BY <1>1, <1>7 DEF Nest, h

-------------------------------------------------------------------------------
(* Sanitized text is a fixed point of the parser.                          *)

(* The aliases are for tags that are not allowed under their own name.     *)
LEMMA AliasOfAllowed == ASSUME NEW t \in AllowedTags PROVE Alias(t) = t
BY DEF Alias, AllowedTags

(* The parser repeats balanced text of allowed tags as it is.              *)
Echoed(s, open) == [output |-> s, stack |-> open, blocked |-> <<>>]

(* One more token of balanced text of allowed tags.                        *)
LEMMA EchoStep ==
    ASSUME NEW s \in Seq(SafeTokens), NEW a \in Seq(OpenTags), NEW x \in SafeTokens,
           NEW b \in Seq(OpenTags), Turn(a, x, b)
    PROVE  Handle(Echoed(s, a), x) = Echoed(Append(s, x), b)
<1> DEFINE p == Echoed(s, a)
           q == Handle(p, x)
           t == x[2]
<1>1. /\ p \in Parser /\ x \in Token
      /\ p.output = s /\ p.stack = a /\ p.blocked = <<>>
  <2>1. p = [output |-> s, stack |-> a, blocked |-> <<>>]
    BY DEF Echoed
  <2>2. <<>> \in Seq(TagName)
    OBVIOUS
  <2>3. p \in Parser
    BY <2>1, <2>2, ParserMade
  <2> QED
    BY <2>1, <2>3, SafeAreTokens
<1>2. CASE x[1] = "data"
  <2>1. x = Data(t) /\ b = a
    BY <1>2, SafeTokenCases DEF Data, Turn
  <2>2. q = [output |-> Append(p.output, Data(t)), stack |-> p.stack, blocked |-> p.blocked]
    <3>1. q = HandleData(p, t)
      BY <1>1, <1>2, HandleCases
    <3> HIDE DEF p, q
    <3> QED
      BY <1>1, <3>1, HandleDataSteps
  <2> HIDE DEF p, q
  <2> QED
    BY <1>1, <2>1, <2>2 DEF Echoed, q, p
<1>3. CASE x[1] = "start"
  <2>1. t \in AllowedTags /\ Alias(t) = t /\ x = Start(t)
    BY <1>3, SafeTokenCases, AliasOfAllowed DEF Start
  <2>2. b = IF t \in VoidTags THEN a ELSE Append(a, t)
    BY <1>3 DEF Turn, IsData
  <2>3. ~Dropping(p, t)
    BY <1>1, <2>1 DEF Dropping, AllowedTags, DropContentTags
  <2>4. q = StartTag(p, t)
    BY <1>1, <1>3, HandleCases
  <2> HIDE DEF p, q
  <2>5. q = [output |-> Append(p.output, Start(Alias(t))),
             stack |-> IF Alias(t) \in VoidTags THEN p.stack ELSE Append(p.stack, Alias(t)),
             blocked |-> p.blocked]
    BY <1>1, <2>1, <2>3, <2>4, StartTagSteps
  <2>6. q = [output |-> Append(s, x), stack |-> b, blocked |-> <<>>]
    BY <1>1, <2>1, <2>2, <2>5
  <2> QED
    BY <2>6 DEF Echoed, q, p
<1>4. CASE x[1] = "end"
  <2>1. t \in OpenTags /\ t \in AllowedTags /\ Alias(t) = t /\ x = End(t)
    BY <1>4, SafeTokenCases, AliasOfAllowed DEF End, OpenTags
  <2>2. a = Append(b, t)
    BY <1>4 DEF Turn, IsData
  <2>3. Len(b) \in Nat /\ Len(a) = Len(b) + 1 /\ a[Len(a)] = t
    BY <2>1, <2>2
  <2>4. Contains(a, t)
    BY <2>3 DEF Contains
  <2>5. q = EndTag(p, t)
    BY <1>1, <1>4, HandleCases
  <2>6. PICK n \in 0..Len(a)-1 :
           /\ PopTo(a, t) = SubSeq(a, 1, n) /\ a[n + 1] = t
           /\ \A i \in n+2..Len(a) : a[i] # t
    BY <2>4, PopToFacts
  <2>7. n = Len(b)
    BY <2>3, <2>6
  <2>8. SubSeq(a, 1, Len(b)) = b
    BY <2>1, <2>2, AppendProperties
  <2>9. Len(PopTo(a, t)) = Len(b)
    BY <2>6, <2>7, <2>8
  <2> HIDE DEF p, q
  <2>10. q = Close(p, Len(b))
    BY <1>1, <2>1, <2>4, <2>5, <2>9 DEF EndTag
  <2>11. q = [output |-> s \o Closing(a, Len(b)), stack |-> b, blocked |-> <<>>]
    BY <1>1, <2>8, <2>10, CloseSteps
  <2>12. s \o Closing(a, Len(b)) = Append(s, x)
    <3>1. Closing(a, Len(a)) = <<>>
      BY <2>3 DEF Closing
    <3>2. Len(b) \in 0..Len(a) - 1
      BY <2>3
    <3>3. Closing(a, Len(b)) = Append(<<>>, x)
      BY <2>1, <2>3, <3>1, <3>2, ClosingStep
    <3> QED
      BY <3>3
  <2> QED
    BY <2>11, <2>12 DEF Echoed, q, p
<1> QED
  BY <1>2, <1>3, <1>4, SafeTokenCases

(* The parser repeats a balanced text of allowed tags.                     *)
LEMMA FedEcho ==
    ASSUME NEW s \in Seq(SafeTokens), NEW a, Balanced(s, a)
    PROVE  Fed(s) = Echoed(s, a)
<1> DEFINE N == Len(s)
           h == Parsing(s)
<1>1. PICK o \in [0..N -> Seq(OpenTags)] : Opens(s, o) /\ o[N] = a
  BY DEF Balanced
<1>2. s \in Seq(Token) /\ N \in Nat
  BY SafeAreTokens
<1>3. h[0] = NewParser /\ \A i \in 1..N : h[i] = Handle(h[i - 1], s[i])
  BY <1>2, ParsingSteps
<1> HIDE DEF h
<1> DEFINE T == {i \in Nat : i <= N => h[i] = Echoed(SubSeq(s, 1, i), o[i])}
<1>4. 0 \in T
  <2>1. SubSeq(s, 1, 0) = <<>> /\ o[0] = <<>>
    BY <1>1 DEF Opens
  <2> QED
    BY <1>3, <2>1 DEF NewParser, Echoed
<1>5. ASSUME NEW i \in T PROVE i + 1 \in T
  <2> SUFFICES ASSUME i + 1 <= N
               PROVE  h[i + 1] = Echoed(SubSeq(s, 1, i + 1), o[i + 1])
    OBVIOUS
  <2> DEFINE b == o[i]  c == o[i + 1]  x == s[i + 1]  r == SubSeq(s, 1, i)
  <2>1. /\ i + 1 \in 1..N /\ i \in 0..N /\ i + 1 \in 0..N /\ (i + 1) - 1 = i
        /\ h[i] = Echoed(r, b)
    BY <1>2
  <2>2. h[i + 1] = Handle(Echoed(r, b), x)
    BY <1>3, <2>1
  <2>3. b \in Seq(OpenTags) /\ c \in Seq(OpenTags) /\ x \in SafeTokens /\ r \in Seq(SafeTokens)
    BY <1>1, <2>1
  <2>4. Turn(b, x, c)
    BY <1>1, <2>1 DEF Opens
  <2>5. SubSeq(s, 1, i + 1) = Append(r, x)
    BY <1>2, <2>1
  <2> HIDE DEF b, c, x, r
  <2>6. Handle(Echoed(r, b), x) = Echoed(Append(r, x), c)
    BY <2>3, <2>4, EchoStep
  <2> QED
    BY <2>2, <2>5, <2>6 DEF c
<1>6. T = Nat
  <2> HIDE DEF T
  <2>1. T \in SUBSET Nat
    BY DEF T
  <2> QED
    BY <1>4, <1>5, <2>1, Induct
<1>7. h[N] = Echoed(SubSeq(s, 1, N), o[N])
  BY <1>2, <1>6
<1>8. SubSeq(s, 1, N) = s
  OBVIOUS
<1> QED
  BY <1>1, <1>7, <1>8 DEF Fed, h

-------------------------------------------------------------------------------
(* What str.strip keeps, and that it keeps balanced text balanced.         *)

(* What Strip keeps: the text between the outer blanks.                    *)
LEMMA StripFacts ==
    ASSUME NEW S, NEW s \in Seq(S)
    PROVE  \/ /\ Strip(s) = <<>>
              /\ \A i \in 1..Len(s) : IsBlank(s[i])
           \/ \E m \in 1..Len(s), n \in 1..Len(s) :
                 /\ m <= n
                 /\ \A i \in 1..Len(s) : i < m \/ n < i => IsBlank(s[i])
                 /\ ~IsBlank(s[m]) /\ ~IsBlank(s[n])
                 /\ Strip(s) = Dashed(SubSeq(s, m, n))
<1> DEFINE N == Len(s)
           I == {i \in 1..N : ~IsBlank(s[i])}
           m == SelectInSeq(s, LAMBDA x : ~IsBlank(x))
           r == SubSeq(s, m, N)
<1>1. N \in Nat /\ I \in SUBSET (1..N)
  OBVIOUS
<1>2. m = IF I # {} THEN Min(I) ELSE 0
  BY DEF SelectInSeq
<1>3. Strip(s) = IF m = 0 THEN <<>> ELSE RStrip(r)
  BY DEF Strip
<1> HIDE DEF m
<1>4. m \in 0..N /\ (m = 0 => I = {}) /\ (m # 0 => m \in I) /\ \A i \in I : m <= i
  <2> HIDE DEF I, N
  <2> QED
    BY <1>1, <1>2, FirstIndex
<1>5. CASE m = 0
  BY <1>3, <1>4, <1>5
<1>6. CASE m # 0
  <2> DEFINE K == Len(r)
             J == {i \in 1..K : ~IsBlank(r[i])}
             k == SelectLastInSeq(r, LAMBDA x : ~IsBlank(x))
             n == m + k - 1
  <2>1. m \in 1..N /\ m \in I
    BY <1>4, <1>6
  <2>2. r \in Seq(S) /\ K = N - m + 1 /\ \A i \in 1..K : r[i] = s[m + i - 1]
    BY <1>1, <2>1
  <2>3. K \in Nat /\ K >= 1 /\ J \in SUBSET (1..K)
    BY <1>1, <2>1, <2>2
  <2>4. k = IF J # {} THEN Max(J) ELSE 0
    BY DEF SelectLastInSeq
  <2>5. RStrip(r) = Dashed(SubSeq(r, 1, k))
    BY DEF RStrip
  <2> HIDE DEF k
  <2>6. k \in 0..K /\ (k = 0 => J = {}) /\ (k # 0 => k \in J) /\ \A i \in J : i <= k
    <3> HIDE DEF J, K
    <3> QED
      BY <2>3, <2>4, LastIndex
  <2>7. 1 \in J
    <3>1. r[1] = s[m]
      BY <2>1, <2>2, <2>3
    <3> QED
      BY <2>1, <2>3, <3>1
  <2>8. k \in 1..K /\ k \in J
    BY <2>3, <2>6, <2>7
  <2>9. n \in 1..N /\ m <= n /\ r[k] = s[n]
    BY <1>1, <2>1, <2>2, <2>8
  <2>10. ~IsBlank(s[m]) /\ ~IsBlank(s[n])
    BY <2>1, <2>8, <2>9
  <2>11. ASSUME NEW i \in 1..N, i < m \/ n < i PROVE IsBlank(s[i])
    <3>1. CASE i < m
      <4>1. i \notin I
        BY <1>1, <1>4, <2>1, <3>1
      <4> QED
        BY <4>1
    <3>2. CASE n < i
      <4> DEFINE j == i - m + 1
      <4>1. j \in 1..K /\ j > k /\ m + j - 1 = i
        BY <1>1, <2>1, <2>2, <2>8, <3>2
      <4>2. j \notin J
        <5> HIDE DEF j, J
        <5> QED
          BY <2>6, <2>8, <4>1
      <4>3. r[j] = s[i]
        BY <2>2, <4>1
      <4> HIDE DEF j, r
      <4> QED
        BY <4>1, <4>2, <4>3
    <3> QED
      BY <2>11, <3>1, <3>2
  <2>12. SubSeq(r, 1, k) = SubSeq(s, m, n)
    <3> DEFINE u == SubSeq(s, m, n)
               v == SubSeq(r, 1, k)
    <3>1. u \in Seq(S) /\ Len(u) = k /\ \A i \in 1..k : u[i] = s[m + i - 1]
      BY <1>1, <2>1, <2>8, <2>9
    <3>2. v \in Seq(S) /\ Len(v) = k /\ \A i \in 1..k : v[i] = r[i]
      <4> HIDE DEF r
      <4> QED
        BY <2>2, <2>3, <2>8
    <3>3. \A i \in 1..k : v[i] = u[i]
      BY <2>2, <2>8, <3>1, <3>2
    <3> HIDE DEF u, v
    <3>4. u = v
      BY <3>1, <3>2, <3>3, SeqEqual
    <3> QED
      BY <3>4 DEF u, v
  <2> HIDE DEF n, r
  <2>13. Strip(s) = Dashed(SubSeq(s, m, n))
    BY <1>3, <1>6, <2>5, <2>12
  <2> QED
    BY <2>1, <2>9, <2>10, <2>11, <2>13
<1> QED
  BY <1>5, <1>6

(* A dash, from a stripped bullet, is text.                                *)
LEMMA DashSafe == Data(Dash) \in SafeTokens
BY DataSafe DEF Content

(* str.rstrip changes a last bullet only, and into a dash.                 *)
LEMMA DashedFacts ==
    ASSUME NEW S, Data(Dash) \in S, NEW u \in Seq(S)
    PROVE  /\ Dashed(u) \in Seq(S) /\ Len(Dashed(u)) = Len(u)
           /\ \A i \in 1..Len(u) : \/ Dashed(u)[i] = u[i]
                                   \/ u[i] = Data(Bullet) /\ Dashed(u)[i] = Data(Dash)
           /\ u # <<>> => Dashed(u)[Len(u)] # Data(Bullet)
           /\ u # <<>> /\ u[Len(u)] # Data(Bullet) => Dashed(u) = u
<1> DEFINE N == Len(u)
           d == Dashed(u)
<1>1. DOMAIN u = 1..N /\ N \in Nat
  OBVIOUS
<1>2. d = [i \in 1..N |-> IF i = N /\ u[i] = Data(Bullet) THEN Data(Dash) ELSE u[i]]
  BY <1>1 DEF Dashed
<1>3. ASSUME NEW i \in 1..N
      PROVE  (IF i = N /\ u[i] = Data(Bullet) THEN Data(Dash) ELSE u[i]) \in S
  OBVIOUS
<1>4. d \in Seq(S)
  <2>1. d \in [1..N -> S]
    BY <1>2, <1>3
  <2> HIDE DEF d
  <2> QED
    BY <1>1, <2>1
<1>5. Len(d) = N
  <2>1. DOMAIN d = 1..N
    BY <1>2
  <2> HIDE DEF d
  <2> QED
    BY <1>1, <1>4, <2>1, LenByDomain
<1>6. \A i \in 1..N : d[i] = IF i = N /\ u[i] = Data(Bullet) THEN Data(Dash) ELSE u[i]
  BY <1>2
<1>7. Data(Dash) # Data(Bullet)
  BY DEF Data, Dash, Bullet
<1>8. u # <<>> => N \in 1..N
  BY <1>1
<1> HIDE DEF d
<1>9. ASSUME u # <<>>, u[N] # Data(Bullet) PROVE d = u
  <2>1. \A i \in 1..N : d[i] = u[i]
    BY <1>6, <1>9
  <2> QED
    BY <1>4, <1>5, <2>1, SeqEqual
<1>10. u # <<>> => d[N] # Data(Bullet)
  BY <1>6, <1>7, <1>8
<1> QED
  BY <1>4, <1>5, <1>6, <1>9, <1>10 DEF d

(* Stripping adds only a dash.                                             *)
LEMMA StripTyped ==
    ASSUME NEW S, Data(Dash) \in S, NEW s \in Seq(S)
    PROVE  Strip(s) \in Seq(S)
<1>1. CASE Strip(s) = <<>>
  BY <1>1
<1>2. CASE Strip(s) # <<>>
  <2>1. PICK m \in 1..Len(s), n \in 1..Len(s) : Strip(s) = Dashed(SubSeq(s, m, n))
    BY <1>2, StripFacts
  <2>2. SubSeq(s, m, n) \in Seq(S)
    OBVIOUS
  <2> QED
    BY <2>1, <2>2, DashedFacts
<1> QED
  BY <1>1, <1>2

(* So it keeps safe tokens safe.                                           *)
LEMMA StripSafe ==
    ASSUME NEW s \in Seq(SafeTokens)
    PROVE  Strip(s) \in Seq(SafeTokens)
BY DashSafe, StripTyped

(* A text without outer blanks and a last bullet is left alone.            *)
LEMMA StripFixed ==
    ASSUME NEW s \in Seq(SafeTokens),
           s # <<>> => ~IsBlank(s[1]) /\ ~IsBlank(s[Len(s)]) /\ s[Len(s)] # Data(Bullet)
    PROVE  Strip(s) = s
<1>1. CASE s = <<>>
  <2>1. Len(s) = 0
    BY <1>1
  <2> QED
    <3>1. ASSUME Strip(s) # <<>> PROVE FALSE
      <4>1. PICK m \in 1..Len(s) : TRUE
        BY <3>1, StripFacts
      <4> QED
        BY <2>1, <4>1
    <3> QED
      BY <1>1, <3>1
<1>2. CASE s # <<>>
  <2>1. Len(s) \in Nat /\ Len(s) >= 1 /\ 1 \in 1..Len(s) /\ Len(s) \in 1..Len(s)
    BY <1>2
  <2>2. PICK m \in 1..Len(s), n \in 1..Len(s) :
           /\ m <= n
           /\ \A i \in 1..Len(s) : i < m \/ n < i => IsBlank(s[i])
           /\ ~IsBlank(s[m]) /\ ~IsBlank(s[n])
           /\ Strip(s) = Dashed(SubSeq(s, m, n))
    BY <1>2, <2>1, StripFacts
  <2>3. m = 1 /\ n = Len(s)
    BY <1>2, <2>1, <2>2
  <2>4. SubSeq(s, m, n) = s
    BY <2>3
  <2> QED
    BY <1>2, <2>2, <2>4, DashSafe, DashedFacts
<1> QED
  BY <1>1, <1>2

(* To strip again changes nothing.                                         *)
LEMMA StripTwice ==
    ASSUME NEW s \in Seq(SafeTokens)
    PROVE  Strip(Strip(s)) = Strip(s)
<1> DEFINE y == Strip(s)
<1>1. y \in Seq(SafeTokens)
  BY StripSafe
<1>2. CASE y = <<>>
  BY <1>1, <1>2, StripFixed
<1>3. CASE y # <<>>
  <2>1. PICK m \in 1..Len(s), n \in 1..Len(s) :
           /\ m <= n
           /\ ~IsBlank(s[m]) /\ ~IsBlank(s[n])
           /\ y = Dashed(SubSeq(s, m, n))
    BY <1>3, StripFacts
  <2> DEFINE u == SubSeq(s, m, n)
             L == n - m + 1
  <2>2. u \in Seq(SafeTokens) /\ Len(u) = L /\ L \in Nat /\ L >= 1
    BY <2>1
  <2>3. u[1] = s[m] /\ u[L] = s[n]
    BY <2>1
  <2>4. u # <<>>
    BY <2>2
  <2> HIDE DEF u, L, y
  <2>5. /\ Len(y) = L /\ y[L] # Data(Bullet)
        /\ \A i \in 1..L : y[i] = u[i] \/ y[i] = Data(Dash)
    BY <2>1, <2>2, <2>4, DashSafe, DashedFacts DEF u
  <2>6. ~IsBlank(Data(Dash))
    BY DEF IsBlank, Data, Dash, Blanks, NewLine
  <2>7. 1 \in 1..L /\ L \in 1..L
    BY <2>2
  <2>8. ~IsBlank(y[1]) /\ ~IsBlank(y[Len(y)]) /\ y[Len(y)] # Data(Bullet)
    BY <2>1, <2>3, <2>5, <2>6, <2>7
  <2> QED
    BY <1>1, <2>8, StripFixed DEF y
<1> QED
  BY <1>2, <1>3

(* The blanks that are stripped are text: what is left stays balanced.     *)
LEMMA BalancedStrip ==
    ASSUME NEW s \in Seq(SafeTokens), Balanced(s, <<>>)
    PROVE  Balanced(Strip(s), <<>>)
<1> DEFINE N == Len(s)
           y == Strip(s)
<1>1. CASE y = <<>>
  BY <1>1, BalancedEmpty
<1>2. CASE y # <<>>
  <2>1. PICK m \in 1..N, n \in 1..N :
           /\ m <= n
           /\ \A i \in 1..N : i < m \/ n < i => IsBlank(s[i])
           /\ y = Dashed(SubSeq(s, m, n))
    BY <1>2, StripFacts
  <2>2. PICK o \in [0..N -> Seq(OpenTags)] : Opens(s, o) /\ o[N] = <<>>
    BY DEF Balanced
  <2>3. N \in Nat
    OBVIOUS
  <2>4. o[0] = <<>> /\ \A i \in 1..N : Turn(o[i - 1], s[i], o[i])
    BY <2>2 DEF Opens
  <2>5. ASSUME NEW i \in 1..N, IsBlank(s[i]) PROVE o[i] = o[i - 1]
    BY <2>4, <2>5 DEF Turn, IsBlank, IsData
  <2>6. o[m - 1] = <<>>
    <3> DEFINE T == {i \in Nat : i < m => o[i] = <<>>}
    <3>1. 0 \in T
      BY <2>4
    <3>2. ASSUME NEW i \in T PROVE i + 1 \in T
      <4> SUFFICES ASSUME i + 1 < m PROVE o[i + 1] = <<>>
        OBVIOUS
      <4>1. i + 1 \in 1..N /\ (i + 1) - 1 = i /\ o[i] = <<>>
        BY <2>3
      <4>2. IsBlank(s[i + 1])
        BY <2>1, <4>1
      <4> QED
        BY <2>5, <4>1, <4>2
    <3>3. T = Nat
      <4> HIDE DEF T
      <4>1. T \in SUBSET Nat
        BY DEF T
      <4> QED
        BY <3>1, <3>2, <4>1, Induct
    <3>4. m - 1 \in Nat /\ m - 1 < m
      BY <2>3
    <3> QED
      BY <3>3, <3>4
  <2>7. o[n] = <<>>
    <3> DEFINE T == {i \in Nat : n + i <= N => o[n + i] = o[n]}
    <3>1. 0 \in T
      BY <2>3
    <3>2. ASSUME NEW i \in T PROVE i + 1 \in T
      <4> SUFFICES ASSUME n + (i + 1) <= N PROVE o[n + (i + 1)] = o[n]
        OBVIOUS
      <4>1. /\ n + (i + 1) \in 1..N /\ n < n + (i + 1) /\ (n + (i + 1)) - 1 = n + i
            /\ o[n + i] = o[n]
        BY <2>3
      <4>2. IsBlank(s[n + (i + 1)])
        BY <2>1, <4>1
      <4> QED
        BY <2>5, <4>1, <4>2
    <3>3. T = Nat
      <4> HIDE DEF T
      <4>1. T \in SUBSET Nat
        BY DEF T
      <4> QED
        BY <3>1, <3>2, <4>1, Induct
    <3>4. N - n \in Nat /\ n + (N - n) = N
      BY <2>3
    <3>5. N - n \in T
      <4> HIDE DEF T
      <4> QED
        BY <3>3, <3>4
    <3> QED
      BY <2>2, <3>4, <3>5
  <2> DEFINE u == SubSeq(s, m, n)
             L == n - m + 1
             q == [i \in 0..L |-> o[m - 1 + i]]
  <2>8. /\ u \in Seq(SafeTokens) /\ Len(u) = L /\ L \in Nat /\ L >= 1
        /\ \A i \in 1..L : u[i] = s[m - 1 + i]
    BY <2>1
  <2>9. /\ Len(y) = L
        /\ \A i \in 1..L : y[i] = u[i] \/ (u[i] = Data(Bullet) /\ y[i] = Data(Dash))
    <3>1. y = Dashed(u)
      BY <2>1
    <3> HIDE DEF u, L, y
    <3>2. u \in Seq(SafeTokens) /\ Len(u) = L
      BY <2>8
    <3>3. /\ Len(Dashed(u)) = Len(u)
          /\ \A i \in 1..Len(u) : \/ Dashed(u)[i] = u[i]
                                  \/ u[i] = Data(Bullet) /\ Dashed(u)[i] = Data(Dash)
      BY <3>2, DashSafe, DashedFacts
    <3> QED
      BY <3>1, <3>2, <3>3
  <2>10. q \in [0..L -> Seq(OpenTags)]
    <3>1. \A i \in 0..L : m - 1 + i \in 0..N
      BY <2>1, <2>3
    <3> QED
      BY <3>1
  <2>11. q[0] = <<>> /\ q[L] = <<>>
    <3>1. m - 1 + 0 = m - 1 /\ m - 1 + L = n /\ 0 \in 0..L /\ L \in 0..L
      BY <2>3, <2>8
    <3> QED
      BY <2>6, <2>7, <3>1
  <2>12. ASSUME NEW i \in 1..L PROVE Turn(q[i - 1], y[i], q[i])
    <3>1. m - 1 + i \in 1..N /\ (m - 1 + i) - 1 = m - 1 + (i - 1) /\ i - 1 \in 0..L /\ i \in 0..L
      BY <2>1, <2>3
    <3>2. q[i - 1] = o[(m - 1 + i) - 1] /\ q[i] = o[m - 1 + i]
      BY <3>1
    <3> HIDE DEF q, u, L, y
    <3>3. Turn(q[i - 1], u[i], q[i])
      BY <2>4, <2>8, <3>1, <3>2
    <3>4. CASE y[i] = u[i]
      BY <3>3, <3>4
    <3>5. CASE u[i] = Data(Bullet) /\ y[i] = Data(Dash)
      BY <3>3, <3>5 DEF Turn, IsData, Data
    <3> QED
      BY <2>9, <3>4, <3>5
  <2> HIDE DEF q, u, L, y
  <2>13. Opens(y, q) /\ q \in [0..Len(y) -> Seq(OpenTags)] /\ q[Len(y)] = <<>>
    BY <2>9, <2>10, <2>11, <2>12 DEF Opens
  <2>14. Balanced(y, <<>>)
    BY <2>13 DEF Balanced
  <2> QED
    BY <2>14 DEF y
<1> QED
  BY <1>1, <1>2

-------------------------------------------------------------------------------
(* What the forms store.                                                   *)

(* rich_text.py:80-85: what is sanitized is allowed, balanced and stripped *)
(* ...                                                                     *)
LEMMA SanitizeFacts ==
    ASSUME NEW s \in Seq(Token)
    PROVE  /\ Sanitize(s) \in Seq(SafeTokens)
           /\ Balanced(Sanitize(s), <<>>)
           /\ Strip(Sanitize(s)) = Sanitize(s)
<1> DEFINE p == Fed(s)
           z == p.output \o Closing(p.stack, 0)
<1>1. p \in Parser /\ Balanced(p.output, p.stack)
  BY FedBalanced
<1> HIDE DEF p
<1>2. p.output \in Seq(SafeTokens) /\ p.stack \in Seq(OpenTags)
  BY <1>1, ParserFields
<1>3. 0 \in 0..Len(p.stack) /\ SubSeq(p.stack, 1, 0) = <<>>
  BY <1>2
<1>4. z \in Seq(SafeTokens)
  <2>1. Closing(p.stack, 0) \in Seq(SafeTokens)
    BY <1>2, <1>3, ClosingTyped
  <2> QED
    BY <1>2, <2>1
<1>5. Balanced(z, <<>>)
  <2>1. Balanced(z, SubSeq(p.stack, 1, 0))
    BY <1>1, <1>2, <1>3, BalancedClose
  <2> QED
    BY <1>3, <2>1
<1>6. Close(p, 0).output = z
  <2>1. Close(p, 0) = [output |-> z, stack |-> SubSeq(p.stack, 1, 0), blocked |-> p.blocked]
    BY <1>1, CloseSteps
  <2> HIDE DEF z
  <2> QED
    BY <2>1
<1>7. Sanitize(s) = Strip(z)
  BY <1>6 DEF Sanitize, p
<1> HIDE DEF z
<1> QED
  BY <1>4, <1>5, <1>7, StripSafe, BalancedStrip, StripTwice

(* ... and what is allowed, balanced and stripped is sanitized.            *)
LEMMA SanitizeFixed ==
    ASSUME NEW s \in Seq(SafeTokens), Balanced(s, <<>>), Strip(s) = s
    PROVE  Sanitize(s) = s
<1> DEFINE p == Fed(s)
<1>1. p = Echoed(s, <<>>)
  BY FedEcho
<1>2. p.output = s /\ p.stack = <<>> /\ p \in Parser
  <2>1. s \in Seq(Token)
    BY SafeAreTokens
  <2>2. p \in Parser
    BY <2>1, FedBalanced
  <2> QED
    BY <1>1, <2>2 DEF Echoed
<1> HIDE DEF p
<1>3. Closing(p.stack, 0) = <<>>
  BY <1>2 DEF Closing
<1>4. Close(p, 0).output = s
  <2> DEFINE z == p.output \o Closing(p.stack, 0)
  <2>1. Close(p, 0) = [output |-> z, stack |-> SubSeq(p.stack, 1, 0), blocked |-> p.blocked]
    BY <1>2, CloseSteps
  <2>2. z = s
    BY <1>2, <1>3
  <2> HIDE DEF z
  <2> QED
    BY <2>1, <2>2
<1> QED
  BY <1>4 DEF Sanitize, p

(* A last <br> may be taken away again.                                    *)
LEMMA BalancedFront ==
    ASSUME NEW s \in Seq(SafeTokens), NEW a, Balanced(s, a), s # <<>>, Last(s) = Start("br")
    PROVE  Front(s) \in Seq(SafeTokens) /\ Balanced(Front(s), a)
<1> DEFINE N == Len(s)
           r == SubSeq(s, 1, N - 1)
<1>1. N \in Nat /\ N >= 1 /\ s[N] = Start("br")
  BY DEF Last
<1>2. r \in Seq(SafeTokens) /\ Len(r) = N - 1 /\ \A i \in 1..N - 1 : r[i] = s[i]
  <2>1. N - 1 \in 0..N
    BY <1>1
  <2> QED
    BY <2>1, PrefixFacts
<1>3. PICK o \in [0..N -> Seq(OpenTags)] : Opens(s, o) /\ o[N] = a
  BY DEF Balanced
<1> DEFINE q == [i \in 0..N - 1 |-> o[i]]
<1>4. q \in [0..N - 1 -> Seq(OpenTags)]
  BY <1>1
<1>5. q[0] = <<>> /\ q[N - 1] = o[N - 1]
  BY <1>1, <1>3 DEF Opens
<1>6. ASSUME NEW i \in 1..N - 1 PROVE Turn(q[i - 1], r[i], q[i])
  <2>1. i \in 1..N /\ q[i - 1] = o[i - 1] /\ q[i] = o[i]
    BY <1>1
  <2> HIDE DEF q, r
  <2> QED
    BY <1>2, <1>3, <2>1 DEF Opens
<1>7. o[N - 1] = a
  <2>1. Turn(o[N - 1], s[N], o[N])
    BY <1>1, <1>3 DEF Opens
  <2> QED
    BY <1>1, <1>3, <2>1 DEF Turn, Start, IsData, VoidTags
<1> HIDE DEF q, r, N
<1>8. Opens(r, q)
  BY <1>2, <1>5, <1>6 DEF Opens
<1>9. Balanced(r, a)
  BY <1>2, <1>4, <1>5, <1>7, <1>8 DEF Balanced
<1> QED
  BY <1>2, <1>9 DEF Front, r, N

(* A text without tags, on its way to the first paragraph's end.           *)
Paragraphs == {html \in Seq(SafeTokens) : /\ html # <<>> /\ html[1] = Start("p")
                                          /\ Balanced(html, <<"p">>)}

(* One more character of plain text.                                       *)
LEMMA ConvertedStays ==
    ASSUME NEW html \in Paragraphs, NEW c \in Content
    PROVE  Converted(html, Data(c)) \in Paragraphs
<1> DEFINE x == Data(c)
           r == Converted(html, x)
<1>1. /\ html \in Seq(SafeTokens) /\ html # <<>> /\ html[1] = Start("p")
      /\ Balanced(html, <<"p">>)
  BY DEF Paragraphs
<1>2. "p" \in OpenTags /\ "p" \in AllowedTags /\ "br" \in AllowedTags
  BY DEF OpenTags, AllowedTags, VoidTags
<1>3. <<"p">> \in Seq(OpenTags) /\ <<>> \in Seq(OpenTags) /\ Append(<<>>, "p") = <<"p">>
  BY <1>2
<1>4. ASSUME NEW y \in SafeTokens, Turn(<<"p">>, y, <<"p">>)
      PROVE  Append(html, y) \in Paragraphs
  <2>1. Append(html, y) \in Seq(SafeTokens) /\ Append(html, y) # <<>>
    BY <1>1
  <2>2. Append(html, y)[1] = Start("p")
    <3>1. Len(html) \in Nat /\ Len(html) >= 1
      BY <1>1
    <3> QED
      BY <1>1, <3>1
  <2>3. Balanced(Append(html, y), <<"p">>)
    BY <1>1, <1>3, <1>4, BalancedAppend
  <2> QED
    BY <2>1, <2>2, <2>3 DEF Paragraphs
<1>5. CASE x # Data(NewLine)
  <2>1. r = Append(html, x)
    BY <1>5 DEF Converted
  <2>2. x \in SafeTokens /\ Turn(<<"p">>, x, <<"p">>)
    BY DataSafe DEF Turn, IsData, Data
  <2> HIDE DEF x, r
  <2> QED
    BY <1>4, <2>1, <2>2 DEF r, x
<1>6. CASE x = Data(NewLine) /\ Last(html) # Start("br")
  <2>1. r = Append(html, Start("br"))
    BY <1>6 DEF Converted
  <2>2. Start("br") \in SafeTokens /\ Turn(<<"p">>, Start("br"), <<"p">>)
    BY <1>2, StartSafe DEF Turn, Start, VoidTags
  <2> HIDE DEF r
  <2> QED
    BY <1>4, <2>1, <2>2 DEF r
<1>7. CASE x = Data(NewLine) /\ Last(html) = Start("br")
  <2> DEFINE f == Front(html)
             g == Append(f, End("p"))
  <2>1. r = f \o <<End("p"), Start("p")>>
    BY <1>7 DEF Converted
  <2>2. f \in Seq(SafeTokens) /\ Balanced(f, <<"p">>)
    BY <1>1, <1>7, BalancedFront
  <2>3. f # <<>> /\ f[1] = Start("p")
    <3>1. Len(html) \in Nat /\ Len(html) >= 1
      BY <1>1
    <3>2. html[1] # Start("br")
      BY <1>1 DEF Start
    <3>3. html[Len(html)] = Start("br")
      BY <1>7 DEF Last
    <3>4. Len(html) >= 2
      BY <3>1, <3>2, <3>3
    <3>5. f = SubSeq(html, 1, Len(html) - 1)
      BY DEF Front
    <3>6. f \in Seq(SafeTokens) /\ Len(f) = Len(html) - 1
      BY <1>1, <3>4, <3>5
    <3>7. f[1] = html[1]
      BY <1>1, <3>4, <3>5
    <3> HIDE DEF f
    <3>8. f # <<>>
      BY <3>4, <3>6
    <3> QED
      BY <1>1, <3>7, <3>8
  <2> HIDE DEF f
  <2>4. End("p") \in SafeTokens /\ Start("p") \in SafeTokens
    BY <1>2, EndSafe, StartSafe
  <2>5. Turn(<<"p">>, End("p"), <<>>) /\ Turn(<<>>, Start("p"), <<"p">>)
    BY <1>3 DEF Turn, End, Start, VoidTags
  <2>6. g \in Seq(SafeTokens) /\ Balanced(g, <<>>)
    <3>1. g \in Seq(SafeTokens)
      BY <2>2, <2>4
    <3>2. Balanced(Append(f, End("p")), <<>>)
      BY <1>3, <2>2, <2>4, <2>5, BalancedAppend
    <3> QED
      BY <3>1, <3>2
  <2>7. r = Append(g, Start("p"))
    BY <2>1, <2>2, <2>4
  <2>8. g # <<>> /\ g[1] = Start("p")
    <3>1. Len(f) \in Nat /\ Len(f) >= 1
      BY <2>2, <2>3
    <3> QED
      BY <2>2, <2>3, <2>4, <3>1
  <2> HIDE DEF g, r
  <2>9. Append(g, Start("p")) \in Seq(SafeTokens) /\ Append(g, Start("p")) # <<>>
    BY <2>4, <2>6
  <2>10. Append(g, Start("p"))[1] = Start("p")
    <3>1. Len(g) \in Nat /\ Len(g) >= 1
      BY <2>6, <2>8
    <3> QED
      BY <2>4, <2>6, <2>8, <3>1
  <2>11. Balanced(Append(g, Start("p")), <<"p">>)
    BY <1>3, <2>4, <2>5, <2>6, BalancedAppend
  <2> QED
    BY <2>7, <2>9, <2>10, <2>11 DEF Paragraphs, r
<1> QED
  BY <1>5, <1>6, <1>7

DataTokens == {Data(c) : c \in Content}

(* The recursive function of Converting, unrolled.                         *)
LEMMA ConvertingStays ==
    ASSUME NEW s \in Seq(DataTokens)
    PROVE  \A i \in 0..Len(s) : Converting(s)[i] \in Paragraphs
<1> DEFINE N == Len(s)
           step == [i \in 1..N |-> [a \in Paragraphs |-> Converted(a, s[i])]]
           base == <<Start("p")>>
           h == Converting(s)
           g == [i \in 0..N |-> IF i = 0 THEN base ELSE Converted(h[i - 1], s[i])]
<1>1. N \in Nat
  OBVIOUS
<1>2. step \in Steps(N, Paragraphs)
  <2>1. \A a \in Paragraphs, x \in DataTokens : Converted(a, x) \in Paragraphs
    BY ConvertedStays DEF DataTokens
  <2>2. \A i \in 1..N : s[i] \in DataTokens
    OBVIOUS
  <2> QED
    BY <2>1, <2>2 DEF Steps
<1>3. base \in Paragraphs
  <2>1. Start("p") \in SafeTokens /\ <<"p">> \in Seq(OpenTags)
    BY StartSafe DEF AllowedTags, OpenTags, VoidTags
  <2>2. Turn(<<>>, Start("p"), <<"p">>)
    BY DEF Turn, Start, VoidTags
  <2>3. Append(<<>>, Start("p")) = base
    OBVIOUS
  <2>4. Balanced(Append(<<>>, Start("p")), <<"p">>)
    <3>1. <<>> \in Seq(SafeTokens)
      OBVIOUS
    <3> QED
      BY <2>1, <2>2, <3>1, BalancedEmpty, BalancedAppend
  <2>5. base \in Seq(SafeTokens) /\ base # <<>> /\ base[1] = Start("p")
    BY <2>1
  <2> QED
    BY <2>3, <2>4, <2>5 DEF Paragraphs
<1> HIDE DEF base
<1>4. PICK f : Unrolls(f, N, Paragraphs, base, step)
  <2> HIDE DEF step, N
  <2> QED
    BY <1>1, <1>2, <1>3, Recursion
<1>5. /\ f \in [0..N -> Paragraphs] /\ f[0] = base
      /\ \A i \in 1..N : f[i] = step[i][f[i - 1]]
  BY <1>4 DEF Unrolls
<1>6. ASSUME NEW i \in 1..N PROVE f[i] = Converted(f[i - 1], s[i])
  <2>1. f[i - 1] \in Paragraphs
    BY <1>5
  <2>2. step[i][f[i - 1]] = Converted(f[i - 1], s[i])
    BY <2>1
  <2> QED
    BY <1>5, <2>2
<1>7. h = g
  <2>1. f = [i \in 0..N |-> IF i = 0 THEN base ELSE Converted(f[i - 1], s[i])]
    BY <1>5, <1>6
  <2> QED
    BY <2>1 DEF Converting, base
<1> HIDE DEF h
<1>8. g[0] = base /\ \A i \in 1..N : g[i] = Converted(h[i - 1], s[i])
  OBVIOUS
<1>9. h[0] = base /\ \A i \in 1..N : h[i] = Converted(h[i - 1], s[i])
  BY <1>7, <1>8
<1>10. \A i \in 1..N : h[i - 1] \in Paragraphs => h[i] = step[i][h[i - 1]]
  BY <1>9
<1> HIDE DEF step, g, N
<1> QED
  BY <1>1, <1>2, <1>3, <1>9, <1>10, StepsStay DEF h, N

(* rich_text.py:12-21: so is what plain text is converted to.              *)
LEMMA ConvertedFacts ==
    ASSUME NEW s \in Seq(DataTokens)
    PROVE  /\ PlainTextToHtml(s) \in Seq(SafeTokens)
           /\ Balanced(PlainTextToHtml(s), <<>>)
           /\ Strip(PlainTextToHtml(s)) = PlainTextToHtml(s)
<1>1. CASE s = <<>>
  <2>1. PlainTextToHtml(s) = <<>>
    BY <1>1 DEF PlainTextToHtml
  <2>2. <<>> \in Seq(SafeTokens)
    OBVIOUS
  <2> QED
    BY <2>1, <2>2, BalancedEmpty, StripFixed
<1>2. CASE s # <<>>
  <2> DEFINE html == Converting(s)[Len(s)]
             y == Append(html, End("p"))
  <2>1. PlainTextToHtml(s) = y
    BY <1>2 DEF PlainTextToHtml
  <2>2. html \in Paragraphs
    <3>1. Len(s) \in 0..Len(s)
      OBVIOUS
    <3> QED
      BY <3>1, ConvertingStays
  <2>3. /\ html \in Seq(SafeTokens) /\ html # <<>> /\ html[1] = Start("p")
        /\ Balanced(html, <<"p">>)
    BY <2>2 DEF Paragraphs
  <2> HIDE DEF html
  <2>4. End("p") \in SafeTokens /\ <<>> \in Seq(OpenTags)
    BY EndSafe DEF OpenTags, AllowedTags, VoidTags
  <2>5. Turn(<<"p">>, End("p"), <<>>)
    BY DEF Turn, End
  <2>6. Balanced(Append(html, End("p")), <<>>)
    BY <2>3, <2>4, <2>5, BalancedAppend
  <2>7. y \in Seq(SafeTokens) /\ y[1] = Start("p") /\ y[Len(y)] = End("p")
    <3>1. Len(html) \in Nat /\ Len(html) >= 1
      BY <2>3
    <3> QED
      BY <2>3, <2>4, <3>1
  <2>8. /\ ~IsBlank(Start("p")) /\ ~IsBlank(End("p"))
        /\ End("p") # Data(Bullet)
    BY DEF IsBlank, IsData, Start, End, Data
  <2> HIDE DEF y
  <2>9. Strip(y) = y
    BY <2>7, <2>8, StripFixed
  <2> QED
    BY <2>1, <2>6, <2>7, <2>9 DEF y
<1> QED
  BY <1>1, <1>2

(* What the forms store.                                                   *)
LEMMA CleanFacts ==
    ASSUME NEW f \in {"html", "plain"}, NEW s \in Seq(Token),
           f = "plain" => s \in Seq(DataTokens)
    PROVE  /\ Clean(f, s) \in Seq(SafeTokens)
           /\ Balanced(Clean(f, s), <<>>)
           /\ Strip(Clean(f, s)) = Clean(f, s)
<1> DEFINE t == Strip(s)
           clean == IF f = "html" THEN Sanitize(t) ELSE PlainTextToHtml(t)
<1>1. Clean(f, s) = IF RichTextToPlainText(clean) = <<>> THEN <<>> ELSE clean
  BY DEF Clean
<1>2. Data(Dash) \in Token /\ Data(Dash) \in DataTokens
  BY DashSafe, SafeAreTokens DEF DataTokens, Content
<1>3. clean \in Seq(SafeTokens) /\ Balanced(clean, <<>>) /\ Strip(clean) = clean
  <2>1. CASE f = "html"
    <3>1. t \in Seq(Token)
      BY <1>2, StripTyped
    <3> QED
      BY <2>1, <3>1, SanitizeFacts
  <2>2. CASE f = "plain"
    <3>1. t \in Seq(DataTokens)
      BY <1>2, <2>2, StripTyped
    <3> QED
      BY <2>2, <3>1, ConvertedFacts
  <2> QED
    BY <2>1, <2>2
<1>4. <<>> \in Seq(SafeTokens) /\ Balanced(<<>>, <<>>) /\ Strip(<<>>) = <<>>
  <2>1. <<>> \in Seq(SafeTokens)
    OBVIOUS
  <2> QED
    BY <2>1, BalancedEmpty, StripFixed
<1> HIDE DEF clean
<1>5. Clean(f, s) = <<>> \/ Clean(f, s) = clean
  BY <1>1
<1> QED
  BY <1>3, <1>4, <1>5

-------------------------------------------------------------------------------
(* The invariant, and the first three theorems.                            *)

(* The inductive invariant: what has been typed consists of tokens, and    *)
(* without the editor of text.                                             *)
ValueOK ==
    /\ format \in {"html", "plain"}
    /\ value \in Seq(Token)
    /\ format = "plain" => value \in Seq(DataTokens)
    /\ Len(value) <= IF format = "html" THEN MaxHtml ELSE MaxPlain

(* What HTMLParser reports is a token.                                     *)
LEMMA TokensTyped == ASSUME NEW s \in Seq(Token), NEW x \in Tokens(s) PROVE x \in Token
<1>1. ASSUME NEW c \in Chars PROVE Data(c) \in Token
  BY DEF Data, Token, Content
<1>2. ASSUME NEW t \in TagName
      PROVE  Start(t) \in Token /\ StartEnd(t) \in Token /\ End(t) \in Token
  BY DEF Start, StartEnd, End, Token
<1>3. Tags \subseteq TagName /\ RawTags \subseteq TagName
  BY DEF TagName
<1>4. CASE Raw(s)
  <2>1. PICK t \in RawTags : LastTag(s) = Start(t)
    BY <1>4 DEF Raw
  <2>2. LastTag(s)[2] = t
    BY <2>1 DEF Start
  <2>3. x \in {Data(c) : c \in Chars} \cup {End(t)}
    BY <1>4, <2>2 DEF Tokens
  <2> QED
    BY <1>1, <1>2, <1>3, <2>3
<1>5. CASE ~Raw(s)
  <2>1. x \in {Data(c) : c \in Chars} \cup {Start(t) : t \in Tags}
              \cup {StartEnd(t) : t \in Tags} \cup {End(t) : t \in Tags}
    BY <1>5 DEF Tokens
  <2> QED
    BY <1>1, <1>2, <1>3, <2>1
<1> QED
  BY <1>4, <1>5

(* ValueOK is inductive.                                                   *)
LEMMA ValueInvariant == ExportTextSpec => []ValueOK
<1>1. ExportTextInit => ValueOK
  <2> SUFFICES ASSUME ExportTextInit PROVE ValueOK
    OBVIOUS
  <2>1. format \in {"html", "plain"} /\ value = <<>>
    BY DEF ExportTextInit, Init
  <2>2. Len(value) = 0 /\ value \in Seq(Token) /\ value \in Seq(DataTokens)
    BY <2>1
  <2>3. MaxHtml \in Nat /\ MaxPlain \in Nat
    BY TagsAssumption
  <2> QED
    BY <2>1, <2>2, <2>3 DEF ValueOK
<1>2. ValueOK /\ [ExportTextNext]_<<vars, names>> => ValueOK'
  <2> SUFFICES ASSUME ValueOK, [ExportTextNext]_<<vars, names>> PROVE ValueOK'
    OBVIOUS
  <2>1. MaxHtml \in Nat /\ MaxPlain \in Nat
    BY TagsAssumption
  <2>2. CASE Mark
    <3>1. format = "html" /\ format' = "html" /\ Len(value) < MaxHtml /\ value \in Seq(Token)
      BY <2>2 DEF Mark, ValueOK
    <3>2. PICK x \in Tokens(value) : value' = Append(value, x)
      BY <2>2 DEF Mark
    <3>3. x \in Token
      BY <3>1, TokensTyped
    <3>4. value' \in Seq(Token) /\ Len(value') = Len(value) + 1 /\ Len(value) \in Nat
      BY <3>1, <3>2, <3>3
    <3> QED
      BY <2>1, <3>1, <3>4 DEF ValueOK
  <2>3. CASE Type
    <3>1. /\ format = "plain" /\ format' = "plain" /\ Len(value) < MaxPlain
          /\ value \in Seq(DataTokens) /\ value \in Seq(Token)
      BY <2>3 DEF Type, ValueOK
    <3>2. PICK c \in Chars : value' = Append(value, Data(c))
      BY <2>3 DEF Type
    <3>3. Data(c) \in DataTokens /\ Data(c) \in Token
      BY DEF DataTokens, Token, Data, Content
    <3>4. /\ value' \in Seq(DataTokens) /\ value' \in Seq(Token)
          /\ Len(value') = Len(value) + 1 /\ Len(value) \in Nat
      BY <3>1, <3>2, <3>3
    <3> QED
      BY <2>1, <3>1, <3>4 DEF ValueOK
  <2>4. CASE UNCHANGED vars
    BY <2>4 DEF ValueOK, vars
  <2> QED
    BY <2>2, <2>3, <2>4 DEF ExportTextNext, GiveName, Next, vars
<1> QED
  BY <1>1, <1>2, PTL DEF ExportTextSpec

(* drops/forms.py and rich_text.py:12-85: whatever is typed, with the      *)
(* editor or without, what is stored consists of text and allowed tags     *)
(* only.                                                                   *)
THEOREM RichTextTypeOK == ExportTextSpec => []TypeOK
<1>1. ValueOK => TypeOK
  <2> SUFFICES ASSUME ValueOK PROVE TypeOK
    OBVIOUS
  <2>1. Clean(format, value) \in Seq(SafeTokens)
    BY CleanFacts DEF ValueOK
  <2>2. ToSet(Clean(format, value)) \subseteq SafeTokens
    BY <2>1 DEF ToSet
  <2> QED
    BY <2>2 DEF ValueOK, TypeOK
<1> QED
  BY <1>1, ValueInvariant, PTL

(* rich_text.py:31-85: however the tags of the input overlap, after any    *)
(* prefix of it the output's tags nest and the parser's stack is what they *)
(* leave open, and a finished text leaves nothing open.                    *)
THEOREM OutputNests == ExportTextSpec => []WellNested
<1>1. ValueOK => WellNested
  <2> SUFFICES ASSUME ValueOK, format = "html"
               PROVE  /\ Nest(Fed(value).output) = Fed(value).stack
                      /\ Nest(Sanitize(value)) = <<>>
    BY DEF WellNested
  <2>1. value \in Seq(Token)
    BY DEF ValueOK
  <2>2. Fed(value) \in Parser /\ Balanced(Fed(value).output, Fed(value).stack)
    BY <2>1, FedBalanced
  <2>3. Fed(value).output \in Seq(SafeTokens)
    BY <2>2, ParserFields
  <2>4. Nest(Fed(value).output) = Fed(value).stack
    BY <2>2, <2>3, BalancedNest
  <2>5. Nest(Sanitize(value)) = <<>>
    BY <2>1, SanitizeFacts, BalancedNest
  <2> QED
    BY <2>4, <2>5
<1> QED
  BY <1>1, ValueInvariant, PTL

(* rich_text.py:80-85 in the exports and pages: to sanitize what the forms *)
(* stored, from the editor or from plain text, gives it back unchanged.    *)
THEOREM StoredStaysFixed == ExportTextSpec => []StoredIsFixed
<1>1. ValueOK => StoredIsFixed
  <2> SUFFICES ASSUME ValueOK PROVE StoredIsFixed
    OBVIOUS
  <2>1. /\ Clean(format, value) \in Seq(SafeTokens)
        /\ Balanced(Clean(format, value), <<>>)
        /\ Strip(Clean(format, value)) = Clean(format, value)
    BY CleanFacts DEF ValueOK
  <2> QED
    BY <2>1, SanitizeFixed DEF StoredIsFixed
<1> QED
  BY <1>1, ValueInvariant, PTL

-------------------------------------------------------------------------------
(* Which text the parser keeps.                                            *)

(* The recursive function of Texts, unrolled.                              *)
LEMMA TextsSteps ==
    ASSUME NEW s \in Seq(Token), NEW positions
    PROVE  /\ \A i \in 0..Len(s) : Texts(s, positions)[i] \in Seq(Token)
           /\ Texts(s, positions)[0] = <<>>
           /\ \A i \in 1..Len(s) :
                 Texts(s, positions)[i] =
                    IF i \in positions /\ IsData(s[i])
                    THEN Append(Texts(s, positions)[i - 1], s[i])
                    ELSE Texts(s, positions)[i - 1]
<1> DEFINE N == Len(s)
           S == Seq(Token)
           Grown(a, i) == IF i \in positions /\ IsData(s[i]) THEN Append(a, s[i]) ELSE a
           step == [i \in 1..N |-> [a \in S |-> Grown(a, i)]]
           h == Texts(s, positions)
           g == [i \in 0..N |-> IF i = 0 THEN <<>> ELSE Grown(h[i - 1], i)]
<1>1. N \in Nat
  OBVIOUS
<1>2. step \in Steps(N, S)
  <2>1. ASSUME NEW a \in S, NEW i \in 1..N PROVE Grown(a, i) \in S
    <3>1. s[i] \in Token
      OBVIOUS
    <3>2. Append(a, s[i]) \in S
      BY <3>1
    <3> HIDE DEF S
    <3> QED
      BY <3>2
  <2> HIDE DEF Grown, S
  <2> QED
    BY <2>1 DEF Steps
<1>3. <<>> \in S
  OBVIOUS
<1>4. PICK f : Unrolls(f, N, S, <<>>, step)
  <2> HIDE DEF step, N, S
  <2> QED
    BY <1>1, <1>2, <1>3, Recursion
<1>5. /\ f \in [0..N -> S] /\ f[0] = <<>>
      /\ \A i \in 1..N : f[i] = step[i][f[i - 1]]
  BY <1>4 DEF Unrolls
<1>6. ASSUME NEW i \in 1..N PROVE f[i] = Grown(f[i - 1], i)
  <2>1. f[i - 1] \in S
    BY <1>5
  <2> HIDE DEF Grown, S
  <2>2. step[i][f[i - 1]] = Grown(f[i - 1], i)
    BY <2>1
  <2> QED
    BY <1>5, <2>2
<1>7. h = g
  <2>1. f = [i \in 0..N |-> IF i = 0 THEN <<>> ELSE Grown(f[i - 1], i)]
    <3> HIDE DEF Grown, S
    <3> QED
      BY <1>5, <1>6
  <2>2. f = [i \in 0..N |-> IF i = 0 THEN <<>>
                            ELSE IF i \in positions /\ IsData(s[i]) THEN Append(f[i - 1], s[i])
                            ELSE f[i - 1]]
    BY <2>1, Zenon
  <2>3. h = [i \in 0..N |-> IF i = 0 THEN <<>>
                            ELSE IF i \in positions /\ IsData(s[i]) THEN Append(h[i - 1], s[i])
                            ELSE h[i - 1]]
    BY <2>2, Zenon DEF Texts
  <2> QED
    BY <2>3, Zenon
<1> HIDE DEF h
<1>8. h[0] = <<>> /\ \A i \in 1..N : h[i] = Grown(h[i - 1], i)
  <2> HIDE DEF Grown
  <2>1. g[0] = <<>> /\ \A i \in 1..N : g[i] = Grown(h[i - 1], i)
    OBVIOUS
  <2> HIDE DEF g
  <2> QED
    BY <1>7, <2>1
<1>9. \A i \in 1..N : h[i - 1] \in S => h[i] = step[i][h[i - 1]]
  <2> HIDE DEF Grown, S
  <2> QED
    BY <1>8
<1>10. \A i \in 0..N : h[i] \in S
  <2> HIDE DEF step, g, N, S
  <2> QED
    BY <1>1, <1>2, <1>3, <1>8, <1>9, StepsStay
<1> QED
  BY <1>8, <1>10 DEF h

AllText(s) == Text(s, DOMAIN s)

(* All text of s is the text of what begins with s, up to its end.         *)
LEMMA TextOfPrefix ==
    ASSUME NEW s \in Seq(Token), NEW r \in Seq(Token), Len(s) <= Len(r),
           \A i \in 1..Len(s) : r[i] = s[i]
    PROVE  Texts(r, DOMAIN r)[Len(s)] = AllText(s)
<1> DEFINE N == Len(s)
           g == Texts(r, DOMAIN r)
           h == Texts(s, DOMAIN s)
           T == {i \in Nat : i <= N => g[i] = h[i]}
<1>1. DOMAIN s = 1..N /\ DOMAIN r = 1..Len(r) /\ N \in Nat /\ Len(r) \in Nat
  OBVIOUS
<1>2. /\ h[0] = <<>>
      /\ \A i \in 1..N : h[i] = IF IsData(s[i]) THEN Append(h[i - 1], s[i]) ELSE h[i - 1]
  BY <1>1, TextsSteps
<1>3. /\ g[0] = <<>>
      /\ \A i \in 1..Len(r) : g[i] = IF IsData(r[i]) THEN Append(g[i - 1], r[i]) ELSE g[i - 1]
  BY <1>1, TextsSteps
<1> HIDE DEF g, h
<1>4. 0 \in T
  BY <1>2, <1>3
<1>5. ASSUME NEW i \in T PROVE i + 1 \in T
  <2> SUFFICES ASSUME i + 1 <= N PROVE g[i + 1] = h[i + 1]
    OBVIOUS
  <2>1. i + 1 \in 1..N /\ i + 1 \in 1..Len(r) /\ (i + 1) - 1 = i /\ g[i] = h[i]
    BY <1>1
  <2>2. h[i + 1] = IF IsData(s[i + 1]) THEN Append(h[i], s[i + 1]) ELSE h[i]
    BY <1>2, <2>1
  <2>3. g[i + 1] = IF IsData(r[i + 1]) THEN Append(g[i], r[i + 1]) ELSE g[i]
    BY <1>3, <2>1
  <2> QED
    BY <2>1, <2>2, <2>3
<1>6. T = Nat
  <2> HIDE DEF T
  <2>1. T \in SUBSET Nat
    BY DEF T
  <2> QED
    BY <1>4, <1>5, <2>1, Induct
<1>7. g[N] = h[N]
  BY <1>1, <1>6
<1> QED
  BY <1>7 DEF AllText, Text, g, h

(* One more token adds to the text if it is data.                          *)
LEMMA TextOfAppend ==
    ASSUME NEW s \in Seq(Token), NEW x \in Token
    PROVE  AllText(Append(s, x)) = IF IsData(x) THEN Append(AllText(s), x) ELSE AllText(s)
<1> DEFINE N == Len(s)
           r == Append(s, x)
           g == Texts(r, DOMAIN r)
<1>1. /\ r \in Seq(Token) /\ Len(r) = N + 1 /\ r[N + 1] = x /\ N \in Nat
      /\ \A i \in 1..N : r[i] = s[i]
      /\ DOMAIN r = 1..N + 1
  OBVIOUS
<1>2. N + 1 \in DOMAIN r /\ N + 1 \in 1..Len(r) /\ (N + 1) - 1 = N /\ N <= Len(r)
  BY <1>1
<1> HIDE DEF r
<1>3. g[N] = AllText(s)
  BY <1>1, <1>2, TextOfPrefix
<1>4. g[N + 1] = IF IsData(x) THEN Append(g[N], x) ELSE g[N]
  BY <1>1, <1>2, TextsSteps
<1>5. AllText(r) = g[N + 1]
  BY <1>1 DEF AllText, Text
<1> QED
  BY <1>3, <1>4, <1>5 DEF r

(* Tags add nothing.                                                       *)
LEMMA TextOfTags ==
    ASSUME NEW s \in Seq(Token), NEW c \in Seq(Token), \A i \in 1..Len(c) : ~IsData(c[i])
    PROVE  AllText(s \o c) = AllText(s)
<1> DEFINE N == Len(s)
           K == Len(c)
           r == s \o c
           g == Texts(r, DOMAIN r)
           T == {k \in Nat : k <= K => g[N + k] = g[N]}
<1>1. /\ r \in Seq(Token) /\ Len(r) = N + K /\ N \in Nat /\ K \in Nat
      /\ \A i \in 1..N : r[i] = s[i]
      /\ \A i \in 1..K : r[N + i] = c[i]
  OBVIOUS
<1>2. N <= Len(r)
  BY <1>1
<1> HIDE DEF r, N, K
<1>3. g[N] = AllText(s)
  BY <1>1, <1>2, TextOfPrefix DEF N
<1>4. 0 \in T
  <2>1. N + 0 = N
    BY <1>1
  <2> HIDE DEF g
  <2> QED
    BY <2>1
<1>5. ASSUME NEW k \in T PROVE k + 1 \in T
  <2> SUFFICES ASSUME k + 1 <= K PROVE g[N + (k + 1)] = g[N]
    OBVIOUS
  <2>1. /\ N + (k + 1) \in 1..Len(r) /\ (N + (k + 1)) - 1 = N + k /\ k + 1 \in 1..K
        /\ g[N + k] = g[N]
    BY <1>1
  <2>2. ~IsData(r[N + (k + 1)])
    BY <1>1, <2>1 DEF K
  <2>3. g[N + (k + 1)] = g[(N + (k + 1)) - 1]
    BY <1>1, <2>1, <2>2, TextsSteps
  <2> QED
    BY <2>1, <2>3
<1>6. T = Nat
  <2> HIDE DEF T
  <2>1. T \in SUBSET Nat
    BY DEF T
  <2> QED
    BY <1>4, <1>5, <2>1, Induct
<1>7. g[N + K] = g[N]
  <2> HIDE DEF g
  <2>1. K \in T
    <3> HIDE DEF T
    <3> QED
      BY <1>1, <1>6
  <2> QED
    BY <1>1, <2>1
<1>8. AllText(r) = g[N + K]
  BY <1>1 DEF AllText, Text
<1> QED
  BY <1>3, <1>7, <1>8 DEF r

(* An output is a text.                                                    *)
LEMMA SafeSeqs == Seq(SafeTokens) \subseteq Seq(Token)
BY SafeAreTokens

(* A tag is no text.                                                       *)
LEMMA TagIsNoText == ASSUME NEW t PROVE ~IsData(Start(t)) /\ ~IsData(End(t))
BY DEF IsData, Start, End

(* Only data adds to the text of the output, and only when nothing is      *)
(* dropped.                                                                *)
LEMMA OutputText ==
    ASSUME NEW p \in Parser, NEW x \in Token
    PROVE  AllText(Handle(p, x).output) =
              IF IsData(x) /\ p.blocked = <<>> THEN Append(AllText(p.output), x)
              ELSE AllText(p.output)
<1> DEFINE q == Handle(p, x)
           t == x[2]
           tag == Alias(t)
<1>1. /\ p.output \in Seq(SafeTokens) /\ p.stack \in Seq(OpenTags) /\ p.output \in Seq(Token)
  BY ParserFields, SafeSeqs
<1>2. ASSUME ~IsData(x), q = StartTag(p, t) PROVE AllText(q.output) = AllText(p.output)
  <2>1. CASE ~Dropping(p, t) /\ tag \in AllowedTags
    <3> DEFINE st == IF tag \in VoidTags THEN p.stack ELSE Append(p.stack, tag)
    <3>1. q = [output |-> Append(p.output, Start(tag)), stack |-> st, blocked |-> p.blocked]
      BY <1>2, <2>1, StartTagSteps
    <3>2. Start(tag) \in Token
      BY <2>1, StartSafe, SafeAreTokens
    <3>3. AllText(Append(p.output, Start(tag))) = AllText(p.output)
      BY <1>1, <3>2, TagIsNoText, TextOfAppend
    <3> QED
      BY <3>1, <3>3
  <2>2. CASE ~(~Dropping(p, t) /\ tag \in AllowedTags)
    <3>1. q.output = p.output
      BY <1>2, <2>2, StartTagSteps
    <3> QED
      BY <3>1
  <2> QED
    BY <2>1, <2>2
<1>3. CASE x[1] = "start"
  BY <1>2, <1>3, HandleCases DEF IsData
<1>4. CASE x[1] = "startend"
  <2>1. q = StartTag(p, t) \/ q = p
    BY <1>4, HandleCases DEF StartEndTag
  <2>2. ~IsData(x)
    BY <1>4 DEF IsData
  <2> QED
    BY <1>2, <2>1, <2>2
<1>5. CASE x[1] = "end"
  <2>1. ~IsData(x) /\ q = EndTag(p, t)
    BY <1>5, HandleCases DEF IsData
  <2>2. CASE p.blocked # <<>>
    <3>1. q = [output |-> p.output, stack |-> p.stack, blocked |-> PopTo(p.blocked, t)]
      BY <2>1, <2>2, EndTagSteps
    <3> QED
      BY <2>1, <3>1
  <2>3. CASE p.blocked = <<>> /\ Contains(p.stack, tag)
    <3>1. PICK n \in 0..Len(p.stack)-1 :
              EndTag(p, t) = [output |-> p.output \o Closing(p.stack, n),
                              stack |-> SubSeq(p.stack, 1, n), blocked |-> <<>>]
      BY <2>3, EndTagSteps
    <3> DEFINE c == Closing(p.stack, n)
    <3>2. c \in Seq(Token)
      BY <1>1, ClosingTyped, SafeSeqs
    <3>3. ASSUME NEW i \in 1..Len(c) PROVE ~IsData(c[i])
      <4>1. i \in DOMAIN c
        BY <3>2
      <4>2. c[i] = End(p.stack[Len(p.stack) - i + 1])
        BY <4>1 DEF Closing
      <4> QED
        BY <4>2, TagIsNoText
    <3> HIDE DEF c
    <3>4. AllText(p.output \o c) = AllText(p.output)
      BY <1>1, <3>2, <3>3, TextOfTags
    <3>5. q = [output |-> p.output \o c, stack |-> SubSeq(p.stack, 1, n), blocked |-> <<>>]
      BY <2>1, <3>1 DEF c
    <3>6. q.output = p.output \o c
      BY <3>5
    <3> QED
      BY <2>1, <3>4, <3>6
  <2>4. CASE p.blocked = <<>> /\ ~Contains(p.stack, tag)
    <3>1. q = p
      BY <2>1, <2>4, EndTagSteps
    <3> QED
      BY <2>1, <3>1
  <2> QED
    BY <2>2, <2>3, <2>4
<1>6. CASE x[1] = "data"
  <2>1. x = Data(t) /\ IsData(x) /\ q = HandleData(p, t)
    BY <1>6, HandleCases, TokenCases DEF Data, IsData
  <2>2. CASE p.blocked = <<>>
    <3>1. q = [output |-> Append(p.output, x), stack |-> p.stack, blocked |-> p.blocked]
      BY <2>1, <2>2, HandleDataSteps
    <3>2. q.output = Append(p.output, x)
      BY <3>1
    <3> QED
      BY <1>1, <2>1, <2>2, <3>2, TextOfAppend
  <2>3. CASE p.blocked # <<>>
    <3>1. q = p
      BY <2>1, <2>3, HandleDataSteps
    <3> QED
      BY <2>3, <3>1
  <2> QED
    BY <2>2, <2>3
<1> QED
  BY <1>3, <1>4, <1>5, <1>6, TokenCases

(* What is dropped begins at the outermost open element that is dropped.   *)
Blocks(blocked, open) ==
    \/ blocked = <<>> /\ \A j \in 1..Len(open) : open[j] \notin DropContentTags
    \/ \E k \in 1..Len(open) :
          /\ open[k] \in DropContentTags
          /\ \A j \in 1..k - 1 : open[j] \notin DropContentTags
          /\ blocked = SubSeq(open, k, Len(open))

(* So nothing is dropped exactly outside of every dropped element.         *)
LEMMA BlocksWhich ==
    ASSUME NEW open \in Seq(Opened), NEW b, Blocks(b, open)
    PROVE  b = <<>> <=> ToSet(open) \cap DropContentTags = {}
<1>1. ToSet(open) = {open[j] : j \in 1..Len(open)}
  BY DEF ToSet
<1>2. CASE b = <<>> /\ \A j \in 1..Len(open) : open[j] \notin DropContentTags
  BY <1>1, <1>2
<1>3. ASSUME NEW k \in 1..Len(open), open[k] \in DropContentTags, b = SubSeq(open, k, Len(open))
      PROVE  b # <<>> /\ ToSet(open) \cap DropContentTags # {}
  <2>1. open[k] \in ToSet(open) \cap DropContentTags
    BY <1>1, <1>3
  <2>2. Len(b) >= 1
    BY <1>3
  <2> QED
    BY <2>1, <2>2
<1> QED
  BY <1>2, <1>3 DEF Blocks

(* One more element opens.                                                 *)
LEMMA BlocksPush ==
    ASSUME NEW open \in Seq(Opened), NEW b \in Seq(TagName), Blocks(b, open), NEW t \in TagName
    PROVE  Blocks(IF b # <<>> \/ t \in DropContentTags THEN Append(b, t) ELSE b, Append(open, t))
<1> DEFINE L == Len(open)
           r == Append(open, t)
           c == IF b # <<>> \/ t \in DropContentTags THEN Append(b, t) ELSE b
<1>1. /\ r \in Seq(Opened) /\ Len(r) = L + 1 /\ r[L + 1] = t /\ L \in Nat
      /\ \A j \in 1..L : r[j] = open[j]
  BY DEF Opened
<1> HIDE DEF r
<1>2. ASSUME NEW k \in 1..L, open[k] \in DropContentTags,
             \A j \in 1..k - 1 : open[j] \notin DropContentTags,
             b = SubSeq(open, k, L)
      PROVE  Blocks(c, r)
  <2>1. b # <<>>
    <3>1. Len(b) >= 1
      BY <1>1, <1>2
    <3> QED
      BY <3>1
  <2>2. c = Append(b, t)
    BY <2>1
  <2>3. SubSeq(r, k, L + 1) = Append(b, t)
    <3> DEFINE u == SubSeq(r, k, L + 1)
               v == Append(b, t)
               M == L - k + 2
    <3>1. /\ u \in Seq(Opened) /\ Len(u) = M
          /\ \A i \in 1..M : u[i] = r[k + i - 1]
      BY <1>1
    <3>2. b \in Seq(Opened) /\ Len(b) = M - 1 /\ \A i \in 1..M - 1 : b[i] = open[k + i - 1]
      BY <1>1, <1>2
    <3>3. v \in Seq(Opened) /\ Len(v) = M /\ v[M] = t /\ \A i \in 1..M - 1 : v[i] = b[i]
      BY <1>1, <3>2 DEF Opened
    <3>4. ASSUME NEW i \in 1..M PROVE u[i] = v[i]
      <4>1. CASE i = M
        <5>1. k + i - 1 = L + 1
          BY <1>1, <4>1
        <5> HIDE DEF u, v, M
        <5> QED
          BY <1>1, <3>1, <3>3, <4>1, <5>1
      <4>2. CASE i \in 1..M - 1
        <5>1. k + i - 1 \in 1..L
          BY <1>1, <4>2
        <5> HIDE DEF u, v, M
        <5> QED
          BY <1>1, <3>1, <3>2, <3>3, <4>2, <5>1
      <4>3. i = M \/ i \in 1..M - 1
        BY <1>1
      <4> QED
        BY <4>1, <4>2, <4>3
    <3> HIDE DEF u, v, M
    <3>5. u = v
      BY <3>1, <3>3, <3>4, SeqEqual
    <3> QED
      BY <3>5 DEF u, v
  <2>4. k \in 1..L + 1 /\ r[k] \in DropContentTags
    BY <1>1, <1>2
  <2>5. ASSUME NEW j \in 1..k - 1 PROVE r[j] \notin DropContentTags
    <3>1. j \in 1..L
      BY <1>1
    <3> QED
      BY <1>1, <1>2, <3>1
  <2> HIDE DEF c
  <2> QED
    BY <1>1, <2>2, <2>3, <2>4, <2>5 DEF Blocks
<1>3. CASE b = <<>> /\ \A j \in 1..L : open[j] \notin DropContentTags
  <2>1. CASE t \in DropContentTags
    <3>1. c = <<t>>
      BY <1>3, <2>1
    <3>2. SubSeq(r, L + 1, L + 1) = <<t>>
      <4> DEFINE u == SubSeq(r, L + 1, L + 1)
                 v == <<t>>
      <4>1. u \in Seq(Opened) /\ Len(u) = 1 /\ u[1] = t
        BY <1>1
      <4>2. v \in Seq(Opened) /\ Len(v) = 1 /\ v[1] = t
        BY DEF Opened
      <4> HIDE DEF u, v
      <4>3. u = v
        BY <4>1, <4>2, SeqEqual
      <4> QED
        BY <4>3 DEF u, v
    <3>3. L + 1 \in 1..L + 1 /\ (L + 1) - 1 = L
      BY <1>1
    <3> HIDE DEF c
    <3> QED
      BY <1>1, <1>3, <2>1, <3>1, <3>2, <3>3 DEF Blocks
  <2>2. CASE t \notin DropContentTags
    <3>1. c = <<>>
      BY <1>3, <2>2
    <3>2. ASSUME NEW j \in 1..L + 1 PROVE r[j] \notin DropContentTags
      BY <1>1, <1>3, <2>2
    <3> HIDE DEF c
    <3> QED
      BY <1>1, <3>1, <3>2 DEF Blocks
  <2> QED
    BY <2>1, <2>2
<1>4. ASSUME NEW k \in 1..L, open[k] \in DropContentTags
                         /\ (\A j \in 1..k - 1 : open[j] \notin DropContentTags)
                         /\ b = SubSeq(open, k, L)
      PROVE  Blocks(c, r)
  <2> HIDE DEF c, L
  <2> QED
    BY <1>2, <1>4
<1>5. \/ b = <<>> /\ \A j \in 1..L : open[j] \notin DropContentTags
      \/ \E k \in 1..L : /\ open[k] \in DropContentTags
                         /\ \A j \in 1..k - 1 : open[j] \notin DropContentTags
                         /\ b = SubSeq(open, k, L)
  BY DEF Blocks
<1>6. CASE \E k \in 1..L : /\ open[k] \in DropContentTags
                           /\ \A j \in 1..k - 1 : open[j] \notin DropContentTags
                           /\ b = SubSeq(open, k, L)
  <2>1. PICK k \in 1..L : /\ open[k] \in DropContentTags
                          /\ \A j \in 1..k - 1 : open[j] \notin DropContentTags
                          /\ b = SubSeq(open, k, L)
    BY <1>6, Zenon
  <2>2. Blocks(c, r)
    <3> HIDE DEF c, L
    <3> QED
      BY <1>4, <2>1
  <2> QED
    BY <2>2 DEF r
<1> QED
  <2> HIDE DEF c, L
  <2> QED
    BY <1>3, <1>5, <1>6

(* The innermost element closes.                                           *)
LEMMA BlocksPop ==
    ASSUME NEW open \in Seq(Opened), NEW b \in Seq(TagName), Blocks(b, open),
           open # <<>>, NEW t, Last(open) = t
    PROVE  Blocks(IF b # <<>> THEN PopTo(b, t) ELSE b, Front(open))
<1> DEFINE L == Len(open)
           r == SubSeq(open, 1, L - 1)
           c == IF b # <<>> THEN PopTo(b, t) ELSE b
<1>1. L \in Nat /\ L >= 1 /\ open[L] = t
  <2>1. L \in Nat /\ L # 0
    BY EmptySeq
  <2>2. open[L] = t
    BY DEF Last
  <2> QED
    BY <2>1, <2>2
<1>2. /\ r \in Seq(Opened) /\ Len(r) = L - 1 /\ \A j \in 1..L - 1 : r[j] = open[j]
  <2>1. L - 1 \in 0..L
    BY <1>1
  <2> QED
    BY <2>1, PrefixFacts
<1>3. r = Front(open)
  BY DEF Front
<1> HIDE DEF r
<1>4. CASE b = <<>> /\ \A j \in 1..L : open[j] \notin DropContentTags
  <2>1. \A j \in 1..L - 1 : r[j] \notin DropContentTags
    BY <1>1, <1>2, <1>4
  <2>2. c = <<>>
    BY <1>4
  <2> HIDE DEF c
  <2>3. Blocks(c, r)
    BY <1>2, <2>1, <2>2 DEF Blocks
  <2> QED
    BY <1>3, <2>3 DEF c
<1>5. ASSUME NEW k \in 1..L, open[k] \in DropContentTags,
             \A j \in 1..k - 1 : open[j] \notin DropContentTags,
             b = SubSeq(open, k, L)
      PROVE  Blocks(c, r)
  <2> DEFINE M == L - k + 1
  <2>1. Len(b) = M /\ M \in Nat /\ M >= 1 /\ \A i \in 1..M : b[i] = open[k + i - 1]
    BY <1>1, <1>5
  <2>2. b # <<>> /\ b[M] = t
    <3>1. k + M - 1 = L /\ M \in 1..M
      BY <1>1, <2>1
    <3> HIDE DEF M
    <3> QED
      BY <1>1, <2>1, <3>1
  <2> HIDE DEF M
  <2>3. Contains(b, t)
    BY <2>1, <2>2 DEF Contains
  <2>4. PICK n \in 0..Len(b)-1 : /\ PopTo(b, t) = SubSeq(b, 1, n) /\ b[n + 1] = t
                                 /\ \A i \in n+2..Len(b) : b[i] # t
    BY <2>3, PopToFacts
  <2>5. n = M - 1
    BY <2>1, <2>2, <2>4
  <2>6. c = SubSeq(b, 1, M - 1)
    BY <2>2, <2>4, <2>5
  <2> HIDE DEF c
  <2>7. CASE k = L
    <3>1. M = 1
      BY <1>1, <2>7 DEF M
    <3>2. c = <<>>
      BY <2>6, <3>1
    <3>3. \A j \in 1..L - 1 : r[j] \notin DropContentTags
      BY <1>2, <1>5, <2>7
    <3> QED
      BY <1>2, <3>2, <3>3 DEF Blocks
  <2>8. CASE k < L
    <3>1. k \in 1..L - 1
      BY <1>1, <2>8
    <3>2. r[k] \in DropContentTags
      BY <1>2, <1>5, <3>1
    <3>3. ASSUME NEW j \in 1..k - 1 PROVE r[j] \notin DropContentTags
      <4>1. j \in 1..L - 1
        BY <1>1, <3>1
      <4> QED
        BY <1>2, <1>5, <4>1
    <3>4. c = SubSeq(r, k, L - 1)
      <4> DEFINE v == SubSeq(r, k, L - 1)
      <4>1. M = L - k + 1
        BY DEF M
      <4>2. v \in Seq(Opened) /\ Len(v) = M - 1 /\ \A i \in 1..M - 1 : v[i] = r[k + i - 1]
        BY <1>1, <1>2, <3>1, <4>1
      <4>3. b \in Seq(Opened)
        BY DEF Opened
      <4>4. c \in Seq(Opened) /\ Len(c) = M - 1 /\ \A i \in 1..M - 1 : c[i] = b[i]
        BY <2>1, <2>6, <4>3
      <4>5. ASSUME NEW i \in 1..M - 1 PROVE c[i] = v[i]
        <5>1. k + i - 1 \in 1..L - 1 /\ i \in 1..M
          BY <1>1, <2>1, <3>1, <4>1
        <5> HIDE DEF v
        <5> QED
          BY <1>2, <2>1, <4>2, <4>4, <5>1
      <4> HIDE DEF v
      <4>6. c = v
        BY <4>2, <4>4, <4>5, SeqEqual
      <4> QED
        BY <4>6 DEF v
    <3> QED
      BY <1>2, <3>1, <3>2, <3>4, <3>3 DEF Blocks
  <2> QED
    BY <1>1, <2>7, <2>8
<1> QED
  BY <1>3, <1>4, <1>5 DEF Blocks

(* The parser and a reader of properly nested input agree on what is       *)
(* dropped.                                                                *)
LEMMA HandleBlocks ==
    ASSUME NEW p \in Parser, NEW open \in Seq(Opened), Blocks(p.blocked, open),
           NEW x \in Token, ~Contains(Inside(open, x), "mismatch")
    PROVE  Blocks(Handle(p, x).blocked, Inside(open, x))
<1> DEFINE q == Handle(p, x)
           t == x[2]
           tag == Alias(t)
<1>1. p.blocked \in Seq(TagName)
  BY ParserFields
<1>2. ASSUME ~Dropping(p, t), q = StartTag(p, t) PROVE q.blocked = p.blocked
  <2>1. CASE tag \in AllowedTags
    <3>1. q = [output |-> Append(p.output, Start(tag)),
               stack |-> IF tag \in VoidTags THEN p.stack ELSE Append(p.stack, tag),
               blocked |-> p.blocked]
      BY <1>2, <2>1, StartTagSteps
    <3> QED
      BY <3>1
  <2>2. CASE tag \notin AllowedTags
    <3>1. q = p
      BY <1>2, <2>2, StartTagSteps
    <3> QED
      BY <3>1
  <2> QED
    BY <2>1, <2>2
<1>3. CASE x[1] = "start"
  <2>1. q = StartTag(p, t) /\ t \in TagName
    BY <1>3, HandleCases, TokenCases
  <2>2. CASE t \in HtmlVoidTags
    <3>1. Inside(open, x) = open
      BY <1>3, <2>2 DEF Inside
    <3>2. q.blocked = p.blocked
      <4>1. CASE Dropping(p, t)
        <5>1. q = p
          BY <2>1, <2>2, <4>1, StartTagSteps
        <5> QED
          BY <5>1
      <4> QED
        BY <1>2, <2>1, <4>1
    <3> QED
      BY <3>1, <3>2
  <2>3. CASE t \notin HtmlVoidTags
    <3>1. Inside(open, x) = Append(open, t)
      BY <1>3, <2>3 DEF Inside
    <3>2. CASE Dropping(p, t)
      <4>1. q = [output |-> p.output, stack |-> p.stack, blocked |-> Append(p.blocked, t)]
        BY <2>1, <2>3, <3>2, StartTagSteps
      <4>2. q.blocked = Append(p.blocked, t)
        BY <4>1
      <4>3. p.blocked # <<>> \/ t \in DropContentTags
        BY <3>2 DEF Dropping
      <4> HIDE DEF q, t
      <4>4. Blocks(Append(p.blocked, t), Append(open, t))
        BY <1>1, <2>1, <4>3, BlocksPush
      <4> QED
        BY <3>1, <4>2, <4>4 DEF q
    <3>3. CASE ~Dropping(p, t)
      <4>1. q.blocked = p.blocked
        BY <1>2, <2>1, <3>3
      <4>2. ~(p.blocked # <<>> \/ t \in DropContentTags)
        BY <3>3 DEF Dropping
      <4> HIDE DEF q, t
      <4>3. Blocks(p.blocked, Append(open, t))
        BY <1>1, <2>1, <4>2, BlocksPush
      <4> QED
        BY <3>1, <4>1, <4>3 DEF q
    <3> QED
      BY <3>2, <3>3
  <2> QED
    BY <2>2, <2>3
<1>4. CASE x[1] = "startend"
  <2>1. Inside(open, x) = open
    BY <1>4 DEF Inside
  <2>2. q = StartEndTag(p, t)
    BY <1>4, HandleCases
  <2>3. CASE Dropping(p, t)
    BY <2>1, <2>2, <2>3 DEF StartEndTag
  <2>4. CASE ~Dropping(p, t)
    <3>1. q = StartTag(p, t)
      BY <2>2, <2>4 DEF StartEndTag
    <3>2. q.blocked = p.blocked
      BY <1>2, <2>4, <3>1
    <3> QED
      BY <2>1, <3>2
  <2> QED
    BY <2>3, <2>4
<1>5. CASE x[1] = "end"
  <2>1. q = EndTag(p, t)
    BY <1>5, HandleCases
  <2>2. open # <<>> /\ Last(open) = t
    <3> SUFFICES ASSUME ~(open # <<>> /\ Last(open) = t) PROVE FALSE
      OBVIOUS
    <3>1. Inside(open, x) = <<"mismatch">> \o open
      BY <1>5 DEF Inside
    <3>2. LET s == <<"mismatch">> \o open IN s[1] = "mismatch" /\ 1 \in 1..Len(s)
      OBVIOUS
    <3> QED
      BY <3>1, <3>2 DEF Contains
  <2>3. Inside(open, x) = Front(open)
    BY <1>5, <2>2 DEF Inside
  <2>4. CASE p.blocked # <<>>
    <3>1. q = [output |-> p.output, stack |-> p.stack, blocked |-> PopTo(p.blocked, t)]
      BY <2>1, <2>4, EndTagSteps
    <3>2. q.blocked = PopTo(p.blocked, t)
      BY <3>1
    <3> HIDE DEF q, t
    <3>3. Blocks(PopTo(p.blocked, t), Front(open))
      BY <1>1, <2>2, <2>4, BlocksPop
    <3> QED
      BY <2>3, <3>2, <3>3 DEF q
  <2>5. CASE p.blocked = <<>>
    <3>1. q.blocked = p.blocked
      <4>1. CASE Contains(p.stack, tag)
        <5>1. PICK n \in 0..Len(p.stack)-1 :
                  EndTag(p, t) = [output |-> p.output \o Closing(p.stack, n),
                                  stack |-> SubSeq(p.stack, 1, n), blocked |-> <<>>]
          BY <2>5, <4>1, EndTagSteps
        <5>2. EndTag(p, t).blocked = <<>>
          BY <5>1
        <5> QED
          BY <2>1, <2>5, <5>2
      <4>2. CASE ~Contains(p.stack, tag)
        <5>1. q = p
          BY <2>1, <2>5, <4>2, EndTagSteps
        <5> QED
          BY <5>1
      <4> QED
        BY <4>1, <4>2
    <3> HIDE DEF q, t
    <3>2. Blocks(p.blocked, Front(open))
      BY <1>1, <2>2, <2>5, BlocksPop
    <3> QED
      BY <2>3, <3>1, <3>2 DEF q
  <2> QED
    BY <2>4, <2>5
<1>6. CASE x[1] = "data"
  <2>1. Inside(open, x) = open
    BY <1>6 DEF Inside
  <2>2. q = HandleData(p, t)
    BY <1>6, HandleCases
  <2>3. q.blocked = p.blocked
    <3>1. CASE p.blocked = <<>>
      <4>1. q = [output |-> Append(p.output, Data(t)), stack |-> p.stack, blocked |-> p.blocked]
        BY <2>2, <3>1, HandleDataSteps
      <4> QED
        BY <4>1
    <3>2. CASE p.blocked # <<>>
      <4>1. q = p
        BY <2>2, <3>2, HandleDataSteps
      <4> QED
        BY <4>1
    <3> QED
      BY <3>1, <3>2
  <2> QED
    BY <2>1, <2>3
<1> QED
  BY <1>3, <1>4, <1>5, <1>6, TokenCases

(* Of a text whose tags nest, the parser keeps what is visible.            *)
LEMMA FedText ==
    ASSUME NEW s \in Seq(Token), \A i \in 0..Len(s) : ~Contains(Nested(s)[i], "mismatch")
    PROVE  AllText(Fed(s).output) = Text(s, Visible(s))
<1> DEFINE N == Len(s)
           P == Parsing(s)
           O == Nested(s)
           V == Visible(s)
           h == Texts(s, V)
           T == {i \in Nat : i <= N => /\ AllText(P[i].output) = h[i]
                                       /\ Blocks(P[i].blocked, O[i])}
<1>1. N \in Nat /\ DOMAIN s = 1..N /\ \A i \in 1..N : s[i] \in Token
  OBVIOUS
<1>2. /\ \A i \in 0..N : P[i] \in Parser
      /\ P[0] = NewParser
      /\ \A i \in 1..N : P[i] = Handle(P[i - 1], s[i])
  BY ParsingSteps
<1>3. /\ \A i \in 0..N : O[i] \in Seq(Opened)
      /\ O[0] = <<>>
      /\ \A i \in 1..N : O[i] = Inside(O[i - 1], s[i])
  BY NestedSteps
<1>4. /\ h[0] = <<>>
      /\ \A i \in 1..N : h[i] = IF i \in V /\ IsData(s[i]) THEN Append(h[i - 1], s[i])
                                ELSE h[i - 1]
  BY TextsSteps
<1>5. \A i \in 1..N : i \in V <=> ToSet(O[i]) \cap DropContentTags = {}
  BY <1>1 DEF Visible
<1>6. \A i \in 0..N : ~Contains(O[i], "mismatch")
  OBVIOUS
<1> HIDE DEF N, P, O, V, h
<1>7. 0 \in T
  <2>1. P[0].output = <<>> /\ P[0].blocked = <<>>
    BY <1>2 DEF NewParser
  <2>2. Blocks(<<>>, <<>>)
    BY DEF Blocks
  <2>3. AllText(<<>>) = <<>>
    <3>1. <<>> \in Seq(Token) /\ Len(<<>>) = 0
      OBVIOUS
    <3>2. Texts(<<>>, DOMAIN <<>>)[0] = <<>>
      BY <3>1, TextsSteps
    <3> QED
      BY <3>1, <3>2 DEF AllText, Text
  <2> QED
    BY <1>3, <1>4, <2>1, <2>2, <2>3
<1>8. ASSUME NEW i \in T PROVE i + 1 \in T
  <2> SUFFICES ASSUME i + 1 <= N
               PROVE  AllText(P[i + 1].output) = h[i + 1] /\ Blocks(P[i + 1].blocked, O[i + 1])
    OBVIOUS
  <2> DEFINE p == P[i]
             q == P[i + 1]
             x == s[i + 1]
             a == O[i]
             b == O[i + 1]
  <2>1. /\ i \in 0..N /\ i + 1 \in 0..N /\ i + 1 \in 1..N /\ (i + 1) - 1 = i
        /\ AllText(p.output) = h[i] /\ Blocks(p.blocked, a)
    BY <1>1
  <2>2. p \in Parser /\ a \in Seq(Opened) /\ x \in Token /\ b \in Seq(Opened)
    BY <1>1, <1>2, <1>3, <2>1
  <2>3. q = Handle(p, x)
    BY <1>2, <2>1
  <2>4. b = Inside(a, x)
    BY <1>3, <2>1
  <2>5. ~Contains(b, "mismatch")
    BY <1>6, <2>1
  <2>6. h[i + 1] = IF i + 1 \in V /\ IsData(x) THEN Append(h[i], x) ELSE h[i]
    BY <1>4, <2>1
  <2>7. i + 1 \in V <=> ToSet(b) \cap DropContentTags = {}
    BY <1>5, <2>1
  <2> HIDE DEF p, q, x, a, b
  <2>8. Blocks(q.blocked, b)
    BY <2>1, <2>2, <2>3, <2>4, <2>5, HandleBlocks
  <2>9. AllText(q.output) = IF IsData(x) /\ p.blocked = <<>> THEN Append(AllText(p.output), x)
                            ELSE AllText(p.output)
    BY <2>2, <2>3, OutputText
  <2>10. ASSUME IsData(x) PROVE i + 1 \in V <=> p.blocked = <<>>
    <3>1. b = a
      BY <2>4, <2>10 DEF Inside, IsData
    <3>2. p.blocked = <<>> <=> ToSet(a) \cap DropContentTags = {}
      BY <2>1, <2>2, BlocksWhich
    <3> QED
      BY <2>7, <3>1, <3>2
  <2>11. AllText(q.output) = h[i + 1]
    BY <2>1, <2>6, <2>9, <2>10
  <2> QED
    BY <2>8, <2>11 DEF q, b
<1>9. T = Nat
  <2> HIDE DEF T
  <2>1. T \in SUBSET Nat
    BY DEF T
  <2> QED
    BY <1>7, <1>8, <2>1, Induct
<1>10. AllText(P[N].output) = h[N]
  <2>1. N \in T
    <3> HIDE DEF T
    <3> QED
      BY <1>1, <1>9
  <2> QED
    BY <1>1, <2>1
<1> QED
  BY <1>10 DEF Fed, Text, N, P, V, h

(* rich_text.py:31-72: of input whose tags nest, the parser keeps the text *)
(* outside every element of DropContentTags, all of it and in order, and   *)
(* no other, however deep those elements nest and whatever they contain.   *)
THEOREM OnlyDroppedLost == ExportTextSpec => []OnlyDroppedTextLost
<1>1. ValueOK => OnlyDroppedTextLost
  <2> SUFFICES ASSUME ValueOK, \A i \in 0..Len(value) : ~Contains(Nested(value)[i], "mismatch")
               PROVE  AllText(Fed(value).output) = Text(value, Visible(value))
    BY DEF OnlyDroppedTextLost, AllText
  <2>1. value \in Seq(Token)
    BY DEF ValueOK
  <2> QED
    BY <2>1, FedText
<1> QED
  BY <1>1, ValueInvariant, PTL
===============================================================================
