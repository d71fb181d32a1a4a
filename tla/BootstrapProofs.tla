---------------------------- MODULE BootstrapProofs ---------------------------
(***************************************************************************)
(* Theorems about Bootstrap and ConfigLoad, for any number of invocations  *)
(* with any flags, any environment, any bot and any contents of the file:  *)
(* BootstrapInv is inductive, and what init-config writes is what          *)
(* config.Load reads.                                                      *)
(*                                                                         *)
(* The texts are unbounded, so the first part is about Trim, Expand and    *)
(* Sanitize on sequences of every length.  Where that takes an induction,  *)
(* the proof looks at the least counterexample.                            *)
(***************************************************************************)
EXTENDS BootstrapProperties, WellFoundedInduction, SequenceTheorems, TLAPS

(* Induction over data, without the induction theorems: there is a least   *)
(* counterexample.                                                         *)
LEMMA SmallestExists ==
  ASSUME NEW S \in SUBSET Nat, S # {}
  PROVE  \E n \in S : \A m \in S : n <= m
<1> DEFINE R == {p \in Nat \X Nat : p[1] < p[2]}
<1>1. IsWellFoundedOn(R, Nat)
  BY NatLessThanWellFounded DEF OpToRel
<1>2. PICK n \in S : \A m \in S : <<m, n>> \notin R
  BY <1>1, WFMin
<1>3. ASSUME NEW m \in S PROVE n <= m
  <2>1. m \in Nat /\ n \in Nat
    OBVIOUS
  <2>2. ~(m < n)
    BY <1>2, <2>1
  <2>3. QED
    BY <2>1, <2>2
<1>4. QED
  BY <1>3

(* Min and Max of some positions of a text are what they say.              *)
LEMMA MinMaxOfPositions ==
  ASSUME NEW n \in Nat, NEW S \in SUBSET 1..n, S # {}
  PROVE  /\ Min(S) \in S /\ Max(S) \in S
         /\ \A i \in S : Min(S) <= i /\ i <= Max(S)
<1>1. \E i \in S : \A j \in S : i <= j
  BY SmallestExists
<1>2. \E i \in S : \A j \in S : i >= j
  <2> DEFINE T == {n - i : i \in S}
  <2>1. T \in SUBSET Nat /\ T # {}
    <3>1. ASSUME NEW i \in S PROVE n - i \in Nat
      <4>1. i \in 1..n
        OBVIOUS
      <4>2. QED
        BY <4>1
    <3>2. QED
      BY <3>1
  <2>2. PICK k \in T : \A m \in T : k <= m
    BY <2>1, SmallestExists
  <2>3. PICK i \in S : k = n - i
    OBVIOUS
  <2>4. ASSUME NEW j \in S PROVE i >= j
    BY <2>2, <2>3
  <2>5. QED
    BY <2>4
<1>3. Min(S) \in S /\ \A j \in S : Min(S) <= j
  BY <1>1 DEF Min
<1>4. Max(S) \in S /\ \A j \in S : Max(S) >= j
  BY <1>2 DEF Max
<1>5. QED
  BY <1>3, <1>4

-----------------------------------------------------------------------------

(* A span is a part of the text, shifted to the left.                      *)
LEMMA SpanType ==
  ASSUME NEW text \in Text, NEW words \in SUBSET DOMAIN text
  PROVE  /\ Span(text, words) \in Text
         /\ words = {} => Span(text, words) = <<>>
         /\ words # {} =>
              /\ Min(words) \in words /\ Max(words) \in words
              /\ Min(words) <= Max(words)
              /\ Len(Span(text, words)) = Max(words) - Min(words) + 1
              /\ \A i \in 1..Len(Span(text, words)) :
                   /\ Min(words) + i - 1 \in DOMAIN text
                   /\ Span(text, words)[i] = text[Min(words) + i - 1]
              /\ \A k \in words : k - Min(words) + 1 \in 1..Len(Span(text, words))
<1>1. /\ Len(text) \in Nat /\ DOMAIN text = 1..Len(text)
      /\ text \in Seq(STRING)
  BY DEF Text
<1>2. CASE words = {}
  BY <1>2 DEF Span, Text
<1>3. CASE words # {}
  <2>1. /\ Min(words) \in words /\ Max(words) \in words
        /\ \A i \in words : Min(words) <= i /\ i <= Max(words)
    BY <1>1, <1>3, MinMaxOfPositions
  <2>2. PICK lo \in 1..Len(text), hi \in 1..Len(text) :
          lo = Min(words) /\ hi = Max(words)
    BY <1>1, <2>1
  <2>3. lo <= hi
    BY <2>1, <2>2
  <2>4. Span(text, words) = SubSeq(text, lo, hi)
    BY <1>3, <2>2 DEF Span
  <2>5. /\ SubSeq(text, lo, hi) \in Seq(STRING)
        /\ Len(SubSeq(text, lo, hi)) = hi - lo + 1
        /\ \A i \in 1..hi - lo + 1 : SubSeq(text, lo, hi)[i] = text[lo + i - 1]
    BY <1>1, <2>2, <2>3
  <2>6. ASSUME NEW i \in 1..hi - lo + 1 PROVE lo + i - 1 \in DOMAIN text
    BY <1>1, <2>2, <2>3
  <2>7. ASSUME NEW k \in words PROVE k - lo + 1 \in 1..hi - lo + 1
    BY <1>1, <2>1, <2>2
  <2>8. QED
    BY <1>3, <2>1, <2>2, <2>3, <2>4, <2>5, <2>6, <2>7 DEF Text
<1>4. QED
  BY <1>2, <1>3

(* Trim only takes white space away, and leaves none at the ends.          *)
LEMMA TrimType ==
  ASSUME NEW text \in Text
  PROVE  /\ Trim(text) \in Text
         /\ ToSet(Trim(text)) \subseteq ToSet(text)
         /\ ToSet(text) \subseteq ToSet(Trim(text)) \cup {Blank}
         /\ Trim(text) # <<>> =>
              /\ Len(Trim(text)) \in Nat \ {0}
              /\ Trim(text)[1] # Blank
              /\ Trim(text)[Len(Trim(text))] # Blank
<1> DEFINE full == {i \in DOMAIN text : text[i] # Blank}
<1>1. Trim(text) = Span(text, full) /\ full \in SUBSET DOMAIN text
  BY DEF Trim
<1>2. /\ Len(text) \in Nat /\ DOMAIN text = 1..Len(text)
      /\ Trim(text) \in Text
  BY <1>1, SpanType DEF Text
<1>3. CASE full = {}
  <2>1. Trim(text) = <<>>
    BY <1>1, <1>3, SpanType
  <2>2. \A i \in DOMAIN text : text[i] = Blank
    BY <1>3
  <2>3. QED
    BY <1>2, <2>1, <2>2 DEF ToSet
<1>4. CASE full # {}
  <2> HIDE DEF full
  <2>1. PICK lo \in DOMAIN text, hi \in DOMAIN text :
          /\ lo \in full /\ hi \in full /\ lo <= hi
          /\ lo = Min(full) /\ hi = Max(full)
    BY <1>1, <1>4, SpanType
  <2>2. /\ Len(Trim(text)) = hi - lo + 1
        /\ \A i \in 1..Len(Trim(text)) :
             lo + i - 1 \in DOMAIN text /\ Trim(text)[i] = text[lo + i - 1]
        /\ \A k \in full : k - lo + 1 \in 1..Len(Trim(text))
    BY <1>1, <1>4, <2>1, SpanType
  <2>3. /\ lo \in Int /\ hi \in Int
        /\ DOMAIN Trim(text) = 1..Len(Trim(text)) /\ Len(Trim(text)) \in Nat \ {0}
    BY <1>2, <2>1, <2>2 DEF Text
  <2>4. ToSet(Trim(text)) \subseteq ToSet(text)
    BY <2>2, <2>3 DEF ToSet
  <2>5. ASSUME NEW k \in DOMAIN text, text[k] # Blank
        PROVE  text[k] \in ToSet(Trim(text))
    <3>1. k \in full /\ k \in Int
      BY <1>2, <2>5 DEF full
    <3>2. /\ k - lo + 1 \in DOMAIN Trim(text)
          /\ Trim(text)[k - lo + 1] = text[lo + (k - lo + 1) - 1]
      BY <2>2, <2>3, <3>1
    <3>3. lo + (k - lo + 1) - 1 = k
      BY <2>3, <3>1
    <3>4. QED
      BY <3>2, <3>3 DEF ToSet
  <2>6. ToSet(text) \subseteq ToSet(Trim(text)) \cup {Blank}
    BY <2>5 DEF ToSet
  <2>7. /\ Trim(text)[1] = text[lo]
        /\ Trim(text)[Len(Trim(text))] = text[hi]
    <3>1. lo + 1 - 1 = lo /\ lo + (hi - lo + 1) - 1 = hi
      BY <2>3
    <3>2. 1 \in 1..Len(Trim(text)) /\ Len(Trim(text)) \in 1..Len(Trim(text))
      BY <2>3
    <3>3. QED
      BY <2>2, <3>1, <3>2
  <2>8. text[lo] # Blank /\ text[hi] # Blank
    BY <2>1 DEF full
  <2>9. QED
    BY <1>2, <2>3, <2>4, <2>6, <2>7, <2>8
<1>5. QED
  BY <1>3, <1>4

(* A text without white space at its ends is kept as it is.                *)
LEMMA TrimKeeps ==
  ASSUME NEW text \in Text,
         text # <<>> => text[1] # Blank /\ text[Len(text)] # Blank
  PROVE  Trim(text) = text
<1> DEFINE full == {i \in DOMAIN text : text[i] # Blank}
<1>1. /\ Len(text) \in Nat /\ DOMAIN text = 1..Len(text)
      /\ text \in Seq(STRING)
  BY DEF Text
<1>2. CASE text = <<>>
  <2>1. full = {}
    BY <1>1, <1>2
  <2>2. QED
    BY <1>2, <2>1 DEF Trim, Span
<1>3. CASE text # <<>>
  <2>1. Len(text) \in Nat \ {0}
    BY <1>1, <1>3
  <2>2. 1 \in full /\ Len(text) \in full
    BY <1>1, <1>3, <2>1
  <2>3. \A i \in full : 1 <= i /\ i <= Len(text)
    BY <1>1
  <2>4. full \in SUBSET 1..Len(text) /\ full # {}
    BY <1>1, <2>2
  <2> HIDE DEF full
  <2>5. /\ Min(full) \in full /\ Max(full) \in full
        /\ Min(full) <= 1 /\ Len(text) <= Max(full)
    BY <1>1, <2>2, <2>4, MinMaxOfPositions
  <2>6. Min(full) = 1 /\ Max(full) = Len(text)
    <3>1. PICK lo \in 1..Len(text), hi \in 1..Len(text) :
            lo = Min(full) /\ hi = Max(full) /\ lo <= 1 /\ Len(text) <= hi
      BY <2>4, <2>5
    <3>2. lo = 1 /\ hi = Len(text)
      BY <1>1, <3>1
    <3>3. QED
      BY <3>1, <3>2
  <2>7. Trim(text) = SubSeq(text, 1, Len(text))
    BY <2>4, <2>6 DEF Trim, Span, full
  <2>8. QED
    BY <1>1, <2>7, SubSeqFull
<1>4. QED
  BY <1>2, <1>3

(* So trimming once is enough.                                             *)
LEMMA TrimTwice ==
  ASSUME NEW text \in Text PROVE Trim(Trim(text)) = Trim(text)
BY TrimType, TrimKeeps

-----------------------------------------------------------------------------
(* FlattenSeq.                                                             *)

(* FlattenSeq is defined by a recursive function, whose equation has a     *)
(* solution for texts of every length.                                     *)
LEMMA FlattenDef ==
  ASSUME NEW texts \in Seq(Text), texts # <<>>
  PROVE  \E f : /\ f = [i \in 1..Len(texts) |->
                          IF i = 1 THEN texts[i] ELSE f[i - 1] \o texts[i]]
                /\ FlattenSeq(texts) = f[Len(texts)]
<1> DEFINE Equation(f, n) ==
      f = [i \in 1..n |-> IF i = 1 THEN texts[i] ELSE f[i - 1] \o texts[i]]
<1>1. Len(texts) \in Nat \ {0}
  OBVIOUS
<1>2. \E f : Equation(f, Len(texts))
  <2> DEFINE T == {n \in Nat \ {0} : ~\E f : Equation(f, n)}
  <2>1. SUFFICES ASSUME T # {} PROVE FALSE
    BY <1>1
  <2>2. PICK n \in T : \A m \in T : n <= m
    BY <2>1, SmallestExists
  <2>3. CASE n = 1
    <3>1. Equation([i \in 1..1 |-> texts[i]], 1)
      OBVIOUS
    <3>2. QED
      BY <2>2, <2>3, <3>1
  <2>4. CASE n # 1
    <3>1. n \in Nat /\ n - 1 \in Nat \ {0} /\ n - 1 < n
      BY <2>4
    <3>2. n - 1 \notin T
      <4> HIDE DEF T
      <4>1. SUFFICES ASSUME n - 1 \in T PROVE FALSE
        OBVIOUS
      <4>2. n <= n - 1
        BY <2>2, <4>1
      <4>3. QED
        BY <3>1, <4>2
    <3>3. PICK g : Equation(g, n - 1)
      BY <3>1, <3>2
    <3> DEFINE h == [i \in 1..n |->
                       IF i = 1 THEN texts[i] ELSE g[i - 1] \o texts[i]]
    <3>4. ASSUME NEW i \in 1..n PROVE i # 1 => h[i - 1] = g[i - 1]
      <4>1. i # 1 => i - 1 \in 1..n - 1 /\ i - 1 \in 1..n
        BY <3>1
      <4>2. QED
        BY <3>3, <4>1
    <3>5. Equation(h, n)
      BY <3>4
    <3>6. QED
      BY <2>2, <3>5
  <2>5. QED
    BY <2>3, <2>4
<1>3. QED
  BY <1>1, <1>2 DEF FlattenSeq

(* Texts put together are a text.                                          *)
LEMMA FlattenType ==
  ASSUME NEW texts \in Seq(Text)
  PROVE  FlattenSeq(texts) \in Text
<1>1. CASE texts = <<>>
  BY <1>1 DEF FlattenSeq, Text
<1>2. CASE texts # <<>>
  <2>1. PICK f : /\ f = [i \in 1..Len(texts) |->
                          IF i = 1 THEN texts[i] ELSE f[i - 1] \o texts[i]]
                 /\ FlattenSeq(texts) = f[Len(texts)]
    BY <1>2, FlattenDef
  <2>2. /\ Len(texts) \in Nat \ {0}
        /\ \A i \in 1..Len(texts) : texts[i] \in Text
    BY <1>2
  <2> DEFINE T == {i \in 1..Len(texts) : f[i] \notin Text}
  <2>3. T = {}
    <3>1. SUFFICES ASSUME T # {} PROVE FALSE
      OBVIOUS
    <3>2. T \in SUBSET Nat
      OBVIOUS
    <3>3. PICK n \in T : \A m \in T : n <= m
      BY <3>1, <3>2, SmallestExists
    <3>4. n \in 1..Len(texts) /\ f[n] \notin Text
      OBVIOUS
    <3>5. n # 1
      BY <2>1, <2>2, <3>4
    <3>6. n - 1 \in 1..Len(texts)
      BY <2>2, <3>4, <3>5
    <3>7. f[n - 1] \in Text
      <4>1. SUFFICES ASSUME f[n - 1] \notin Text PROVE FALSE
        OBVIOUS
      <4>2. n - 1 \in T
        BY <3>6, <4>1
      <4> HIDE DEF T
      <4>3. n <= n - 1
        BY <3>3, <4>2
      <4>4. QED
        BY <3>4, <4>3
    <3>8. f[n] = f[n - 1] \o texts[n]
      BY <2>1, <3>4, <3>5
    <3>9. f[n] \in Text
      BY <2>2, <3>4, <3>7, <3>8, ConcatProperties DEF Text
    <3>10. QED
      BY <3>4, <3>9
  <2>4. \A i \in 1..Len(texts) : f[i] \in Text
    BY <2>3
  <2>5. Len(texts) \in 1..Len(texts)
    BY <2>2
  <2>6. f[Len(texts)] \in Text
    BY <2>4, <2>5
  <2>7. FlattenSeq(texts) = f[Len(texts)]
    BY <2>1
  <2> HIDE DEF T
  <2>8. QED
    BY <2>6, <2>7
<1>3. QED
  BY <1>1, <1>2

(* The words of a text put together again are the text.                    *)
LEMMA FlattenWords ==
  ASSUME NEW text \in Text
  PROVE  FlattenSeq([i \in DOMAIN text |-> <<text[i]>>]) = text
<1> DEFINE texts == [i \in DOMAIN text |-> <<text[i]>>]
<1>1. /\ Len(text) \in Nat /\ DOMAIN text = 1..Len(text)
      /\ text \in Seq(STRING)
  BY DEF Text
<1>2. texts \in Seq(Text) /\ Len(texts) = Len(text)
  BY <1>1 DEF Text
<1>3. CASE text = <<>>
  <2>1. texts = <<>> /\ Len(texts) = 0
    BY <1>1, <1>2, <1>3
  <2>2. QED
    BY <1>3, <2>1 DEF FlattenSeq
<1>4. CASE text # <<>>
  <2>1. Len(text) \in Nat \ {0}
    BY <1>1, <1>4
  <2>2. texts # <<>>
    BY <1>2, <2>1
  <2>3. PICK f : /\ f = [i \in 1..Len(texts) |->
                          IF i = 1 THEN texts[i] ELSE f[i - 1] \o texts[i]]
                 /\ FlattenSeq(texts) = f[Len(texts)]
    <3> HIDE DEF texts
    <3>1. QED
      BY <1>2, <2>2, FlattenDef
  <2> DEFINE T == {i \in 1..Len(text) : f[i] # SubSeq(text, 1, i)}
  <2>4. T = {}
    <3>1. SUFFICES ASSUME T # {} PROVE FALSE
      OBVIOUS
    <3>2. T \in SUBSET Nat
      OBVIOUS
    <3>3. PICK n \in T : \A m \in T : n <= m
      BY <3>1, <3>2, SmallestExists
    <3>4. n \in 1..Len(text) /\ f[n] # SubSeq(text, 1, n)
      OBVIOUS
    <3>5. CASE n = 1
      <4>1. f[1] = <<text[1]>>
        BY <1>1, <1>2, <2>1, <2>3
      <4>2. SubSeq(text, 1, 1) = <<text[1]>>
        <5>1. SubSeq(text, 1, 1) = SubSeq(text, 1, 0) \o <<text[1]>>
          BY <1>1, <2>1, SubSeqRecursiveSecond
        <5>2. SubSeq(text, 1, 0) = <<>>
          BY <1>1, SubSeqEmpty
        <5>3. <<text[1]>> \in Seq(STRING)
          BY <1>1, <2>1
        <5>4. QED
          BY <5>1, <5>2, <5>3, ConcatEmptySeq
      <4>3. QED
        BY <3>4, <3>5, <4>1, <4>2
    <3>6. CASE n # 1
      <4>1. n - 1 \in 1..Len(text)
        BY <2>1, <3>4, <3>6
      <4>2. f[n - 1] = SubSeq(text, 1, n - 1)
        <5>1. SUFFICES ASSUME f[n - 1] # SubSeq(text, 1, n - 1) PROVE FALSE
          OBVIOUS
        <5>2. n - 1 \in T
          BY <4>1, <5>1
        <5> HIDE DEF T
        <5>3. n <= n - 1
          BY <3>3, <5>2
        <5>4. QED
          BY <3>4, <5>3
      <4>3. f[n] = f[n - 1] \o <<text[n]>>
        BY <1>1, <1>2, <2>3, <3>4, <3>6
      <4>4. SubSeq(text, 1, n) = SubSeq(text, 1, n - 1) \o <<text[n]>>
        BY <1>1, <3>4, SubSeqRecursiveSecond
      <4>5. QED
        BY <3>4, <4>2, <4>3, <4>4
    <3>7. QED
      BY <3>5, <3>6
  <2>5. f[Len(text)] = SubSeq(text, 1, Len(text))
    BY <2>1, <2>4
  <2>6. QED
    BY <1>1, <1>2, <2>3, <2>5, SubSeqFull
<1>5. QED
  BY <1>3, <1>4

-----------------------------------------------------------------------------
(* Expand.                                                                 *)

(* What variables are replaced by is text again,                           *)
LEMMA ExpandType ==
  ASSUME NEW env, env \in [DOMAIN env -> Text], NEW text \in Text
  PROVE  Expand(env, text) \in Text
<1> DEFINE texts == [i \in DOMAIN text |->
                       IF text[i] \in DOMAIN env THEN env[text[i]]
                                                 ELSE <<text[i]>>]
<1>1. /\ Len(text) \in Nat /\ DOMAIN text = 1..Len(text)
      /\ \A i \in 1..Len(text) : text[i] \in STRING
  BY DEF Text
<1>2. ASSUME NEW i \in 1..Len(text) PROVE texts[i] \in Text
  <2>1. CASE text[i] \in DOMAIN env
    BY <1>1, <2>1
  <2>2. CASE text[i] \notin DOMAIN env
    BY <1>1, <2>2 DEF Text
  <2>3. QED
    BY <2>1, <2>2
<1>3. texts = [i \in 1..Len(text) |-> texts[i]]
  BY <1>1
<1> HIDE DEF texts
<1>4. texts \in Seq(Text)
  BY <1>1, <1>2, <1>3
<1>5. Expand(env, text) = FlattenSeq(texts)
  BY DEF Expand, texts
<1>6. QED
  BY <1>4, <1>5, FlattenType

(* text without a variable in it stays as it is,                           *)
LEMMA ExpandKeeps ==
  ASSUME NEW env, NEW text \in Text, ToSet(text) \cap DOMAIN env = {}
  PROVE  Expand(env, text) = text
<1>1. \A i \in DOMAIN text : text[i] \notin DOMAIN env
  BY DEF ToSet
<1>2. [i \in DOMAIN text |->
         IF text[i] \in DOMAIN env THEN env[text[i]] ELSE <<text[i]>>]
      = [i \in DOMAIN text |-> <<text[i]>>]
  BY <1>1
<1>3. QED
  BY <1>2, FlattenWords DEF Expand

(* and a variable alone becomes its value.                                 *)
LEMMA ExpandVariable ==
  ASSUME NEW env, env \in [DOMAIN env -> Text], NEW name \in DOMAIN env
  PROVE  Expand(env, <<name>>) = env[name]
<1> DEFINE texts == <<env[name]>>
<1>1. Expand(env, <<name>>) = FlattenSeq(texts)
  <2>1. [i \in DOMAIN <<name>> |->
           IF <<name>>[i] \in DOMAIN env THEN env[<<name>>[i]]
                                         ELSE <<<<name>>[i]>>] = texts
    OBVIOUS
  <2>2. QED
    BY <2>1 DEF Expand
<1>2. texts \in Seq(Text) /\ texts # <<>> /\ Len(texts) = 1
  OBVIOUS
<1>3. PICK f : /\ f = [i \in 1..Len(texts) |->
                         IF i = 1 THEN texts[i] ELSE f[i - 1] \o texts[i]]
               /\ FlattenSeq(texts) = f[Len(texts)]
  <2> HIDE DEF texts
  <2>1. QED
    BY <1>2, FlattenDef
<1>4. f[1] = texts[1]
  BY <1>2, <1>3
<1>5. QED
  BY <1>1, <1>2, <1>3, <1>4

-----------------------------------------------------------------------------
(* The name that init-config makes up.                                     *)

(* A name keeps its latin words, of which the first and the last are at    *)
(* its ends, and nothing but dashes besides.                               *)
LEMMA SanitizeType ==
  ASSUME NEW name \in Text
  PROVE  /\ Sanitize(name) \in Text
         /\ ToSet(Sanitize(name)) \subseteq Latin \cup {"-"}
         /\ Sanitize(name) # <<>> =>
              /\ Len(Sanitize(name)) \in Nat \ {0}
              /\ Sanitize(name)[1] \in Latin
              /\ Sanitize(name)[Len(Sanitize(name))] \in Latin
         /\ ToSet(name) \cap Latin # {} => Sanitize(name) # <<>>
<1> DEFINE dashed == [i \in DOMAIN name |->
                        IF name[i] \in Latin THEN name[i] ELSE "-"]
           kept == {i \in DOMAIN name : name[i] \in Latin}
<1>1. /\ Len(name) \in Nat /\ DOMAIN name = 1..Len(name)
      /\ \A i \in 1..Len(name) : name[i] \in STRING
  BY DEF Text
<1>2. dashed \in Text /\ DOMAIN dashed = 1..Len(name)
  <2>1. ASSUME NEW i \in 1..Len(name) PROVE dashed[i] \in STRING
    <3>1. dashed[i] \in {name[i], "-"}
      BY <1>1
    <3>2. name[i] \in STRING /\ "-" \in STRING
      BY <1>1, WordAssumption
    <3> HIDE DEF dashed
    <3>3. QED
      BY <3>1, <3>2
  <2>2. dashed = [i \in 1..Len(name) |-> dashed[i]]
    BY <1>1
  <2> HIDE DEF dashed
  <2>3. dashed \in Seq(STRING)
    BY <1>1, <2>1, <2>2
  <2>4. QED
    BY <1>1, <2>2, <2>3 DEF Text
<1>3. /\ \A i \in 1..Len(name) : dashed[i] \in Latin \cup {"-"}
      /\ \A i \in kept : dashed[i] \in Latin
  BY <1>1
<1>4. Sanitize(name) = Span(dashed, kept) /\ kept \in SUBSET DOMAIN dashed
  BY <1>1, <1>2 DEF Sanitize
<1>5. ToSet(name) \cap Latin # {} <=> kept # {}
  BY DEF ToSet
<1> HIDE DEF dashed, kept
<1>6. Sanitize(name) \in Text
  BY <1>2, <1>4, SpanType
<1>7. CASE kept = {}
  <2>1. Sanitize(name) = <<>>
    BY <1>2, <1>4, <1>7, SpanType
  <2>2. QED
    BY <1>5, <1>6, <1>7, <2>1 DEF ToSet
<1>8. CASE kept # {}
  <2>1. PICK lo \in kept, hi \in kept :
          lo = Min(kept) /\ hi = Max(kept) /\ lo <= hi
    BY <1>2, <1>4, <1>8, SpanType
  <2>2. /\ Len(Sanitize(name)) = hi - lo + 1
        /\ \A i \in 1..Len(Sanitize(name)) :
             /\ lo + i - 1 \in DOMAIN dashed
             /\ Sanitize(name)[i] = dashed[lo + i - 1]
    <3>1. /\ Len(Sanitize(name)) = Max(kept) - Min(kept) + 1
          /\ \A i \in 1..Len(Sanitize(name)) :
               /\ Min(kept) + i - 1 \in DOMAIN dashed
               /\ Sanitize(name)[i] = dashed[Min(kept) + i - 1]
      BY <1>2, <1>4, <1>8, SpanType
    <3>2. QED
      BY <2>1, <3>1
  <2>3. lo \in 1..Len(name) /\ hi \in 1..Len(name)
    BY <1>2, <1>4, <2>1
  <2>4. /\ DOMAIN Sanitize(name) = 1..Len(Sanitize(name))
        /\ Len(Sanitize(name)) \in Nat \ {0}
    BY <1>1, <1>6, <2>1, <2>2, <2>3 DEF Text
  <2>5. ToSet(Sanitize(name)) \subseteq Latin \cup {"-"}
    BY <1>2, <1>3, <2>2, <2>4 DEF ToSet
  <2>6. /\ Sanitize(name)[1] = dashed[lo]
        /\ Sanitize(name)[Len(Sanitize(name))] = dashed[hi]
    <3>1. lo + 1 - 1 = lo /\ lo + (hi - lo + 1) - 1 = hi
      BY <1>1, <2>3
    <3>2. 1 \in 1..Len(Sanitize(name))
          /\ Len(Sanitize(name)) \in 1..Len(Sanitize(name))
      BY <2>4
    <3>3. QED
      BY <2>2, <3>1, <3>2
  <2>7. Sanitize(name) # <<>>
    BY <2>4
  <2>8. QED
    BY <1>3, <1>6, <2>1, <2>4, <2>5, <2>6, <2>7
<1>9. QED
  BY <1>7, <1>8

(* Whoever the bot is and whatever -name says, the name is not blank, has  *)
(* no white space at its ends and no `$' in it.                            *)
LEMMA BotNameSafe ==
  ASSUME NEW r, request[r] \in RequestType
  PROVE  /\ BotName(r) \in Text /\ BotName(r) # <<>>
         /\ Trim(BotName(r)) = BotName(r)
         /\ ToSet(BotName(r)) \cap DOMAIN Env = {}
<1>1. PICK name \in Text : BotName(r) = Sanitize(name) /\ Sanitize(name) # <<>>
  <2> DEFINE last == <<"bot-", BotUser.id>>
  <2>1. /\ request[r].name \in Text /\ BotUser.username \in Text
        /\ BotUser.full_name \in Text
    BY BootstrapAssumption DEF RequestType
  <2>2. last \in Text /\ ToSet(last) \cap Latin # {}
    <3>1. last \in Text
      BY BootstrapAssumption DEF Text
    <3>2. 1 \in DOMAIN last /\ last[1] = "bot-"
      OBVIOUS
    <3>3. QED
      BY <3>1, <3>2, BootstrapAssumption DEF ToSet
  <2> HIDE DEF last
  <2>3. Sanitize(last) # <<>>
    BY <2>2, SanitizeType
  <2>4. BotName(r) \in {Sanitize(request[r].name), Sanitize(BotUser.username),
                        Sanitize(BotUser.full_name), Sanitize(last)}
        /\ BotName(r) # <<>>
    BY <2>3 DEF BotName, last
  <2>5. QED
    BY <2>1, <2>2, <2>4
<1>2. /\ BotName(r) \in Text
      /\ ToSet(BotName(r)) \subseteq Latin \cup {"-"}
      /\ BotName(r)[1] \in Latin
      /\ BotName(r)[Len(BotName(r))] \in Latin
  BY <1>1, SanitizeType
<1>3. Blank \notin Latin
  BY BootstrapAssumption
<1>4. Trim(BotName(r)) = BotName(r)
  BY <1>2, <1>3, TrimKeeps
<1>5. (Latin \cup {"-"}) \cap DOMAIN Env = {}
  BY BootstrapAssumption
<1>6. QED
  BY <1>1, <1>2, <1>4, <1>5

-----------------------------------------------------------------------------
(* The inductive invariant.                                                *)

(* Polling mode shows as the blank URL, which the check of the URL         *)
(* refuses.                                                                *)
LEMMA ValidIsNotBlank ==
  ~ValidURL(<<>>)
BY DEF ValidURL

(* A sequence of one.                                                      *)
LEMMA Singleton ==
  ASSUME NEW S, NEW x \in S
  PROVE  <<x>> \in Seq(S) /\ ToSet(<<x>>) = {x}
<1>1. <<x>> \in Seq(S)
  OBVIOUS
<1>2. ToSet(<<x>>) = {x}
  <2>1. DOMAIN <<x>> = 1..1 /\ <<x>>[1] = x
    OBVIOUS
  <2>2. 1..1 = {1}
    OBVIOUS
  <2>3. ToSet(<<x>>) = {<<x>>[i] : i \in {1}}
    BY <2>1, <2>2 DEF ToSet
  <2>4. QED
    BY <2>1, <2>3
<1>3. QED
  BY <1>1, <1>2

(* A word alone is a text.                                                 *)
LEMMA WordIsText ==
  ASSUME NEW word \in STRING
  PROVE  <<word>> \in Text /\ ToSet(<<word>>) = {word}
BY Singleton, Zenon DEF Text

(* The reference to the token's variable is a text,                        *)
LEMMA TokenEnvType ==
  ASSUME NEW r, request[r] \in RequestType
  PROVE  TokenEnv(r) \in Text /\ TokenValue(r) \in Text
<1>1. request[r].token_env \in Text /\ request[r].token \in Text
  BY DEF RequestType
<1>2. DefaultEnv \in STRING
  BY BootstrapAssumption
<1>3. <<DefaultEnv>> \in Text
  BY <1>2, WordIsText
<1>4. QED
  BY <1>1, <1>3, TrimType DEF TokenEnv, TokenValue

(* and a run writes a configuration with all its fields.                   *)
LEMMA ConfigOfType ==
  ASSUME NEW r, request[r] \in RequestType, url[r] \in Text
  PROVE  ConfigOf(r) \in ConfigType
<1>1. /\ BotName(r) \in Text /\ TokenValue(r) \in Text
      /\ Trim(request[r].secret_token) \in Text /\ request[r].drop \in BOOLEAN
  BY BotNameSafe, TokenEnvType, TrimType DEF RequestType
<1>2. DefaultNumbers \in [DOMAIN DefaultNumbers -> Int]
  BY DEF DefaultNumbers
<1>3. ConfigOf(r).bots[1] \in BotType
  BY <1>1 DEF ConfigOf, BotType
<1>4. ConfigOf(r).bots \in Seq(BotType)
  BY <1>3 DEF ConfigOf
<1>5. QED
  BY <1>2, <1>4 DEF ConfigOf, ConfigType

(* Which steps a run takes.                                                *)
Ends == {"done", "failed", "killed"}

(* A run goes on, gives up or is killed, and no other run notices.         *)
LEMMA StepOfRun ==
  ASSUME BootstrapTypeOK, NEW r \in Runs, RunStep(r) \/ Kill(r)
  PROVE  \E s \in {"failed", "killed"} \cup {NextStep[step[r]]} :
           /\ step[r] \in DOMAIN NextStep
           /\ s \in DOMAIN NextStep \cup Ends
           /\ step' = [step EXCEPT ![r] = s]
           /\ step'[r] = s /\ \A q \in Runs \ {r} : step'[q] = step[q]
<1>1. /\ step \in [Runs -> DOMAIN NextStep \cup Ends]
      /\ DOMAIN NextStep =
           {"parseFlags", "getWebhookInfo", "getMe", "preparePath",
            "deleteWebhook", "verify", "open", "write"}
      /\ \A s \in DOMAIN NextStep : NextStep[s] \in DOMAIN NextStep \cup {"done"}
  BY DEF BootstrapTypeOK, Ends, NextStep
<1>2. step[r] \in DOMAIN NextStep
  BY <1>1 DEF RunStep, Kill, ParseFlags, GetWebhookInfo, GetMe,
       PrepareOutputPath, DeleteWebhook, VerifyWebhook, OpenFile, WriteFile,
       StepFails, Running
<1>3. Go(r) \/ GiveUp(r) \/ step' = [step EXCEPT ![r] = "killed"]
  BY DEF RunStep, Kill, ParseFlags, GetWebhookInfo, GetMe,
       PrepareOutputPath, DeleteWebhook, VerifyWebhook, OpenFile, WriteFile,
       StepFails, GoIf
<1>4. PICK s \in {"failed", "killed"} \cup {NextStep[step[r]]} :
        step' = [step EXCEPT ![r] = s]
  BY <1>3 DEF Go, GiveUp
<1>5. step'[r] = s /\ \A q \in Runs \ {r} : step'[q] = step[q]
  BY <1>1, <1>4
<1>6. s \in DOMAIN NextStep \cup Ends
  BY <1>1, <1>2 DEF Ends
<1>7. QED
  BY <1>2, <1>4, <1>5, <1>6

(* The types, of which the last part follows from UrlChosen.               *)
PlainTypes ==
  /\ webhook \in {WebhookURL, <<>>}
  /\ file \in {Absent, Broken} \cup ConfigType
  /\ author \in Runs \cup {"other", "mixed"}
  /\ step \in [Runs -> DOMAIN NextStep \cup Ends]
  /\ request \in [Runs -> Requests]
  /\ url \in [Runs -> Text]
  /\ setAgain \subseteq Runs
  /\ faults \in 0..MaxFaults

(* What is known of the request of a run.                                  *)
LEMMA RequestsAreTyped ==
  ASSUME BootstrapTypeOK, NEW r \in Runs
  PROVE  request[r] \in RequestType /\ url[r] \in Text
BY BootstrapAssumption DEF BootstrapTypeOK

(* They are kept.                                                          *)
LEMMA TypesStep ==
  ASSUME BootstrapTypeOK, [Next]_vars
  PROVE  PlainTypes'
<1>1. PlainTypes
  BY DEF BootstrapTypeOK, PlainTypes, Ends
<1>2. ASSUME NEW r \in Runs, RunStep(r) \/ Kill(r) PROVE PlainTypes'
  <2>1. step' \in [Runs -> DOMAIN NextStep \cup Ends]
    BY <1>1, <1>2, StepOfRun DEF PlainTypes
  <2>2. request' = request
    BY <1>2 DEF RunStep, Kill, ParseFlags, GetWebhookInfo, GetMe,
         PrepareOutputPath, DeleteWebhook, VerifyWebhook, OpenFile, WriteFile,
         StepFails
  <2>3. faults' \in 0..MaxFaults
    <3>1. \/ faults' = faults
          \/ faults < MaxFaults /\ faults' = faults + 1
      BY <1>2 DEF RunStep, Kill, ParseFlags, GetWebhookInfo, GetMe,
           PrepareOutputPath, DeleteWebhook, VerifyWebhook, OpenFile, WriteFile,
           StepFails, Spend
    <3>2. QED
      BY <1>1, <3>1, BootstrapAssumption DEF PlainTypes
  <2>4. webhook' \in {webhook, <<>>}
    BY <1>2 DEF RunStep, Kill, ParseFlags, GetWebhookInfo, GetMe,
         PrepareOutputPath, DeleteWebhook, VerifyWebhook, OpenFile, WriteFile,
         StepFails
  <2>5. url' \in [Runs -> Text]
    <3>1. url' = url \/ url' = [url EXCEPT ![r] = BackendURL(r, webhook)]
      BY <1>2 DEF RunStep, Kill, ParseFlags, GetWebhookInfo, GetMe,
           PrepareOutputPath, DeleteWebhook, VerifyWebhook, OpenFile, WriteFile,
           StepFails
    <3>2. BackendURL(r, webhook) \in Text
      <4>1. webhook \in Text
        <5>1. <<>> \in Text /\ WebhookURL \in Text
          BY BootstrapAssumption DEF Text
        <5>2. QED
          BY <1>1, <5>1 DEF PlainTypes
      <4>2. Trim(request[r].backend_url) \in Text
        BY RequestsAreTyped, TrimType DEF RequestType
      <4>3. QED
        BY <4>1, <4>2 DEF BackendURL
    <3>3. QED
      BY <1>1, <3>1, <3>2 DEF PlainTypes
  <2>6. file' \in {file, Broken, ConfigOf(r)} /\ author' \in {author, r, "mixed"}
    BY <1>2 DEF RunStep, Kill, ParseFlags, GetWebhookInfo, GetMe,
         PrepareOutputPath, DeleteWebhook, VerifyWebhook, OpenFile, WriteFile,
         StepFails
  <2>7. ConfigOf(r) \in ConfigType
    BY RequestsAreTyped, ConfigOfType
  <2>8. setAgain' = setAgain
    BY <1>2 DEF RunStep, Kill, ParseFlags, GetWebhookInfo, GetMe,
         PrepareOutputPath, DeleteWebhook, VerifyWebhook, OpenFile, WriteFile,
         StepFails
  <2>9. QED
    BY <1>1, <2>1, <2>2, <2>3, <2>4, <2>5, <2>6, <2>7, <2>8 DEF PlainTypes
<1>3. CASE SetWebhook
  BY <1>1, <1>3, BootstrapAssumption DEF PlainTypes, SetWebhook, Spend
<1>4. CASE WriteForeign
  BY <1>1, <1>4, BootstrapAssumption DEF PlainTypes, WriteForeign, Spend
<1>5. CASE UNCHANGED vars
  BY <1>1, <1>5 DEF PlainTypes, vars
<1>6. QED
  BY <1>2, <1>3, <1>4, <1>5 DEF Next

(* What a run has made sure of stays true of it: its request does not      *)
(* change, and it asks for the webhook once.                               *)
ChosenWell(r) ==
  /\ PastURL(r) => /\ ValidURL(url[r])
                   /\ url[r] \in {WebhookURL, Trim(request[r].backend_url)}
  /\ PastNames(r) => TokenEnvValid(r)

LEMMA ChoiceStep ==
  ASSUME BootstrapTypeOK, UrlChosen, NamesChosen, [Next]_vars
  PROVE  UrlChosen' /\ NamesChosen'
<1>1. request' = request
  BY DEF Next, RunStep, Kill, ParseFlags, GetWebhookInfo, GetMe,
       PrepareOutputPath, DeleteWebhook, VerifyWebhook, OpenFile, WriteFile,
       StepFails, SetWebhook, WriteForeign, vars
<1>2. \A r : TokenEnvValid(r)' = TokenEnvValid(r)
  BY <1>1 DEF TokenEnvValid, TokenEnv
<1>3. ASSUME NEW r \in Runs, step'[r] = step[r], url'[r] = url[r]
      PROVE  ChosenWell(r)'
  BY <1>1, <1>2, <1>3
     DEF ChosenWell, UrlChosen, NamesChosen, PastURL, PastNames, Committed
<1>4. ASSUME NEW r \in Runs, RunStep(r) \/ Kill(r)
      PROVE  /\ ChosenWell(r)'
             /\ \A q \in Runs \ {r} : step'[q] = step[q] /\ url'[q] = url[q]
  <2>1. PICK s \in {"failed", "killed"} \cup {NextStep[step[r]]} :
          /\ step[r] \in DOMAIN NextStep
          /\ step'[r] = s /\ \A q \in Runs \ {r} : step'[q] = step[q]
    BY <1>4, StepOfRun
  <2>2. url \in [Runs -> Text] /\ webhook \in {WebhookURL, <<>>}
    BY DEF BootstrapTypeOK
  <2>3. CASE s \in {"failed", "killed"}
    <3>1. ~PastURL(r)' /\ ~PastNames(r)'
      BY <2>1, <2>3 DEF PastURL, PastNames, Committed
    <3>2. \A q \in Runs \ {r} : url'[q] = url[q]
      BY <1>4, <2>2 DEF RunStep, Kill, ParseFlags, GetWebhookInfo, GetMe,
           PrepareOutputPath, DeleteWebhook, VerifyWebhook, OpenFile, WriteFile,
           StepFails
    <3>3. QED
      BY <2>1, <3>1, <3>2 DEF ChosenWell
  <2>4. CASE GetWebhookInfo(r) /\ s = NextStep[step[r]]
    <3>1. s = "getMe" /\ ~PastNames(r)'
      BY <2>1, <2>4 DEF GetWebhookInfo, NextStep, PastNames, Committed
    <3>2. ValidBackendURL(url'[r])
      BY <2>1, <2>4, <3>1 DEF GetWebhookInfo, GoIf, GiveUp, BootstrapTypeOK
    <3>3. /\ url'[r] = BackendURL(r, webhook)
          /\ \A q \in Runs \ {r} : url'[q] = url[q]
      BY <2>2, <2>4 DEF GetWebhookInfo
    <3>4. url'[r] \in {WebhookURL, Trim(request'[r].backend_url)}
      BY <1>1, <2>2, <3>2, <3>3, ValidIsNotBlank DEF BackendURL, ValidBackendURL
    <3>5. QED
      BY <2>1, <3>1, <3>2, <3>3, <3>4 DEF ValidBackendURL, ChosenWell
  <2>5. CASE ~GetWebhookInfo(r) /\ s = NextStep[step[r]]
    <3>1. url' = url
      BY <1>4, <2>5 DEF RunStep, Kill, ParseFlags, GetMe,
           PrepareOutputPath, DeleteWebhook, VerifyWebhook, OpenFile, WriteFile,
           StepFails
    <3>2. s \notin {"failed", "killed"}
      BY <2>1, <2>5 DEF NextStep
    <3>3. step[r] # "getWebhookInfo"
      BY <1>4, <2>1, <2>5, <3>2 DEF RunStep, Kill, ParseFlags, GetMe,
           PrepareOutputPath, DeleteWebhook, VerifyWebhook, OpenFile, WriteFile,
           StepFails, GiveUp, BootstrapTypeOK
    <3>4. PastURL(r)' => PastURL(r)
      BY <2>1, <2>5, <3>3 DEF NextStep, PastURL, Committed
    <3>5. PastNames(r)' => TokenEnvValid(r)
      <4>1. PastNames(r)' => PastNames(r) \/ step[r] = "getMe"
        BY <2>1, <2>5 DEF NextStep, PastNames, Committed
      <4>2. step[r] = "getMe" => TokenEnvValid(r)
        BY <1>4, <2>1, <2>5, <3>2 DEF RunStep, Kill, ParseFlags, GetMe,
             PrepareOutputPath, DeleteWebhook, VerifyWebhook, OpenFile,
             WriteFile, StepFails, GoIf, GiveUp, BootstrapTypeOK
      <4>3. QED
        BY <4>1, <4>2 DEF NamesChosen
    <3>6. QED
      BY <1>1, <1>2, <2>1, <3>1, <3>4, <3>5 DEF UrlChosen, ChosenWell
  <2>6. QED
    BY <2>3, <2>4, <2>5
<1>5. CASE SetWebhook \/ WriteForeign \/ UNCHANGED vars
  <2>1. step' = step /\ url' = url
    BY <1>5 DEF SetWebhook, WriteForeign, vars
  <2>2. QED
    BY <1>3, <2>1 DEF UrlChosen, NamesChosen, ChosenWell
<1>6. CASE \E r \in Runs : RunStep(r) \/ Kill(r)
  <2>1. PICK r \in Runs : RunStep(r) \/ Kill(r)
    BY <1>6
  <2>2. ASSUME NEW q \in Runs \ {r} PROVE ChosenWell(q)'
    BY <1>3, <1>4, <2>1
  <2>3. QED
    BY <1>4, <2>1, <2>2 DEF UrlChosen, NamesChosen, ChosenWell
<1>7. QED
  BY <1>5, <1>6 DEF Next

(* With UrlChosen, the whole of type correctness is.                       *)
LEMMA TypeStep ==
  ASSUME BootstrapTypeOK, UrlChosen, NamesChosen, [Next]_vars
  PROVE  BootstrapTypeOK'
<1>1. PlainTypes' /\ UrlChosen'
  BY TypesStep, ChoiceStep
<1>2. ASSUME NEW r \in Runs,
             step'[r] \notin {"parseFlags", "getWebhookInfo", "failed", "killed"}
      PROVE  url'[r] # <<>>
  <2>1. step'[r] \in DOMAIN NextStep \cup Ends
    BY <1>1 DEF PlainTypes
  <2>2. PastURL(r)'
    BY <1>2, <2>1 DEF NextStep, Ends, PastURL, Committed
  <2>3. QED
    BY <1>1, <2>2, ValidIsNotBlank DEF UrlChosen
<1>3. QED
  BY <1>1, <1>2 DEF BootstrapTypeOK, PlainTypes, Ends

(* What a run that is done has written is what its flags, which do not     *)
(* change, and its URL, which it has decided on before, make it.           *)
LEMMA AuthenticStep ==
  ASSUME BootstrapTypeOK, Authentic, [Next]_vars
  PROVE  Authentic'
<1>1. SUFFICES ASSUME NEW q \in Runs, step'[q] = "done", author' = q
               PROVE  file' = ConfigOf(q)'
  BY DEF Authentic
<1>2. {"other", "mixed"} \cap Runs = {}
  BY BootstrapAssumption
<1>3. CASE \E r \in Runs : RunStep(r) \/ Kill(r)
  <2>1. PICK r \in Runs : RunStep(r) \/ Kill(r)
    BY <1>3
  <2>2. PICK s \in {"failed", "killed"} \cup {NextStep[step[r]]} :
          /\ step[r] \in DOMAIN NextStep
          /\ step'[r] = s /\ \A p \in Runs \ {r} : step'[p] = step[p]
    BY <2>1, StepOfRun
  <2>3. url \in [Runs -> Text]
    BY DEF BootstrapTypeOK
  <2>4. CASE q = r
    <3>1. step[r] = "write" /\ s = "done"
      BY <1>1, <2>2, <2>4 DEF NextStep
    <3>2. WriteFile(r)
      BY <2>1, <2>2, <3>1, <2>4 DEF RunStep, Kill, ParseFlags, GetWebhookInfo,
         GetMe, PrepareOutputPath, DeleteWebhook, VerifyWebhook, OpenFile,
         StepFails, GiveUp, BootstrapTypeOK
    <3>3. file' = ConfigOf(r) /\ request' = request /\ url' = url
      BY <1>1, <1>2, <3>2 DEF WriteFile
    <3>4. QED
      BY <2>4, <3>3 DEF ConfigOf, BotName, TokenValue, TokenEnv
  <2>5. CASE q # r
    <3>1. step[q] = "done" /\ author' # r /\ author' # "mixed"
      BY <1>1, <1>2, <2>2, <2>5
    <3>2. /\ UNCHANGED <<file, author, request>>
          /\ url'[q] = url[q]
      BY <2>1, <2>3, <2>5, <3>1 DEF RunStep, Kill, ParseFlags, GetWebhookInfo,
         GetMe, PrepareOutputPath, DeleteWebhook, VerifyWebhook, OpenFile,
         WriteFile, StepFails
    <3>3. ConfigOf(q)' = ConfigOf(q)
      BY <3>2 DEF ConfigOf, BotName, TokenValue, TokenEnv
    <3>4. QED
      BY <1>1, <3>1, <3>2, <3>3 DEF Authentic
  <2>6. QED
    BY <2>4, <2>5
<1>4. CASE SetWebhook \/ UNCHANGED vars
  <2>1. UNCHANGED <<file, author, step, request, url>>
    BY <1>4 DEF SetWebhook, vars
  <2>2. ConfigOf(q)' = ConfigOf(q)
    BY <2>1 DEF ConfigOf, BotName, TokenValue, TokenEnv
  <2>3. QED
    BY <1>1, <2>1, <2>2 DEF Authentic
<1>5. CASE WriteForeign
  BY <1>1, <1>2, <1>5 DEF WriteForeign
<1>6. QED
  BY <1>3, <1>4, <1>5 DEF Next

(* Only the legacy application sets the webhook, and only the verification *)
(* gets a run to where it has seen it gone.                                *)
LEMMA SeenGoneStep ==
  ASSUME BootstrapTypeOK, WebhookSeenGone, [Next]_vars
  PROVE  WebhookSeenGone'
<1>1. CASE \E r \in Runs : RunStep(r) \/ Kill(r)
  <2>1. PICK r \in Runs : RunStep(r) \/ Kill(r)
    BY <1>1
  <2>2. PICK s \in {"failed", "killed"} \cup {NextStep[step[r]]} :
          /\ step[r] \in DOMAIN NextStep
          /\ step'[r] = s /\ \A p \in Runs \ {r} : step'[p] = step[p]
    BY <2>1, StepOfRun
  <2>3. webhook' \in {webhook, <<>>} /\ setAgain' = setAgain
    BY <2>1 DEF RunStep, Kill, ParseFlags, GetWebhookInfo, GetMe,
       PrepareOutputPath, DeleteWebhook, VerifyWebhook, OpenFile, WriteFile,
       StepFails
  <2>4. ASSUME Verified(r)', ~Verified(r) PROVE webhook' = <<>>
    <3>1. step[r] = "verify" /\ s = "open"
      BY <2>2, <2>4 DEF Verified, NextStep
    <3>2. VerifyWebhook(r) /\ step'[r] # "failed"
      BY <2>1, <2>2, <3>1 DEF RunStep, Kill, ParseFlags, GetWebhookInfo, GetMe,
         PrepareOutputPath, DeleteWebhook, OpenFile, WriteFile, StepFails,
         GiveUp, BootstrapTypeOK
    <3>3. QED
      BY <3>2 DEF VerifyWebhook, GoIf, GiveUp, BootstrapTypeOK
  <2>5. QED
    BY <2>2, <2>3, <2>4 DEF WebhookSeenGone, Verified
<1>2. CASE SetWebhook
  BY <1>2 DEF SetWebhook, WebhookSeenGone, Verified
<1>3. CASE WriteForeign \/ UNCHANGED vars
  BY <1>3 DEF WriteForeign, vars, WebhookSeenGone, Verified
<1>4. QED
  BY <1>1, <1>2, <1>3 DEF Next

(* The webhook's URL, one action after the other.                          *)
LEMMA UrlKeptStep ==
  ASSUME BootstrapInv, Undisturbed', [Next]_vars
  PROVE  UrlKept'
<1> USE DEF BootstrapInv
<1>1. /\ webhook \in {WebhookURL, <<>>} /\ WebhookURL # <<>>
      /\ step \in [Runs -> DOMAIN NextStep \cup Ends]
      /\ url \in [Runs -> Text] /\ faults \in Nat
  BY BootstrapAssumption DEF BootstrapTypeOK, Ends
<1>2. faults = 0 /\ request' = request
  BY <1>1 DEF Undisturbed, Next, RunStep, Kill, ParseFlags, GetWebhookInfo,
     GetMe, PrepareOutputPath, DeleteWebhook, VerifyWebhook, OpenFile,
     WriteFile, StepFails, SetWebhook, WriteForeign, Spend, vars
<1>3. Undisturbed /\ UrlKept
  BY <1>2 DEF Undisturbed
<1>4. (\A r \in Runs : KnowsWebhook(r)) /\ SwitchHasAuthor /\ UrlWritten
  BY <1>3 DEF UrlKept
<1>5. CASE UNCHANGED vars
  BY <1>4, <1>5 DEF UrlKept, KnowsWebhook, SwitchHasAuthor, UrlWritten,
     UrlInFile, PastURL, Committed, Switched, vars
<1>6. ~(SetWebhook \/ WriteForeign)
  BY <1>2 DEF SetWebhook, WriteForeign, Spend, Undisturbed
<1>7. ASSUME NEW r \in Runs, RunStep(r) \/ Kill(r) PROVE UrlKept'
  <2>1. ~(StepFails(r) \/ Kill(r))
    BY <1>2 DEF StepFails, Kill, Spend, Undisturbed
  <2>2. PICK s \in {"failed", "killed"} \cup {NextStep[step[r]]} :
          /\ step[r] \in DOMAIN NextStep
          /\ step'[r] = s /\ \A q \in Runs \ {r} : step'[q] = step[q]
    BY <1>7, StepOfRun
  <2>3. CASE ParseFlags(r)
    <3>1. /\ UNCHANGED <<webhook, file, author, url>>
          /\ step[r] = "parseFlags" /\ s \in {"getWebhookInfo", "failed", "killed"}
      BY <2>2, <2>3 DEF ParseFlags, NextStep
    <3>2. \A q \in Runs : /\ PastURL(q)' <=> PastURL(q)
                          /\ Switched(q)' <=> Switched(q)
                          /\ step'[q] = "done" <=> step[q] = "done"
                          /\ step'[q] = "write" <=> step[q] = "write"
      BY <2>2, <3>1 DEF PastURL, Committed, Switched
    <3>3. QED
      BY <1>4, <3>1, <3>2
         DEF UrlKept, KnowsWebhook, SwitchHasAuthor, UrlWritten, UrlInFile
  <2>4. CASE GetWebhookInfo(r)
    <3>1. /\ UNCHANGED <<webhook, file, author>>
          /\ url'[r] = BackendURL(r, webhook)
          /\ \A q \in Runs \ {r} : url'[q] = url[q]
          /\ step[r] = "getWebhookInfo" /\ s \in {"getMe", "failed", "killed"}
          /\ GoIf(r, ValidBackendURL(url'[r]))
      BY <1>1, <2>2, <2>4 DEF GetWebhookInfo, NextStep
    <3>2. url'[r] = webhook
      BY <1>2, <3>1 DEF BackendURL, Undisturbed
    <3>3. \A q \in Runs : /\ Switched(q)' <=> Switched(q)
                          /\ q # r => (PastURL(q)' <=> PastURL(q))
                          /\ step'[q] = "done" <=> step[q] = "done"
                          /\ step'[q] = "write" <=> step[q] = "write"
      BY <2>2, <3>1 DEF PastURL, Committed, Switched
    <3>4. PastURL(r)' => url'[r] = WebhookURL
      <4>1. PastURL(r)' => ValidBackendURL(url'[r])
        BY <1>1, <2>2, <3>1 DEF GoIf, GiveUp, PastURL, Committed
      <4>2. QED
        BY <1>1, <3>2, <4>1, ValidIsNotBlank DEF ValidBackendURL
    <3>5. \A q \in Runs : KnowsWebhook(q)'
      BY <1>1, <1>4, <3>1, <3>2, <3>3, <3>4 DEF KnowsWebhook
    <3>6. SwitchHasAuthor'
      BY <1>1, <1>4, <3>1, <3>2, <3>3 DEF SwitchHasAuthor
    <3>7. UrlWritten'
      BY <1>4, <3>1, <3>3 DEF UrlWritten, UrlInFile
    <3>8. QED
      BY <3>5, <3>6, <3>7 DEF UrlKept
  <2>5. CASE GetMe(r) \/ PrepareOutputPath(r)
    <3>1. /\ UNCHANGED <<webhook, file, author, url>>
          /\ step[r] \in {"getMe", "preparePath"}
          /\ s \in {"preparePath", "deleteWebhook", "failed", "killed"}
      BY <2>2, <2>5 DEF GetMe, PrepareOutputPath, NextStep
    <3>2. \A q \in Runs : /\ PastURL(q)' => PastURL(q)
                          /\ Switched(q)' <=> Switched(q)
                          /\ step'[q] = "done" <=> step[q] = "done"
                          /\ step'[q] = "write" <=> step[q] = "write"
      BY <2>2, <3>1 DEF PastURL, Committed, Switched
    <3>3. QED
      BY <1>4, <3>1, <3>2
         DEF UrlKept, KnowsWebhook, SwitchHasAuthor, UrlWritten, UrlInFile
  <2>6. CASE DeleteWebhook(r)
    <3>1. /\ UNCHANGED <<file, author, url>> /\ webhook' = <<>>
          /\ step[r] = "deleteWebhook" /\ step'[r] = "verify"
      BY <1>1, <2>6 DEF DeleteWebhook, Go, NextStep
    <3>2. /\ \A q \in Runs : /\ PastURL(q)' <=> PastURL(q)
                             /\ step'[q] = "done" <=> step[q] = "done"
                             /\ step'[q] = "write" <=> step[q] = "write"
          /\ Switched(r)'
      BY <2>2, <3>1 DEF PastURL, Committed, Switched
    <3>3. QED
      BY <1>4, <3>1, <3>2
         DEF UrlKept, KnowsWebhook, SwitchHasAuthor, UrlWritten, UrlInFile
  <2>7. CASE VerifyWebhook(r)
    <3>1. UNCHANGED <<webhook, file, author, url>> /\ step[r] = "verify"
      BY <2>7 DEF VerifyWebhook
    <3>2. webhook = <<>>
      BY <1>4, <3>1 DEF SwitchHasAuthor, Switched
    <3>3. step'[r] = "open"
      BY <1>1, <2>7, <3>1, <3>2 DEF VerifyWebhook, GoIf, Go, NextStep
    <3>4. \A q \in Runs : /\ PastURL(q)' <=> PastURL(q)
                          /\ Switched(q)' <=> Switched(q)
                          /\ step'[q] = "done" <=> step[q] = "done"
                          /\ step'[q] = "write" <=> step[q] = "write"
      BY <2>2, <3>1, <3>3 DEF PastURL, Committed, Switched
    <3>5. QED
      BY <1>4, <3>1, <3>4
         DEF UrlKept, KnowsWebhook, SwitchHasAuthor, UrlWritten, UrlInFile
  <2>8. CASE OpenFile(r)
    <3>1. /\ UNCHANGED <<webhook, url>>
          /\ step[r] = "open" /\ step'[r] = "write"
      BY <1>1, <2>8 DEF OpenFile, Go, NextStep
    <3>2. \A q \in Runs : /\ PastURL(q)' <=> PastURL(q)
                          /\ Switched(q)' <=> Switched(q)
      BY <2>2, <3>1 DEF PastURL, Committed, Switched
    <3>3. QED
      BY <1>4, <3>1, <3>2 DEF UrlKept, KnowsWebhook, SwitchHasAuthor, UrlWritten
  <2>9. CASE WriteFile(r)
    <3>1. /\ UNCHANGED <<webhook, url>>
          /\ step[r] = "write" /\ step'[r] = "done"
          /\ file' = ConfigOf(r) \/ author' = "mixed"
      BY <1>1, <2>9 DEF WriteFile, Go, NextStep
    <3>2. \A q \in Runs : /\ PastURL(q)' <=> PastURL(q)
                          /\ Switched(q)' <=> Switched(q)
      BY <2>2, <3>1 DEF PastURL, Committed, Switched
    <3>3. url[r] = WebhookURL
      BY <1>4, <3>1 DEF KnowsWebhook, PastURL, Committed
    <3>4. UrlWritten'
      BY <3>1, <3>3 DEF UrlWritten, UrlInFile, ConfigOf
    <3>5. QED
      BY <1>4, <3>1, <3>2, <3>4 DEF UrlKept, KnowsWebhook, SwitchHasAuthor
  <2>10. QED
    BY <1>7, <2>1, <2>3, <2>4, <2>5, <2>6, <2>7, <2>8, <2>9 DEF RunStep
<1>8. QED
  BY <1>5, <1>6, <1>7 DEF Next

(* The invariant holds at the start.                                       *)
LEMMA BootstrapInit ==
  ASSUME Init
  PROVE  BootstrapInv
<1>1. /\ webhook \in {WebhookURL, <<>>} /\ file \in {Absent} \cup Foreign
      /\ author = "other" /\ faults = 0 /\ setAgain = {}
      /\ request \in [Runs -> Requests]
      /\ \A r \in Runs : step[r] = "parseFlags" /\ url[r] = <<>>
      /\ step \in [Runs -> {"parseFlags"}] /\ url \in [Runs -> {<<>>}]
  BY DEF Init
<1>2. BootstrapTypeOK
  <2>1. "parseFlags" \in DOMAIN NextStep /\ <<>> \in Text
    BY DEF NextStep, Text
  <2>2. QED
    BY <1>1, <2>1, BootstrapAssumption DEF BootstrapTypeOK
<1>3. \A r \in Runs : /\ ~PastURL(r) /\ ~PastNames(r) /\ ~Switched(r)
                      /\ step[r] \notin {"done", "write", "open"}
  BY <1>1 DEF PastURL, PastNames, Committed, Switched
<1>4. UrlChosen /\ NamesChosen /\ Authentic /\ WebhookSeenGone
  BY <1>3 DEF UrlChosen, NamesChosen, Authentic, WebhookSeenGone, Verified
<1>5. UrlKept
  BY <1>1, <1>3, BootstrapAssumption
     DEF UrlKept, KnowsWebhook, SwitchHasAuthor, UrlWritten
<1>6. QED
  BY <1>2, <1>4, <1>5 DEF BootstrapInv

(* Why the configuration is usable and the webhook's URL not forgotten.    *)
THEOREM BootstrapInvariant == Spec => []BootstrapInv
<1>1. Init => BootstrapInv
  BY BootstrapInit
<1>2. BootstrapInv /\ [Next]_vars => BootstrapInv'
  <2>1. SUFFICES ASSUME BootstrapInv, [Next]_vars PROVE BootstrapInv'
    OBVIOUS
  <2>2. /\ BootstrapTypeOK /\ UrlChosen /\ NamesChosen /\ Authentic
        /\ WebhookSeenGone
    BY <2>1 DEF BootstrapInv
  <2>3. BootstrapTypeOK' /\ UrlChosen' /\ NamesChosen'
    BY <2>1, <2>2, TypeStep, ChoiceStep
  <2>4. Authentic' /\ WebhookSeenGone'
    BY <2>1, <2>2, AuthenticStep, SeenGoneStep
  <2>5. Undisturbed' => UrlKept'
    BY <2>1, UrlKeptStep
  <2>6. QED
    BY <2>3, <2>4, <2>5 DEF BootstrapInv
<1>3. QED
  BY <1>1, <1>2, PTL DEF Spec

(* Type correctness (BootstrapTypeOK): above all, a run that has passed    *)
(* the verification knows a back end to write down (generator.go 78-112).  *)
THEOREM BootstrapTypeCorrect == Spec => []BootstrapTypeOK
<1>1. BootstrapInv => BootstrapTypeOK
  BY DEF BootstrapInv
<1>2. QED
  BY <1>1, BootstrapInvariant, PTL

(* A run that reports success leaves the bot in polling mode, as far as it *)
(* is up to the run (generator.go 132-143).                                *)
THEOREM SuccessMeansPolling == Spec => []SuccessInPollingMode
<1>1. BootstrapInv => SuccessInPollingMode
  BY DEF BootstrapInv, WebhookSeenGone, SuccessInPollingMode, Verified
<1>2. QED
  BY <1>1, BootstrapInvariant, PTL

(* The URL of the legacy back end is in the file or in the hands of a run  *)
(* that will write it, from the moment the webhook is gone.                *)
THEOREM UrlIsNotForgotten == Spec => []UrlNotForgotten
<1>1. BootstrapInv => UrlNotForgotten
  <2>1. SUFFICES ASSUME BootstrapInv, faults = 0, author # "mixed",
                        webhook = <<>>, \E r \in Runs : url[r] = WebhookURL,
                        \A r \in Runs : Trim(request[r].backend_url) = <<>>
                 PROVE  \/ UrlInFile
                        \/ \E r \in Runs : Running(r) /\ url[r] = WebhookURL
    BY DEF UrlNotForgotten, UrlInFile
  <2>2. (\A r \in Runs : KnowsWebhook(r)) /\ SwitchHasAuthor /\ UrlWritten
    BY <2>1 DEF BootstrapInv, Undisturbed, UrlKept
  <2>3. PICK r \in Runs : Switched(r)
    BY <2>1, <2>2 DEF SwitchHasAuthor
  <2>4. PICK q \in Runs : step[q] \in {"verify", "open", "write"} \/ UrlInFile
    BY <2>1, <2>2, <2>3 DEF Switched, UrlWritten
  <2>5. step[q] \in {"verify", "open", "write"} =>
          Running(q) /\ url[q] = WebhookURL
    BY <2>2 DEF Running, NextStep, KnowsWebhook, PastURL, Committed
  <2>6. QED
    BY <2>4, <2>5
<1>2. QED
  BY <1>1, BootstrapInvariant, PTL

-----------------------------------------------------------------------------
(* The config that a run writes, as config.Load reads it.                  *)

(* The bot that is asked for.                                              *)
Asked(r) == [name |-> BotName(r), token |-> Token, backend_url |-> url[r],
             secret_token |-> Trim(request[r].secret_token),
             drop |-> request[r].drop]

(* The token comes out of the file as it is, or out of its variable, and   *)
(* nothing in that breaks the JSON around it.                              *)
LEMMA TokenIsLoaded ==
  ASSUME NEW r, request[r] \in RequestType, TokenEnvValid(r), Faithful(r)
  PROVE  /\ Trim(Expand(Env, TokenValue(r))) = Token
         /\ \A word \in ToSet(TokenValue(r)) :
              word \in DOMAIN Env => Quote \notin ToSet(Env[word])
<1>1. CASE request[r].inline_token
  <2>1. TokenValue(r) = Token
    BY <1>1 DEF TokenValue, Faithful
  <2>2. Token \in Text /\ ToSet(Token) \cap DOMAIN Env = {} /\ Trim(Token) = Token
    BY BootstrapAssumption
  <2>3. Expand(Env, Token) = Token
    BY <2>2, ExpandKeeps
  <2>4. QED
    BY <2>1, <2>2, <2>3
<1>2. CASE ~request[r].inline_token
  <2>1. PICK name \in DOMAIN Env : TokenEnv(r) = <<name>>
    BY <1>2 DEF TokenEnvValid
  <2>2. TokenValue(r) = <<name>>
    BY <1>2, <2>1 DEF TokenValue
  <2>3. Trim(Expand(Env, <<name>>)) = Token /\ Quote \notin ToSet(Token)
    BY <1>2, <2>1 DEF Faithful
  <2>4. Env \in [DOMAIN Env -> Text] /\ Env[name] \in Text /\ name \in STRING
    BY BootstrapAssumption
  <2>5. Expand(Env, <<name>>) = Env[name]
    BY <2>4, ExpandVariable
  <2>6. ToSet(Env[name]) \subseteq ToSet(Token) \cup {Blank}
    BY <2>3, <2>4, <2>5, TrimType
  <2>7. Quote \notin ToSet(Env[name])
    BY <2>3, <2>6 DEF Quote, Blank
  <2>8. ToSet(<<name>>) = {name}
    BY <2>4, WordIsText
  <2>9. QED
    BY <2>2, <2>3, <2>7, <2>8
<1>3. QED
  BY <1>1, <1>2

(* From the file that a run writes, the bridge loads the bot that was      *)
(* asked for.                                                              *)
LEMMA WrittenIsLoaded ==
  ASSUME BootstrapInv, NEW r \in Runs, Committed(r), Faithful(r)
  PROVE  /\ NormalizedBots(Env, ConfigOf(r).bots) = <<Asked(r)>>
         /\ ~LoadFails(Env, ConfigOf(r))
<1> DEFINE secret == Trim(request[r].secret_token)
           bot == [name |-> BotName(r), token |-> TokenValue(r),
                   backend_url |-> url[r], secret_token |-> secret,
                   drop |-> request[r].drop]
<1>1. /\ request[r] \in RequestType /\ url[r] \in Text
      /\ request[r].secret_token \in Text /\ request[r].backend_url \in Text
  BY RequestsAreTyped DEF BootstrapInv, RequestType
<1>2. /\ TokenEnvValid(r) /\ ValidURL(url[r])
      /\ url[r] \in {WebhookURL, Trim(request[r].backend_url)}
  BY DEF BootstrapInv, UrlChosen, NamesChosen, PastURL, PastNames
<1>3. /\ BotName(r) \in Text /\ BotName(r) # <<>>
      /\ Trim(Expand(Env, BotName(r))) = BotName(r)
      /\ ToSet(BotName(r)) \cap DOMAIN Env = {}
  BY <1>1, BotNameSafe, ExpandKeeps
<1>4. /\ Trim(Expand(Env, TokenValue(r))) = Token
      /\ \A word \in ToSet(TokenValue(r)) :
           word \in DOMAIN Env => Quote \notin ToSet(Env[word])
  BY <1>1, <1>2, TokenIsLoaded
<1>5. /\ ToSet(url[r]) \cap DOMAIN Env = {}
      /\ Trim(Expand(Env, url[r])) = url[r]
  <2>1. ToSet(url[r]) \cap DOMAIN Env = {}
    BY DEF Faithful
  <2>2. Expand(Env, url[r]) = url[r]
    BY <1>1, <2>1, ExpandKeeps
  <2>3. Trim(url[r]) = url[r]
    BY <1>1, <1>2, TrimTwice, BootstrapAssumption
  <2>4. QED
    BY <2>1, <2>2, <2>3
<1>6. /\ ToSet(secret) \cap DOMAIN Env = {}
      /\ Trim(Expand(Env, secret)) = secret
  <2>1. ToSet(request[r].secret_token) \cap DOMAIN Env = {}
    BY DEF Faithful
  <2>2. secret \in Text /\ ToSet(secret) \subseteq ToSet(request[r].secret_token)
    BY <1>1, TrimType
  <2>3. ToSet(secret) \cap DOMAIN Env = {}
    BY <2>1, <2>2
  <2>4. Expand(Env, secret) = secret
    BY <2>2, <2>3, ExpandKeeps
  <2>5. Trim(secret) = secret
    BY <1>1, TrimTwice
  <2>6. QED
    BY <2>3, <2>4, <2>5
<1> HIDE DEF secret
<1>7. ConfigOf(r).bots = <<bot>> /\ ConfigOf(r).state = "complete"
  BY DEF ConfigOf, secret
<1>8. NormalizeBot(ExpandBot(Env, bot), 1) = Asked(r)
  <2>1. ExpandBot(Env, bot) =
          [name |-> Expand(Env, BotName(r)), token |-> Expand(Env, TokenValue(r)),
           backend_url |-> Expand(Env, url[r]),
           secret_token |-> Expand(Env, secret), drop |-> request[r].drop]
    BY DEF ExpandBot
  <2>2. QED
    BY <1>3, <1>4, <1>5, <1>6, <2>1 DEF NormalizeBot, Asked, secret
<1> HIDE DEF bot
<1>9. NormalizedBots(Env, ConfigOf(r).bots) = <<Asked(r)>>
  <2>1. NormalizedBots(Env, <<bot>>) =
          [i \in {1} |-> NormalizeBot(ExpandBot(Env, bot), i)]
    <3>1. DOMAIN <<bot>> = {1} /\ <<bot>>[1] = bot
      OBVIOUS
    <3>2. QED
      BY <3>1 DEF NormalizedBots
  <2>2. <<Asked(r)>> = [i \in {1} |-> Asked(r)]
    <3>1. 1..1 = {1}
      OBVIOUS
    <3>2. QED
      BY <3>1
  <2>3. QED
    BY <1>7, <1>8, <2>1, <2>2
<1>10. Parses(Env, ConfigOf(r))
  <2>1. ToSet(ConfigOf(r).bots) = {bot}
    BY <1>7, Singleton
  <2>2. ASSUME NEW word \in UNION {ToSet(bot.name), ToSet(bot.token),
                         ToSet(bot.backend_url), ToSet(bot.secret_token)},
               word \in DOMAIN Env
        PROVE  Quote \notin ToSet(Env[word])
    BY <1>3, <1>4, <1>5, <1>6, <2>2 DEF bot
  <2>3. QED
    BY <1>7, <2>1, <2>2 DEF Parses
<1>11. ValidBots(<<Asked(r)>>)
  <2>1. DOMAIN <<Asked(r)>> = {1} /\ <<Asked(r)>>[1] = Asked(r)
    OBVIOUS
  <2>2. Token # <<>>
    BY BootstrapAssumption
  <2>3. /\ Asked(r).name # <<>> /\ Asked(r).token # <<>>
        /\ ValidURL(Asked(r).backend_url)
    BY <1>2, <1>3, <2>2 DEF Asked
  <2>4. QED
    BY <2>1, <2>3 DEF ValidBots
<1>12. QED
  BY <1>9, <1>10, <1>11 DEF LoadFails

(* A run that is about to take the webhook away will leave a config that   *)
(* loads: what generator.go 78-112 has made sure of is what config.go      *)
(* asks for.                                                               *)
THEOREM ReadyToSwitch == Spec => []ReadyBeforeSwitch
<1>1. BootstrapInv => ReadyBeforeSwitch
  BY WrittenIsLoaded DEF ReadyBeforeSwitch
<1>2. QED
  BY <1>1, BootstrapInvariant, PTL

(* A reported success is one: the file says what was asked for, also after *)
(* other attempts at the same time.                                        *)
THEOREM SuccessMeansUsable == Spec => []SuccessIsUsable
<1>1. BootstrapInv => SuccessIsUsable
  <2>1. SUFFICES ASSUME BootstrapInv, NEW r \in Runs, step[r] = "done",
                        author = r, Faithful(r)
                 PROVE  /\ ~LoadFails(Env, file)
                        /\ LET bots == Load(Env, file).Bots IN
                             /\ Len(bots) = 1
                             /\ bots[1].token = Token
                             /\ bots[1].backend_url \in
                                  {WebhookURL, Trim(request[r].backend_url)}
                             /\ bots[1].secret_token =
                                  Trim(request[r].secret_token)
                             /\ bots[1].drop = request[r].drop
    BY DEF SuccessIsUsable
  <2>2. file = ConfigOf(r)
    BY <2>1 DEF BootstrapInv, Authentic
  <2>3. /\ NormalizedBots(Env, file.bots) = <<Asked(r)>>
        /\ ~LoadFails(Env, file)
    BY <2>1, <2>2, WrittenIsLoaded DEF Committed
  <2>4. Load(Env, file).Bots = <<Asked(r)>>
    BY <2>3 DEF Load
  <2>5. url[r] \in {WebhookURL, Trim(request[r].backend_url)}
    BY <2>1 DEF BootstrapInv, UrlChosen, PastURL, Committed
  <2>6. QED
    BY <2>3, <2>4, <2>5 DEF Asked
<1>2. QED
  BY <1>1, BootstrapInvariant, PTL

-----------------------------------------------------------------------------
(* Whatever config.Load returns, from whatever file.                       *)

(* positiveOrDefault does what its name says.                              *)
LEMMA PositiveIsPositive ==
  ASSUME NEW value \in Int, NEW fallback \in Int, fallback > 0
  PROVE  /\ PositiveOrDefault(value, fallback) \in Int
         /\ PositiveOrDefault(value, fallback) > 0
BY DEF PositiveOrDefault

(* The numbers after the defaults, whatever the file says.                 *)
LEMMA NumbersAreSafe ==
  ASSUME NEW numbers \in [DOMAIN DefaultNumbers -> Int]
  PROVE  LET normal == NormalizeNumbers(numbers) IN
         /\ \A key \in DOMAIN DefaultNumbers :
              normal[key] \in Int /\ normal[key] > 0
         /\ normal.polling_limit \in 1..100
         /\ normal.retry_initial_delay_ms <= normal.retry_max_delay_ms
<1> DEFINE keys == {"polling_timeout_seconds", "polling_limit",
                    "backend_timeout_seconds", "telegram_timeout_seconds",
                    "retry_initial_delay_ms", "retry_max_delay_ms"}
           positive == [key \in DOMAIN DefaultNumbers |->
                          PositiveOrDefault(numbers[key], DefaultNumbers[key])]
<1>1. DOMAIN DefaultNumbers = keys
  BY DEF DefaultNumbers
<1>2. \A key \in keys : DefaultNumbers[key] \in Int /\ DefaultNumbers[key] > 0
  BY DEF DefaultNumbers
<1>3. positive \in [keys -> Int] /\ \A key \in keys : positive[key] > 0
  <2>1. ASSUME NEW key \in keys PROVE positive[key] \in Int /\ positive[key] > 0
    <3>1. positive[key] = PositiveOrDefault(numbers[key], DefaultNumbers[key])
      BY <1>1
    <3> HIDE DEF positive, keys
    <3>2. key \in DOMAIN DefaultNumbers
      BY <1>1
    <3>3. numbers[key] \in Int
      BY <3>2
    <3>4. DefaultNumbers[key] \in Int /\ DefaultNumbers[key] > 0
      BY <1>2, <2>1
    <3>5. QED
      BY <3>1, <3>3, <3>4, PositiveIsPositive
  <2>2. positive = [key \in keys |-> positive[key]]
    BY <1>1
  <2> HIDE DEF positive
  <2>3. QED
    BY <2>1, <2>2
<1>4. DefaultNumbers.polling_limit = 100
  BY DEF DefaultNumbers
<1> DEFINE limit == IF positive.polling_limit > 100 THEN 100
                                                 ELSE positive.polling_limit
           most == IF positive.retry_max_delay_ms
                        < positive.retry_initial_delay_ms
                     THEN positive.retry_initial_delay_ms
                     ELSE positive.retry_max_delay_ms
<1>5. NormalizeNumbers(numbers) =
        [positive EXCEPT !.polling_limit = limit, !.retry_max_delay_ms = most]
  BY <1>4 DEF NormalizeNumbers
<1> HIDE DEF positive
<1>6. /\ limit \in 1..100 /\ most \in Int /\ most > 0
      /\ positive.retry_initial_delay_ms <= most
  BY <1>3
<1> HIDE DEF limit, most
<1>7. /\ NormalizeNumbers(numbers).polling_limit = limit
      /\ NormalizeNumbers(numbers).retry_max_delay_ms = most
      /\ \A key \in keys \ {"polling_limit", "retry_max_delay_ms"} :
           NormalizeNumbers(numbers)[key] = positive[key]
  BY <1>3, <1>5
<1>8. QED
  BY <1>1, <1>3, <1>6, <1>7

(* A duration that fits is what the number says.                           *)
LEMMA DurationFits ==
  ASSUME NEW number \in Int, NEW unit \in Nat, 0 < number * unit,
         number * unit < DurationLimit
  PROVE  Duration(number, unit) = number * unit
<1> DEFINE product == number * unit
<1>1. product \in Int /\ DurationLimit \in Nat \ {0}
  BY DurationLimitAssumption
<1> HIDE DEF product
<1>2. 0 < product /\ product < DurationLimit
  BY DEF product
<1>3. (product + DurationLimit) % (2 * DurationLimit) = product + DurationLimit
  BY <1>1, <1>2
<1>4. QED
  BY <1>1, <1>3 DEF Duration, product

(* A default name is not blank and has no white space at its ends.         *)
LEMMA DefaultNameSafe ==
  ASSUME NEW i \in Nat \ {0}
  PROVE  Trim(DefaultName(i)) = DefaultName(i) /\ DefaultName(i) # <<>>
<1> DEFINE strokes == [stroke \in 1..i |-> "I"]
<1>1. "bot-" \in STRING /\ "I" \in STRING
  BY WordAssumption
<1>2. strokes \in Text /\ Len(strokes) = i
  <2>1. strokes \in [1..i -> STRING]
    BY <1>1
  <2> HIDE DEF strokes
  <2>2. QED
    BY <2>1 DEF Text
<1>3. <<"bot-">> \in Text /\ Len(<<"bot-">>) = 1 /\ <<"bot-">>[1] = "bot-"
  BY <1>1, WordIsText
<1>4. strokes[i] = "I"
  OBVIOUS
<1> HIDE DEF strokes
<1>5. DefaultName(i) = <<"bot-">> \o strokes
  BY DEF DefaultName, strokes
<1>6. /\ DefaultName(i) \in Text /\ Len(DefaultName(i)) = 1 + i
      /\ DefaultName(i)[1] = "bot-" /\ DefaultName(i)[1 + i] = "I"
  BY <1>2, <1>3, <1>4, <1>5, ConcatProperties DEF Text
<1>7. Trim(DefaultName(i)) = DefaultName(i)
  BY <1>6, TrimKeeps DEF Blank
<1>8. QED
  BY <1>6, <1>7

(* A configuration that loads names the bots apart, names a token and a    *)
(* back end for each, and has the numbers that the bridge relies on.       *)
THEOREM LoadIsSafe == Spec => []LoadedIsSafe
<1>1. BootstrapTypeOK => LoadedIsSafe
  <2>1. SUFFICES ASSUME BootstrapTypeOK, ~LoadFails(Env, file) PROVE LoadedIsSafe
    BY DEF LoadedIsSafe
  <2> DEFINE bots == NormalizedBots(Env, file.bots)
             normal == NormalizeNumbers(file.numbers)
  <2>2. Parses(Env, file) /\ ValidBots(bots)
    BY <2>1 DEF LoadFails
  <2>3. file \in ConfigType
    BY <2>1, <2>2 DEF BootstrapTypeOK, Parses, Absent, Broken
  <2>4. /\ file.numbers \in [DOMAIN DefaultNumbers -> Int]
        /\ file.bots \in Seq(BotType)
    BY <2>3 DEF ConfigType
  <2>5. /\ \A key \in DOMAIN DefaultNumbers :
             normal[key] \in Int /\ normal[key] > 0
        /\ normal.polling_limit \in 1..100
        /\ normal.retry_initial_delay_ms <= normal.retry_max_delay_ms
    BY <2>4, NumbersAreSafe
  <2>6. ASSUME NEW i \in DOMAIN bots
        PROVE  \A text \in {bots[i].name, bots[i].token, bots[i].backend_url} :
                 Trim(text) = text
    <3>1. /\ i \in DOMAIN file.bots
          /\ bots[i] = NormalizeBot(ExpandBot(Env, file.bots[i]), i)
      BY DEF NormalizedBots
    <3>2. file.bots[i] \in BotType /\ i \in Nat \ {0}
      BY <2>4, <3>1
    <3>3. PICK bot \in BotType : bots[i] = NormalizeBot(ExpandBot(Env, bot), i)
      BY <3>1, <3>2
    <3>4. \A text \in {bot.name, bot.token, bot.backend_url} :
            Expand(Env, text) \in Text
      BY ExpandType, BootstrapAssumption DEF BotType
    <3> HIDE DEF bots
    <3>5. /\ bots[i].name \in {DefaultName(i), Trim(Expand(Env, bot.name))}
          /\ bots[i].token = Trim(Expand(Env, bot.token))
          /\ bots[i].backend_url = Trim(Expand(Env, bot.backend_url))
      BY <3>3 DEF NormalizeBot, ExpandBot
    <3>6. QED
      BY <3>2, <3>4, <3>5, TrimTwice, DefaultNameSafe
  <2>7. /\ Load(Env, file).Bots = bots
        /\ Load(Env, file).PollingLimit = normal.polling_limit
        /\ Load(Env, file).PollingTimeout =
             Duration(normal.polling_timeout_seconds, 1000)
        /\ Load(Env, file).RetryInitialDelay =
             Duration(normal.retry_initial_delay_ms, 1)
        /\ Load(Env, file).RetryMaxDelay = Duration(normal.retry_max_delay_ms, 1)
    BY DEF Load
  <2>8. /\ bots # <<>>
        /\ \A i, j \in DOMAIN bots : bots[i].name = bots[j].name => i = j
        /\ \A bot \in ToSet(bots) :
             /\ <<>> \notin {bot.name, bot.token}
             /\ \A text \in {bot.name, bot.token, bot.backend_url} :
                  Trim(text) = text
    <3> HIDE DEF bots
    <3>1. QED
      BY <2>2, <2>6 DEF ValidBots, ToSet
  <2>9. {"polling_timeout_seconds", "retry_initial_delay_ms",
         "retry_max_delay_ms"} \subseteq DOMAIN DefaultNumbers
    BY DEF DefaultNumbers
  <2>10. normal.polling_timeout_seconds * 1000 < DurationLimit =>
           Duration(normal.polling_timeout_seconds, 1000) > 0
    <3> HIDE DEF normal
    <3>1. /\ normal.polling_timeout_seconds \in Int
          /\ normal.polling_timeout_seconds > 0
      BY <2>5, <2>9
    <3>2. normal.polling_timeout_seconds * 1000 > 0
      BY <3>1
    <3>3. QED
      BY <3>1, <3>2, DurationFits
  <2>11. normal.retry_max_delay_ms * 1 < DurationLimit =>
           /\ 0 < Duration(normal.retry_initial_delay_ms, 1)
           /\ Duration(normal.retry_initial_delay_ms, 1)
                <= Duration(normal.retry_max_delay_ms, 1)
    <3> HIDE DEF normal
    <3>1. PICK initial \in Int, most \in Int :
            /\ initial = normal.retry_initial_delay_ms
            /\ most = normal.retry_max_delay_ms
            /\ 0 < initial /\ initial <= most
      BY <2>5, <2>9
    <3>2. initial * 1 = initial /\ most * 1 = most /\ DurationLimit \in Int
      BY DurationLimitAssumption
    <3>3. most < DurationLimit =>
            Duration(initial, 1) = initial /\ Duration(most, 1) = most
      BY <3>1, <3>2, DurationFits
    <3>4. QED
      BY <3>1, <3>2, <3>3
  <2>12. QED
    <3> HIDE DEF bots
    <3>1. QED
      BY <2>5, <2>7, <2>8, <2>10, <2>11 DEF LoadedIsSafe
<1>2. QED
  BY <1>1, BootstrapTypeCorrect, PTL

=============================================================================
