---------------------------- MODULE ReadersProofs ----------------------------
(***************************************************************************)
(* Proofs about the ways out of the ledger: what becomes of bundles        *)
(* (module Okf), what a scan reports and masks (module SafetyScan), what a *)
(* recall hands over and leaves out (module Recall), and how the           *)
(* frontmatter of a bundle's documents is read back (module Formats).      *)
(***************************************************************************)
EXTENDS Readers, Formats, Rulesets, SequenceTheorems, FiniteSetTheorems, WellFoundedInduction, TLAPS

-----------------------------------------------------------------------------
(***************************************************************************)
(* Texts                                                                   *)
(***************************************************************************)
\* A set of numbers has a least one, and a greatest if it has a bound.
LEMMA Least ==
    ASSUME NEW ids \in SUBSET Nat, ids # {}
    PROVE  \E u \in ids : \A w \in ids : u <= w
<1> DEFINE R == {p \in Nat \X Nat : p[1] < p[2]}
<1>1. IsWellFoundedOn(R, Nat)
  BY NatLessThanWellFounded DEF OpToRel
<1>2. PICK u \in ids : \A w \in ids : <<w, u>> \notin R
  BY <1>1, WFMin
<1>3. ASSUME NEW w \in ids PROVE u <= w
  <2>1. <<w, u>> \notin R
    BY <1>2
  <2>2. w \in Nat /\ u \in Nat
    OBVIOUS
  <2>3. ~(w < u)
    BY <2>1, <2>2
  <2> QED BY <2>2, <2>3
<1> QED BY <1>3

LEMMA Greatest ==
    ASSUME NEW n \in Nat, NEW ids \in SUBSET (0 .. n), ids # {}
    PROVE  \E u \in ids : \A w \in ids : w <= u
<1> DEFINE below == {n - i : i \in ids}
<1>1. below \in SUBSET Nat /\ below # {}
  <2>1. \A i \in ids : n - i \in Nat
    OBVIOUS
  <2>2. below \subseteq Nat
    BY <2>1
  <2>3. below # {}
    OBVIOUS
  <2> QED BY <2>2, <2>3
<1>2. PICK v \in below : \A w \in below : v <= w
  BY <1>1, Least
<1>3. PICK u \in ids : v = n - u
  OBVIOUS
<1>4. ASSUME NEW w \in ids PROVE w <= u
  <2>1. n - w \in below
    OBVIOUS
  <2>2. v <= n - w
    BY <1>2, <2>1
  <2> QED BY <2>2, <1>3
<1> QED BY <1>4

LEMMA Part ==
    ASSUME NEW S, NEW t \in Seq(S), NEW m \in Nat \ {0}, NEW n \in Nat, n <= Len(t)
    PROVE  SubSeq(t, m, n) \in Seq(S) /\ Len(SubSeq(t, m, n)) <= Len(t)
<1>1. \A i \in m .. n : t[i] \in S
  BY ElementOfSeq
<1>2. Len(t) \in Nat
  BY LenProperties
<1> QED BY <1>1, <1>2, SubSeqProperties

LEMMA StripOK ==
    ASSUME NEW S, NEW t \in Seq(S)
    PROVE  /\ RStrip(t) \in Seq(S) /\ Len(RStrip(t)) <= Len(t)
           /\ LStrip(t) \in Seq(S) /\ Len(LStrip(t)) <= Len(t)
<1>1. Len(t) \in Nat /\ DOMAIN t = 1 .. Len(t)
  BY LenProperties
<1>2. Solid(t) \in SUBSET (1 .. Len(t))
  BY <1>1 DEF Solid
<1>3. CASE Solid(t) = {}
  <2>1. <<>> \in Seq(S) /\ Len(<<>>) = 0
    BY EmptySeq
  <2> QED BY <1>1, <1>3, <2>1 DEF RStrip, LStrip
<1>4. CASE Solid(t) # {}
  <2> DEFINE last == CHOOSE i \in Solid(t) : \A j \in Solid(t) : j <= i
             first == CHOOSE i \in Solid(t) : \A j \in Solid(t) : j >= i
  <2>1. last \in Solid(t)
    <3>1. Solid(t) \in SUBSET (0 .. Len(t))
      BY <1>1, <1>2
    <3>2. \E u \in Solid(t) : \A w \in Solid(t) : w <= u
      BY <1>1, <1>4, <3>1, Greatest
    <3> QED BY <3>2
  <2>2. first \in Solid(t)
    <3>1. Solid(t) \in SUBSET Nat
      BY <1>1, <1>2
    <3>2. PICK u \in Solid(t) : \A w \in Solid(t) : u <= w
      BY <1>4, <3>1, Least
    <3>3. \A w \in Solid(t) : w >= u
      BY <3>1, <3>2
    <3> QED BY <3>3
  <2>3. RStrip(t) = SubSeq(t, 1, last) /\ LStrip(t) = SubSeq(t, first, Len(t))
    BY <1>4 DEF RStrip, LStrip
  <2>4. last \in 1 .. Len(t) /\ first \in 1 .. Len(t)
    BY <1>2, <2>1, <2>2
  <2> HIDE DEF last, first
  <2>5. SubSeq(t, 1, last) \in Seq(S) /\ Len(SubSeq(t, 1, last)) <= Len(t)
    BY <1>1, <2>4, Part
  <2>6. SubSeq(t, first, Len(t)) \in Seq(S) /\ Len(SubSeq(t, first, Len(t))) <= Len(t)
    BY <1>1, <2>4, Part
  <2> QED BY <2>3, <2>5, <2>6
<1> QED BY <1>3, <1>4

\* What precedes the first occurrence of a piece is shorter than what precedes any.
LEMMA UptoOK ==
    ASSUME NEW S, NEW t \in Seq(S), NEW piece, NEW n \in 1 .. Len(t), t[n] = piece
    PROVE  Upto(t, piece) \in Seq(S) /\ Len(Upto(t, piece)) < n
<1>1. Len(t) \in Nat /\ DOMAIN t = 1 .. Len(t)
  BY LenProperties
<1> DEFINE I == {i \in 1 .. Len(t) : t[i] = piece}
           first == SelectInSeq(t, LAMBDA x : x = piece)
<1>2. first = Min(I) /\ I # {}
  BY <1>1 DEF SelectInSeq
<1>3. PICK u \in I : \A w \in I : u <= w
  <2>1. I \in SUBSET Nat
    BY <1>1
  <2> QED BY <1>2, <2>1, Least
<1>4. Min(I) \in I /\ \A w \in I : Min(I) <= w
  BY <1>3 DEF Min
<1>5. Upto(t, piece) = SubSeq(t, 1, first - 1)
  BY <1>1 DEF Upto, Has
<1>6. first \in 1 .. Len(t) /\ first <= n
  BY <1>1, <1>2, <1>4
<1> HIDE DEF first, I
<1>7. SubSeq(t, 1, first - 1) \in Seq(S)
  BY <1>1, <1>6, Part
<1>8. Len(SubSeq(t, 1, first - 1)) = first - 1
  <2>1. \A i \in 1 .. first - 1 : t[i] \in S
    BY <1>1, <1>6, ElementOfSeq
  <2> QED BY <1>1, <1>6, <2>1, SubSeqProperties
<1> QED BY <1>1, <1>5, <1>6, <1>7, <1>8

LEMMA MaskOK ==
    ASSUME NEW S, "masked" \in S, NEW t \in Seq(S)
    PROVE  Mask(t) \in Seq(S) /\ Len(Mask(t)) = Len(t)
<1>1. Len(t) \in Nat /\ DOMAIN t = 1 .. Len(t) /\ \A i \in 1 .. Len(t) : t[i] \in S
  BY LenProperties, ElementOfSeq
<1> QED BY <1>1 DEF Mask

-----------------------------------------------------------------------------
(***************************************************************************)
(* What is read back of a document that the exporter made                  *)
(***************************************************************************)
Written(body) == <<"title">> \o body \o <<"marker">> \o <<"heading", "word">>

LEMMA WrittenOK ==
    ASSUME NEW S, NEW body \in Seq(S), {"title", "marker", "heading", "word"} \subseteq S
    PROVE  /\ Written(body) \in Seq(S)
           /\ Len(body) + 2 \in 1 .. Len(Written(body))
           /\ Written(body)[1] = "title" /\ Written(body)[Len(body) + 2] = "marker"
<1>1. <<"title">> \in Seq(S) /\ <<"marker">> \in Seq(S) /\ <<"heading", "word">> \in Seq(S)
  OBVIOUS
<1>2. Len(body) \in Nat
  BY LenProperties
<1> DEFINE a == <<"title">> \o body
           b == a \o <<"marker">>
<1>3. a \in Seq(S) /\ Len(a) = Len(body) + 1 /\ a[1] = "title"
  BY <1>1, <1>2, ConcatProperties
<1> HIDE DEF a
<1>4. b \in Seq(S) /\ Len(b) = Len(body) + 2 /\ b[1] = "title" /\ b[Len(body) + 2] = "marker"
  BY <1>1, <1>2, <1>3, ConcatProperties
<1>5. Written(body) = b \o <<"heading", "word">>
  BY DEF Written, a
<1> HIDE DEF b
<1>6. /\ Written(body) \in Seq(S) /\ Len(Written(body)) = Len(body) + 4
      /\ \A i \in 1 .. Len(body) + 2 : Written(body)[i] = b[i]
  BY <1>1, <1>2, <1>4, <1>5, ConcatProperties
<1> QED BY <1>2, <1>4, <1>6

\* A text that begins with a title begins with it when it is stripped on the left.
LEMMA TitleStays ==
    ASSUME NEW S, NEW t \in Seq(S), t # <<>>, t[1] = "title"
    PROVE  LStrip(t) = t
<1>1. Len(t) \in Nat \ {0} /\ DOMAIN t = 1 .. Len(t)
  BY LenProperties, EmptySeq
<1>2. 1 \in Solid(t) /\ \A j \in Solid(t) : j >= 1
  BY <1>1 DEF Solid
<1>3. (CHOOSE i \in Solid(t) : \A j \in Solid(t) : j >= i) = 1
  <2>1. \A i \in Solid(t) : (\A j \in Solid(t) : j >= i) => i = 1
    BY <1>1, <1>2 DEF Solid
  <2> QED BY <1>2, <2>1
<1>4. LStrip(t) = SubSeq(t, 1, Len(t))
  BY <1>2, <1>3 DEF LStrip
<1> QED BY <1>4, SubSeqFull

\* The importer keeps pieces of the body, and never more of them than it has.
LEMMA KeptOK ==
    ASSUME NEW S, NEW body \in Seq(S),
           {"title", "marker", "heading", "word", "masked"} \subseteq S, NEW looked \in BOOLEAN
    PROVE  /\ Kept(Written(body), looked) \in Seq(S)
           /\ Len(Kept(Written(body), looked)) <= Len(body)
<1> DEFINE w == Written(body)
           u == Upto(w, "marker")
<1>1. /\ w \in Seq(S) /\ Len(body) + 2 \in 1 .. Len(w) /\ w[1] = "title"
      /\ w[Len(body) + 2] = "marker"
  BY WrittenOK
<1>2. Len(body) \in Nat /\ Len(w) \in Nat /\ DOMAIN w = 1 .. Len(w)
  BY <1>1, LenProperties
<1> HIDE DEF w
<1>3. u \in Seq(S) /\ Len(u) < Len(body) + 2
  BY <1>1, UptoOK
<1>4. Len(u) \in Nat
  BY <1>3, LenProperties
<1>5. u # <<>> /\ u[1] = "title"
  <2> DEFINE I == {i \in 1 .. Len(w) : w[i] = "marker"}
  <2>1. PICK m \in I : \A i \in I : m <= i
    <3>1. I \in SUBSET Nat /\ I # {}
      BY <1>1
    <3> QED BY <3>1, Least
  <2>2. Min(I) \in I
    BY <2>1 DEF Min
  <2>3. SelectInSeq(w, LAMBDA x : x = "marker") = Min(I)
    BY <2>1 DEF SelectInSeq
  <2>4. Min(I) \in 2 .. Len(w)
    BY <1>1, <1>2, <2>2
  <2>5. u = SubSeq(w, 1, Min(I) - 1)
    BY <1>1, <1>2, <2>3 DEF Upto, Has
  <2> HIDE DEF u, I
  <2>6. \A i \in 1 .. Min(I) - 1 : w[i] \in S
    BY <1>1, <1>2, <2>4, ElementOfSeq
  <2>7. Len(u) = Min(I) - 1 /\ u[1] = w[1]
    BY <1>2, <2>4, <2>5, <2>6, SubSeqProperties
  <2>8. Len(u) # 0
    BY <1>2, <2>4, <2>7
  <2> QED BY <1>1, <1>3, <2>7, <2>8, EmptySeq
<1> HIDE DEF u
<1>6. Untitled(u) = Tail(u)
  <2>1. LStrip(u) = u
    BY <1>3, <1>5, TitleStays
  <2> QED BY <1>5, <2>1 DEF Untitled
<1>7. Tail(u) \in Seq(S) /\ Len(Tail(u)) <= Len(body)
  BY <1>2, <1>3, <1>4, <1>5, HeadTailProperties
<1> DEFINE v == Tail(u)
<1>8. Len(v) \in Nat
  BY <1>7, LenProperties
<1>9. ClaimText(w) = LStrip(RStrip(v))
  <2>1. Has(w, "marker")
    BY <1>1, <1>2 DEF Has
  <2> QED BY <1>6, <2>1 DEF ClaimText, Strip, u
<1> HIDE DEF v
<1>10. RStrip(v) \in Seq(S) /\ Len(RStrip(v)) <= Len(v)
  BY <1>7, StripOK DEF v
<1>11. LStrip(RStrip(v)) \in Seq(S) /\ Len(LStrip(RStrip(v))) <= Len(RStrip(v))
  BY <1>10, StripOK
<1>12. Len(RStrip(v)) \in Nat /\ Len(LStrip(RStrip(v))) \in Nat
  BY <1>10, <1>11, LenProperties
<1>13. Kept(w, looked) \in Seq(S) /\ Len(Kept(w, looked)) = Len(LStrip(RStrip(v)))
  BY <1>9, <1>11, MaskOK DEF Kept
<1> QED BY <1>2, <1>7, <1>8, <1>10, <1>11, <1>12, <1>13 DEF v, w

(***************************************************************************)
(* Bundles: the inductive invariant                                        *)
(***************************************************************************)
WithBundle == {"aside", "compare", "in", "clean"}

\* A document the exporter made: its body is that of the claim it is named for, and of its
\* fields the reader finds again what the contract calls recoverable.
DocumentOK(c, f) ==
    /\ f.content = Written(RStrip(BodyOf(text[c])))
    /\ f.front.fields \cap Recoverable \subseteq Recovered(f, TRUE)

BundleOK(b) ==
    /\ b # None
    /\ \A p \in DOMAIN b.files : p[1] = "claims" =>
          /\ p[2] \in Ids /\ p = ClaimPath(p[2])
          /\ DocumentOK(p[2], b.files[p])

\* What a session at work holds.
JobOK(s, x) ==
    /\ x.at = "claims" => x.request \in Requests
    /\ x.at \in WithBundle => BundleOK(x.bundle)
    /\ x.at \in {"in", "clean"} => \A m \in x.moved : m[1] = s /\ m[2] # None

JobsOK ==
    /\ job = [s \in Sessions |-> job[s]]
    /\ \A s \in Sessions : JobOK(s, job[s])

TextsOK == text \in Texts

\* What was published and is not in the directory waits where no exporter that finished
\* will clean up.
Held ==
    published /\ out = None =>
        \E x \in aside : \A s \in Sessions : job[s].at = "clean" => x \notin job[s].moved

\* Importers that did not race are alone.
Alone == ~raced => \A s, t \in Sessions : Importing(s) /\ Importing(t) => s = t

\* Who is about to propose has found nothing of the kind but what was turned down.
CreateOK(x) ==
    ~raced /\ x.at = "create" =>
        \A i \in DOMAIN candidates :
            candidates[i].ref = x.ref /\ candidates[i].sum = x.file =>
                candidates[i].status = "rejected"

CandidateOK(k) ==
    /\ k.status \in {"pending", "promoted", "rejected"}
    /\ ~Has(k.says, "secret")
    /\ Has(k.text, "secret") \/ Has(k.text, "lure") \/ Has(k.says, "lure") => k.quarantined

CandidatesOK ==
    /\ candidates \in Seq(Range(candidates))
    /\ \A i \in DOMAIN candidates : CandidateOK(candidates[i])
    /\ \A s \in Sessions : CreateOK(job[s])

Documents == TextsOK /\ JobsOK /\ ReportIsHonest
Proposals == Alone /\ CandidatesOK /\ ProposedOnce
OkfInv == Documents /\ Held /\ Proposals

-----------------------------------------------------------------------------
(***************************************************************************)
(* Bundles: what is exported, and what the round trip says of it           *)
(***************************************************************************)
LEMMA TextOK ==
    ASSUME TextsOK, NEW c \in Ids
    PROVE  text[c] \in Seq(Pieces)
BY OkfAssumption DEF TextsOK

LEMMA BodyOK ==
    ASSUME NEW t \in Seq(Pieces)
    PROVE  /\ RStrip(BodyOf(t)) \in Seq(Pieces)
           /\ ~Withheld(t) => Len(RStrip(BodyOf(t))) <= Len(t)
           /\ Withheld(t) => RStrip(BodyOf(t)) \in Seq({"notice"})
<1>1. Mask(t) \in Seq(Pieces) /\ Len(Mask(t)) = Len(t)
  BY MaskOK DEF Pieces
<1>2. <<"notice">> \in Seq(Pieces) /\ <<"notice">> \in Seq({"notice"})
  <2>1. {"notice"} \subseteq Pieces
    BY DEF Pieces
  <2>2. <<"notice">> \in Seq({"notice"})
    OBVIOUS
  <2> QED BY <2>1, <2>2, SeqMonotonic
<1>3. BodyOf(t) \in Seq(Pieces)
  BY <1>1, <1>2 DEF BodyOf
<1>4. RStrip(BodyOf(t)) \in Seq(Pieces) /\ Len(RStrip(BodyOf(t))) <= Len(BodyOf(t))
  BY <1>3, StripOK
<1>5. ~Withheld(t) => Len(BodyOf(t)) = Len(t)
  BY <1>1 DEF BodyOf
<1>6. Withheld(t) => RStrip(BodyOf(t)) \in Seq({"notice"})
  BY <1>2, StripOK DEF BodyOf
<1> QED BY <1>4, <1>5, <1>6

\* A text that is found whole in one that is no longer is that text.
LEMMA InsideIsAll ==
    ASSUME NEW x \in Seq(Pieces), NEW t \in Seq(Pieces), Len(t) <= Len(x), Inside(x, t)
    PROVE  t = x
<1>1. Len(x) \in Nat /\ Len(t) \in Nat
  BY LenProperties
<1>2. PICK i \in 0 .. Len(t) : i + Len(x) <= Len(t) /\ SubSeq(t, i + 1, i + Len(x)) = x
  BY DEF Inside
<1>3. i = 0 /\ Len(x) = Len(t)
  BY <1>1, <1>2
<1>4. SubSeq(t, 1, Len(t)) = x
  BY <1>1, <1>2, <1>3
<1> QED BY <1>4, SubSeqFull

\* What occurs in a text occurs in whatever contains it.
LEMMA InsideHas ==
    ASSUME NEW S, NEW x \in Seq(Pieces), NEW t \in Seq(S), Inside(x, t), NEW piece,
           Has(x, piece)
    PROVE  piece \in S
<1>1. Len(x) \in Nat /\ Len(t) \in Nat /\ DOMAIN x = 1 .. Len(x)
  BY LenProperties
<1>2. PICK i \in 0 .. Len(t) : i + Len(x) <= Len(t) /\ SubSeq(t, i + 1, i + Len(x)) = x
  BY DEF Inside
<1>3. PICK n \in 1 .. Len(x) : x[n] = piece
  BY <1>1 DEF Has
<1>4. \A m \in i + 1 .. i + Len(x) : t[m] \in S
  BY <1>1, <1>2, ElementOfSeq
<1>5. x[n] = t[i + 1 + n - 1]
  BY <1>1, <1>2, <1>3, <1>4, SubSeqProperties
<1>6. i + 1 + n - 1 \in i + 1 .. i + Len(x)
  BY <1>1, <1>2, <1>3
<1> QED BY <1>3, <1>4, <1>5, <1>6

\* The judgement of one claim.
LEMMA EntryOK ==
    ASSUME TextsOK, NEW c \in Ids, NEW f, DocumentOK(c, f), NEW looked \in BOOLEAN,
           NEW read \in BOOLEAN, NEW e, e = Entry(c, f, looked, read)
    PROVE  /\ e.class = "exactly-preserved" => e.body = text[c]
           /\ e.class = "intentionally-omitted" => ~Inside(text[c], e.body)
           /\ e.read => e.had \cap Recoverable \subseteq e.back
           /\ \/ e.class = "lossy" /\ e.reason # "masked-by-safety"
              \/ BodyOf(text[c]) = text[c] => e.class = "exactly-preserved"
<1> DEFINE t == text[c]
           imported == Kept(f.content, looked)
           judged == BodyClass(t, imported)
<1>1. /\ e.class = judged[1] /\ e.reason = judged[2]
      /\ e.body = imported
      /\ e.had = f.front.fields /\ e.back = Recovered(f, read) /\ e.read = read
  BY DEF Entry
<1>2. t \in Seq(Pieces)
  BY TextOK
<1> HIDE DEF t
<1>3. /\ RStrip(BodyOf(t)) \in Seq(Pieces)
      /\ ~Withheld(t) => Len(RStrip(BodyOf(t))) <= Len(t)
      /\ Withheld(t) => RStrip(BodyOf(t)) \in Seq({"notice"})
  BY <1>2, BodyOK
<1>4. imported = Kept(Written(RStrip(BodyOf(t))), looked)
  BY DEF DocumentOK, t
<1>5. imported \in Seq(Pieces) /\ Len(imported) <= Len(RStrip(BodyOf(t)))
  BY <1>3, <1>4, KeptOK DEF Pieces
<1> HIDE DEF imported
<1>6. judged[1] = "exactly-preserved" => imported = t
  <2> SUFFICES ASSUME judged[1] = "exactly-preserved" PROVE imported = t
    OBVIOUS
  <2>1. ~Withheld(t) /\ Inside(t, imported)
    BY DEF BodyClass
  <2>2. Len(imported) <= Len(t)
    <3>1. Len(imported) \in Nat /\ Len(t) \in Nat /\ Len(RStrip(BodyOf(t))) \in Nat
      BY <1>2, <1>3, <1>5, LenProperties
    <3> QED BY <1>3, <1>5, <2>1, <3>1
  <2> QED BY <1>2, <1>5, <2>1, <2>2, InsideIsAll
<1>7. judged[1] = "intentionally-omitted" => ~Inside(t, imported)
  <2> SUFFICES ASSUME judged[1] = "intentionally-omitted", Inside(t, imported) PROVE FALSE
    OBVIOUS
  <2>1. Withheld(t)
    BY DEF BodyClass
  <2> DEFINE S == {"notice", "title", "marker", "heading", "word", "masked"}
  <2>2. RStrip(BodyOf(t)) \in Seq(S)
    BY <1>3, <2>1, SeqMonotonic
  <2>3. imported \in Seq(S)
    BY <1>4, <2>2, KeptOK
  <2>4. Has(t, "lure")
    BY <2>1 DEF Withheld
  <2>5. "lure" \in S
    BY <1>2, <2>3, <2>4, InsideHas
  <2> QED BY <2>5
<1>8. \/ judged[1] = "lossy" /\ judged[2] # "masked-by-safety"
      \/ BodyOf(t) = t => judged[1] = "exactly-preserved"
  <2>1. BodyOf(t) = t => ~Withheld(t)
    BY DEF BodyOf, Withheld, Has
  <2>2. BodyOf(t) = t => ~Redacted(t)
    BY <2>1 DEF BodyOf, Redacted, Mask, Has
  <2>3. Degradation(t, imported) # "masked-by-safety"
    BY DEF Degradation
  <2> QED BY <2>1, <2>2, <2>3 DEF BodyClass
<1>9. read => f.front.fields \cap Recoverable \subseteq Recovered(f, read)
  BY DEF DocumentOK
<1> QED BY <1>1, <1>6, <1>7, <1>8, <1>9 DEF t

\* Every document of claims in a bundle that was built is one that can be read back.
LEMMA PlannedOK ==
    ASSUME TextsOK, NEW r \in Requests, NEW pairs
    PROVE  BundleOK(Planned(r, Rows, pairs))
<1> DEFINE b == Planned(r, Rows, pairs)
           chosen == Selected(r, Rows, pairs)
<1>1. b # None
  <2>1. b.marker = "0.1" /\ None.marker = "none there"
    BY DEF Planned, None
  <2> QED BY <2>1
<1>2. chosen \subseteq Ids
  BY OkfAssumption DEF Selected
<1>3. ASSUME NEW p \in DOMAIN b.files, p[1] = "claims"
      PROVE  /\ p[2] \in chosen /\ p = ClaimPath(p[2])
             /\ b.files[p] = ClaimFile(p[2], Rows[p[2]], Rivals(p[2], pairs))
  <2>1. \/ \E c \in chosen : p = ClaimPath(c)
        \/ p \in {Index, SourceIndex, HistoryLog}
    BY DEF Planned
  <2>2. p \notin {Index, SourceIndex, HistoryLog}
    BY <1>3 DEF Index, SourceIndex, HistoryLog
  <2>3. p[2] \in chosen /\ p = ClaimPath(p[2])
    BY <2>1, <2>2 DEF ClaimPath
  <2>4. b.files[p] = ClaimFile(p[2], Rows[p[2]], Rivals(p[2], pairs))
    BY <1>3 DEF Planned
  <2> QED BY <2>3, <2>4
<1>4. ASSUME NEW c \in Ids, NEW rivals
      PROVE  DocumentOK(c, ClaimFile(c, Rows[c], rivals))
  <2> DEFINE f == ClaimFile(c, Rows[c], rivals)
  <2>1. Rows[c].text = text[c]
    BY DEF Rows
  <2>2. f.content = Written(RStrip(BodyOf(text[c])))
    BY <2>1 DEF ClaimFile, Document, PlainFile, Written
  <2>3. /\ f.front.fields = Fields(Rows[c], rivals)
        /\ HasId(f.front)
    <3>1. f.front = [form |-> "map", version |-> "0.1", block |-> TRUE, id |-> c,
                     by |-> Rows[c].by, rivals |-> rivals, status |-> Rows[c].status,
                     says |-> <<"word">>, fields |-> Fields(Rows[c], rivals)]
      BY DEF ClaimFile, Document, PlainFile
    <3>2. c # "none"
      BY OkfAssumption
    <3> QED BY <3>1, <3>2 DEF HasId
  <2>4. Fields(Rows[c], rivals) \cap Recoverable \subseteq SafeKeys \cup {"id", "tags", "title"}
    BY DEF Fields, Recoverable, Fidelity, Mapped, Governed, SafeKeys
  <2>5. Recovered(f, TRUE) = (f.front.fields \cap SafeKeys) \cup {"id", "tags", "title"}
    BY <2>3 DEF Recovered, Retained
  <2> HIDE DEF f
  <2>6. f.front.fields \cap Recoverable \subseteq Recovered(f, TRUE)
    BY <2>3, <2>4, <2>5
  <2>7. DocumentOK(c, f)
    BY <2>2, <2>6 DEF DocumentOK
  <2> QED BY <2>7 DEF f
<1>5. ASSUME NEW p \in DOMAIN b.files, p[1] = "claims"
      PROVE  p[2] \in Ids /\ p = ClaimPath(p[2]) /\ DocumentOK(p[2], b.files[p])
  BY <1>2, <1>3, <1>4, <1>5
<1> HIDE DEF b
<1>6. BundleOK(b)
  BY <1>1, <1>5 DEF BundleOK
<1> QED BY <1>6 DEF b

-----------------------------------------------------------------------------
(***************************************************************************)
(* Bundles: what a step of a session preserves                             *)
(***************************************************************************)
Sets(s, x) == job' = [job EXCEPT ![s] = x]

LEMMA JobsMove ==
    ASSUME JobsOK, text' = text, NEW s \in Sessions, NEW x, JobOK(s, x), Sets(s, x)
    PROVE  /\ JobsOK'
           /\ job'[s] = x /\ \A t \in Sessions \ {s} : job'[t] = job[t]
<1>1. job'[s] = x /\ \A t \in Sessions \ {s} : job'[t] = job[t]
  BY DEF JobsOK, Sets
<1>2. job' = [t \in Sessions |-> job'[t]]
  BY DEF JobsOK, Sets
<1>3. ASSUME NEW t \in Sessions PROVE JobOK(t, job[t])'
  <2>1. JobOK(t, job'[t])
    BY <1>1 DEF JobsOK
  <2> QED BY <2>1 DEF JobOK, BundleOK, DocumentOK
<1> QED BY <1>1, <1>2, <1>3 DEF JobsOK

LEMMA DocumentsMove ==
    ASSUME Documents, text' = text, report' = report,
           NEW s \in Sessions, NEW x, JobOK(s, x), Sets(s, x)
    PROVE  Documents'
<1>1. JobsOK'
  BY JobsMove DEF Documents
<1> QED BY <1>1 DEF Documents, TextsOK, ReportIsHonest

LEMMA HeldMoves ==
    ASSUME Held, JobsOK, UNCHANGED directory, NEW s \in Sessions, NEW x, x.at # "clean", Sets(s, x)
    PROVE  Held'
<1>1. job'[s] = x /\ \A t \in Sessions \ {s} : job'[t] = job[t]
  BY DEF JobsOK, Sets
<1> SUFFICES ASSUME published, out = None
             PROVE  \E m \in aside : \A t \in Sessions : job'[t].at = "clean" => m \notin job'[t].moved
  BY DEF Held, directory
<1>2. PICK m \in aside : \A t \in Sessions : job[t].at = "clean" => m \notin job[t].moved
  BY DEF Held
<1>3. \A t \in Sessions : job'[t].at = "clean" => m \notin job'[t].moved
  BY <1>1, <1>2
<1> QED BY <1>3

LEMMA ProposalsMove ==
    ASSUME Proposals, JobsOK, candidates' = candidates, raced' = raced,
           NEW s \in Sessions, NEW x, Sets(s, x), CreateOK(x),
           x.at \in {"next", "compare with", "create"} => Importing(s)
    PROVE  Proposals'
<1>1. job'[s] = x /\ \A t \in Sessions \ {s} : job'[t] = job[t]
  BY DEF JobsOK, Sets
<1>2. \A t \in Sessions : Importing(t)' => Importing(t)
  BY <1>1 DEF Importing
<1>3. Alone'
  BY <1>2 DEF Proposals, Alone
<1>4. ASSUME NEW t \in Sessions PROVE CreateOK(job[t])'
  <2>1. CreateOK(job'[t])
    BY <1>1 DEF Proposals, CandidatesOK
  <2> QED BY <2>1 DEF CreateOK
<1>5. CandidatesOK'
  BY <1>4 DEF Proposals, CandidatesOK
<1>6. ProposedOnce'
  BY DEF Proposals, ProposedOnce
<1> QED BY <1>3, <1>5, <1>6 DEF Proposals

\* A step that leaves the directory, the candidates and the report alone.
LEMMA Moves ==
    ASSUME OkfInv, UNCHANGED <<text, directory, candidates, report, raced>>,
           NEW s \in Sessions, NEW x, JobOK(s, x), CreateOK(x), Sets(s, x), x.at # "clean",
           x.at \in {"next", "compare with", "create"} => Importing(s)
    PROVE  OkfInv'
<1>1. Documents'
  BY DocumentsMove DEF OkfInv
<1>2. Held'
  BY HeldMoves DEF OkfInv, Documents
<1>3. Proposals'
  BY ProposalsMove DEF OkfInv, Documents
<1> QED BY <1>1, <1>2, <1>3 DEF OkfInv

LEMMA IdleOK ==
    ASSUME NEW s
    PROVE  JobOK(s, Idle) /\ CreateOK(Idle) /\ Idle.at = "idle"
BY DEF Idle, JobOK, CreateOK, WithBundle

\* A step of nobody's.
LEMMA Rests ==
    ASSUME OkfInv, UNCHANGED <<text, directory, candidates, job, report, raced>>
    PROVE  OkfInv'
<1>1. JobsOK'
  BY DEF OkfInv, Documents, JobsOK, JobOK, BundleOK, DocumentOK
<1>2. Documents'
  BY <1>1 DEF OkfInv, Documents, TextsOK, ReportIsHonest
<1>3. Held'
  BY DEF OkfInv, Held, directory
<1>4. Proposals'
  BY DEF OkfInv, Proposals, Alone, Importing, CandidatesOK, CreateOK, ProposedOnce
<1> QED BY <1>2, <1>3, <1>4 DEF OkfInv

-----------------------------------------------------------------------------
(***************************************************************************)
(* Bundles: the operations                                                 *)
(***************************************************************************)
LEMMA OkfInitOK ==
    ASSUME Init
    PROVE  OkfInv
<1>1. JobsOK
  BY IdleOK DEF Init, JobsOK
<1>2. ReportIsHonest
  <2>1. DOMAIN report = {}
    BY DEF Init, NoReport
  <2> QED BY <2>1 DEF ReportIsHonest, Effective
<1>3. Documents
  BY <1>1, <1>2 DEF Init, Documents, TextsOK
<1>4. Held
  BY DEF Init, Held
<1>5. Alone
  BY IdleOK DEF Init, Alone, Importing
<1>6. DOMAIN candidates = {} /\ candidates \in Seq(Range(candidates))
  BY DEF Init
<1>7. CandidatesOK /\ ProposedOnce
  BY <1>6 DEF CandidatesOK, CreateOK, ProposedOnce
<1> QED BY <1>3, <1>4, <1>5, <1>7 DEF OkfInv, Proposals

\* An export reads the contradictions, and then the claims.
LEMMA StepExportBegin ==
    ASSUME OkfInv, NEW s \in Sessions, ExportBegin(s)
    PROVE  OkfInv'
<1>1. PICK r \in Requests, op \in {"export", "roundtrip"} :
        Sets(s, [at |-> "claims", op |-> op, request |-> r, pairs |-> open])
  BY DEF ExportBegin, Sets
<1> DEFINE x == [at |-> "claims", op |-> op, request |-> r, pairs |-> open]
<1>2. JobOK(s, x) /\ CreateOK(x) /\ x.at = "claims"
  BY DEF JobOK, CreateOK, WithBundle
<1>3. UNCHANGED <<text, directory, candidates, report, raced>>
  BY DEF ExportBegin, source
<1> HIDE DEF x
<1> QED BY <1>1, <1>2, <1>3, Moves DEF x

LEMMA StepExportBuild ==
    ASSUME OkfInv, NEW s \in Sessions, ExportBuild(s)
    PROVE  OkfInv'
<1> DEFINE b == Planned(job[s].request, Rows, job[s].pairs)
           x == IF ~SelfCheck(b) THEN Idle
                ELSE [at |-> IF job[s].op = "export" THEN "aside" ELSE "compare", bundle |-> b]
<1>1. Sets(s, x) /\ UNCHANGED <<text, directory, candidates, report, raced>>
  BY DEF ExportBuild, Go, Sets, source
<1>2. BundleOK(b)
  <2>1. job[s].request \in Requests
    BY DEF ExportBuild, OkfInv, Documents, JobsOK, JobOK
  <2> QED BY <2>1, PlannedOK DEF OkfInv, Documents
<1> HIDE DEF b
<1>3. JobOK(s, x) /\ CreateOK(x) /\ x.at \in {"idle", "aside", "compare"}
  <2>1. CASE ~SelfCheck(b)
    BY <2>1, IdleOK
  <2>2. CASE SelfCheck(b)
    BY <1>2, <2>2 DEF JobOK, CreateOK, WithBundle
  <2> QED BY <2>1, <2>2
<1> HIDE DEF x
<1> QED BY <1>1, <1>3, Moves

\* A step that changes the directory.
LEMMA Swaps ==
    ASSUME OkfInv, UNCHANGED <<text, candidates, report, raced>>,
           NEW s \in Sessions, NEW x, JobOK(s, x), CreateOK(x), Sets(s, x),
           x.at \notin {"next", "compare with", "create"}, Held'
    PROVE  OkfInv'
<1>1. Documents'
  BY DocumentsMove DEF OkfInv
<1>2. Proposals'
  BY ProposalsMove DEF OkfInv, Documents
<1> QED BY <1>1, <1>2 DEF OkfInv

\* What is moved aside is not in the way of another who will clean up.
LEMMA StepMoveAside ==
    ASSUME OkfInv, NEW s \in Sessions, MoveAside(s)
    PROVE  OkfInv'
<1>1. BundleOK(job[s].bundle) /\ JobsOK
  BY DEF MoveAside, OkfInv, Documents, JobsOK, JobOK, WithBundle
<1>2. CASE out # None /\ out.marker = "absent"
  <2>1. Sets(s, Idle) /\ UNCHANGED <<text, directory, candidates, report, raced>>
    BY <1>2 DEF MoveAside, Go, Sets, source
  <2> QED BY <2>1, IdleOK, Moves
<1>3. CASE ~(out # None /\ out.marker = "absent")
  <2> DEFINE mine == IF out = None THEN {} ELSE {<<s, out>>}
             x == [at |-> "in", bundle |-> job[s].bundle, moved |-> mine]
  <2>1. /\ Sets(s, x) /\ out' = None /\ published' = published
        /\ aside' = aside \cup mine
        /\ UNCHANGED <<text, candidates, report, raced>>
    BY <1>3 DEF MoveAside, Go, Sets, source
  <2>2. JobOK(s, x) /\ CreateOK(x) /\ x.at = "in"
    <3>1. \A m \in mine : m[1] = s /\ m[2] # None
      OBVIOUS
    <3> HIDE DEF mine
    <3> QED BY <1>1, <3>1 DEF JobOK, CreateOK, WithBundle
  <2>3. job'[s].at = "in" /\ \A t \in Sessions \ {s} : job'[t] = job[t]
    BY <1>1, <2>1 DEF JobsOK, Sets
  <2>4. Held'
    <3> SUFFICES ASSUME published
                 PROVE  \E m \in aside' : \A t \in Sessions :
                            job'[t].at = "clean" => m \notin job'[t].moved
      BY <2>1 DEF Held
    <3>1. CASE out = None
      <4>1. PICK m \in aside : \A t \in Sessions : job[t].at = "clean" => m \notin job[t].moved
        BY <3>1 DEF OkfInv, Held
      <4>2. m \in aside' /\ \A t \in Sessions : job'[t].at = "clean" => m \notin job'[t].moved
        BY <2>1, <2>3, <4>1
      <4> QED BY <4>2
    <3>2. CASE out # None
      <4>1. <<s, out>> \in aside'
        BY <2>1, <3>2
      <4>2. ASSUME NEW t \in Sessions, job'[t].at = "clean" PROVE <<s, out>> \notin job'[t].moved
        <5>1. t # s /\ job'[t] = job[t]
          BY <2>3, <4>2
        <5>2. \A m \in job[t].moved : m[1] = t
          BY <1>1, <4>2, <5>1 DEF JobsOK, JobOK
        <5> QED BY <5>1, <5>2
      <4> QED BY <4>1, <4>2
    <3> QED BY <3>1, <3>2
  <2> HIDE DEF x
  <2> QED BY <2>1, <2>2, <2>4, Swaps
<1> QED BY <1>2, <1>3

\* What comes into the directory is a bundle, built or put back.
LEMMA StepMoveIn ==
    ASSUME OkfInv, NEW s \in Sessions, MoveIn(s)
    PROVE  OkfInv'
<1>1. /\ BundleOK(job[s].bundle) /\ JobsOK
      /\ \A m \in job[s].moved : m[1] = s /\ m[2] # None
  BY DEF MoveIn, OkfInv, Documents, JobsOK, JobOK, WithBundle
<1>2. UNCHANGED <<text, candidates, report, raced>>
  BY DEF MoveIn, Go, source
<1>3. CASE out' = job[s].bundle /\ Go(s, [job[s] EXCEPT !.at = "clean"])
  <2> DEFINE x == [job[s] EXCEPT !.at = "clean"]
  <2>1. Sets(s, x)
    BY <1>3 DEF Go, Sets
  <2>2. x.at = "clean" /\ x.bundle = job[s].bundle /\ x.moved = job[s].moved
    OBVIOUS
  <2> HIDE DEF x
  <2>3. JobOK(s, x) /\ CreateOK(x)
    BY <1>1, <2>2 DEF JobOK, CreateOK
  <2>4. out' # None
    BY <1>1, <1>3 DEF BundleOK
  <2>5. Held'
    <3>1. None' = None
      BY DEF None
    <3> QED BY <2>4, <3>1 DEF Held
  <2> QED BY <1>2, <2>1, <2>2, <2>3, <2>5, Swaps
<1>4. CASE out' \in {m[2] : m \in job[s].moved} /\ Go(s, Idle)
  <2>1. out' # None
    BY <1>1, <1>4
  <2>2. Held'
    <3>1. None' = None
      BY DEF None
    <3> QED BY <2>1, <3>1 DEF Held
  <2>3. Sets(s, Idle)
    BY <1>4 DEF Go, Sets
  <2> QED BY <1>2, <2>2, <2>3, IdleOK, Swaps
<1>5. CASE Go(s, Idle) /\ UNCHANGED directory
  <2>1. Sets(s, Idle)
    BY <1>5 DEF Go, Sets
  <2> QED BY <1>2, <1>5, <2>1, IdleOK, Moves
<1> QED BY <1>3, <1>4, <1>5 DEF MoveIn

LEMMA StepRemoveOld ==
    ASSUME OkfInv, NEW s \in Sessions, RemoveOld(s)
    PROVE  OkfInv'
<1>1. /\ Sets(s, Idle) /\ aside' = aside \ job[s].moved /\ job[s].at = "clean"
      /\ UNCHANGED <<text, out, published, candidates, report, raced>>
  BY DEF RemoveOld, Go, Sets, source
<1>2. job'[s] = Idle /\ \A t \in Sessions \ {s} : job'[t] = job[t]
  BY <1>1 DEF OkfInv, Documents, JobsOK, Sets
<1>3. Held'
  <2> SUFFICES ASSUME published, out = None
               PROVE  \E m \in aside' : \A t \in Sessions :
                          job'[t].at = "clean" => m \notin job'[t].moved
    BY <1>1 DEF Held
  <2>1. PICK m \in aside : \A t \in Sessions : job[t].at = "clean" => m \notin job[t].moved
    BY DEF OkfInv, Held
  <2>2. m \in aside'
    BY <1>1, <2>1
  <2>3. \A t \in Sessions : job'[t].at = "clean" => m \notin job'[t].moved
    BY <1>2, <2>1, IdleOK
  <2> QED BY <2>2, <2>3
<1> QED BY <1>1, <1>3, IdleOK, Swaps

\* The round trip's judgement of every claim that came back.
LEMMA StepCompare ==
    ASSUME OkfInv, NEW s \in Sessions, Compare(s)
    PROVE  OkfInv'
<1> DEFINE b == job[s].bundle
           kept == {p[2] : p \in {q \in ClaimDocs(b) : ClaimText(b.files[q].content) # <<>>}}
<1>1. BundleOK(b) /\ JobsOK /\ TextsOK
  BY DEF Compare, OkfInv, Documents, JobsOK, JobOK, WithBundle
<1>2. /\ Sets(s, Idle) /\ UNCHANGED <<text, directory, candidates, raced>>
      /\ \E looked, read \in [kept -> BOOLEAN] :
            report' = IF Valid(b)
                      THEN [c \in kept |-> Entry(c, b.files[ClaimPath(c)], looked[c], read[c])]
                      ELSE NoReport
  BY DEF Compare, Sets, source
<1>3. ASSUME NEW c \in kept PROVE c \in Ids /\ DocumentOK(c, b.files[ClaimPath(c)])
  <2>1. PICK p \in DOMAIN b.files : p[1] = "claims" /\ c = p[2]
    BY DEF ClaimDocs
  <2> HIDE DEF b
  <2> QED BY <1>1, <2>1 DEF BundleOK
<1> HIDE DEF b, kept
<1>4. ASSUME NEW c \in DOMAIN report'
      PROVE  /\ report'[c].class = "exactly-preserved" => report'[c].body = text[c]
             /\ report'[c].class = "intentionally-omitted" => ~Inside(text[c], report'[c].body)
             /\ report'[c].read => report'[c].had \cap Recoverable \subseteq report'[c].back
             /\ \/ report'[c].class = "lossy" /\ report'[c].reason # "masked-by-safety"
                \/ BodyOf(text[c]) = text[c] => report'[c].class = "exactly-preserved"
  <2>1. DOMAIN NoReport = {}
    BY DEF NoReport
  <2>2. PICK looked, read \in [kept -> BOOLEAN] :
            report' = IF Valid(b)
                      THEN [d \in kept |-> Entry(d, b.files[ClaimPath(d)], looked[d], read[d])]
                      ELSE NoReport
    BY <1>2
  <2>3. c \in kept /\ report'[c] = Entry(c, b.files[ClaimPath(c)], looked[c], read[c])
    BY <2>1, <2>2
  <2>4. looked[c] \in BOOLEAN /\ read[c] \in BOOLEAN
    BY <2>3
  <2> QED BY <1>1, <1>3, <2>3, <2>4, EntryOK
<1>5. ReportIsHonest'
  <2>1. ASSUME Effective(report)' = "exactly-preserved", NEW c \in DOMAIN report',
               BodyOf(text[c]) = text[c]
        PROVE  report'[c].body = text[c]
    <3>1. ~(report'[c].class = "lossy" /\ report'[c].reason # "masked-by-safety")
      BY <2>1 DEF Effective
    <3> QED BY <1>4, <2>1, <3>1
  <2>2. text' = text
    BY <1>2
  <2> QED BY <1>4, <2>1, <2>2 DEF ReportIsHonest
<1>6. JobsOK'
  BY <1>1, <1>2, IdleOK, JobsMove
<1>7. Documents'
  BY <1>1, <1>2, <1>5, <1>6 DEF Documents, TextsOK
<1>8. Held' /\ Proposals'
  BY <1>1, <1>2, IdleOK, HeldMoves, ProposalsMove DEF OkfInv
<1> QED BY <1>7, <1>8 DEF OkfInv

\* An import that begins beside another has raced.
LEMMA StepImportBegin ==
    ASSUME OkfInv, NEW s \in Sessions, ImportBegin(s)
    PROVE  OkfInv'
<1> DEFINE x == [at |-> "next", todo |-> ClaimDocs(out)]
<1>1. /\ Sets(s, x) /\ UNCHANGED <<text, directory, candidates, report>>
      /\ raced' = (raced \/ \E t \in Sessions \ {s} : Importing(t))
  BY DEF ImportBegin, Sets, source
<1>2. JobOK(s, x) /\ x.at = "next"
  BY DEF JobOK, WithBundle
<1> HIDE DEF x
<1>3. job'[s] = x /\ \A t \in Sessions \ {s} : job'[t] = job[t]
  BY <1>1 DEF OkfInv, Documents, JobsOK, Sets
<1>4. Documents' /\ Held'
  BY <1>1, <1>2, DocumentsMove, HeldMoves DEF OkfInv, Documents
<1>5. Alone'
  BY <1>1, <1>3 DEF OkfInv, Proposals, Alone, Importing
<1>6. ASSUME NEW t \in Sessions PROVE CreateOK(job[t])'
  <2>1. CASE t = s
    BY <1>2, <1>3, <2>1 DEF CreateOK
  <2>2. CASE t # s
    BY <1>1, <1>3, <2>2 DEF OkfInv, Proposals, CandidatesOK, CreateOK
  <2> QED BY <2>1, <2>2
<1>7. CandidatesOK' /\ ProposedOnce'
  BY <1>1, <1>6 DEF OkfInv, Proposals, CandidatesOK, ProposedOnce
<1> QED BY <1>4, <1>5, <1>7 DEF OkfInv, Proposals

LEMMA StepReadDocument ==
    ASSUME OkfInv, NEW s \in Sessions, ReadDocument(s)
    PROVE  OkfInv'
<1>1. UNCHANGED <<text, directory, candidates, report, raced>> /\ Importing(s)
  BY DEF ReadDocument, Go, source, Importing
<1>2. PICK x : Sets(s, x) /\ x.at \in {"next", "compare with"}
  <2>1. PICK p \in job[s].todo :
          Go(s, IF \/ ~(out # None /\ p \in ClaimDocs(out)) \/ ~out.files[p].utf8
                   \/ \E i \in Ours(ExternalId(p, out.files[p])) : candidates[i].claim = "promoted"
                THEN [at |-> "next", todo |-> job[s].todo \ {p}]
                ELSE [at |-> "compare with", todo |-> job[s].todo \ {p}, file |-> out.files[p],
                      ref |-> ExternalId(p, out.files[p])])
    BY DEF ReadDocument
  <2> DEFINE a == [at |-> "next", todo |-> job[s].todo \ {p}]
             b == [at |-> "compare with", todo |-> job[s].todo \ {p}, file |-> out.files[p],
                   ref |-> ExternalId(p, out.files[p])]
  <2>2. Sets(s, a) \/ Sets(s, b)
    BY <2>1 DEF Go, Sets
  <2>3. a.at = "next" /\ b.at = "compare with"
    OBVIOUS
  <2> HIDE DEF a, b
  <2> QED BY <2>2, <2>3
<1>3. JobOK(s, x) /\ CreateOK(x) /\ x.at # "clean"
  BY <1>2 DEF JobOK, CreateOK, WithBundle
<1> QED BY <1>1, <1>2, <1>3, Moves

\* Whoever goes on to propose has seen no candidate of the kind that still stands.
LEMMA StepCompareWithPrior ==
    ASSUME OkfInv, NEW s \in Sessions, CompareWithPrior(s)
    PROVE  OkfInv'
<1> DEFINE f == job[s].file
           over == Duplicate(f, job[s].ref) \/ ClaimText(f.content) = <<>>
           x == [job[s] EXCEPT !.at = "create"]
<1>1. UNCHANGED <<text, directory, candidates, report, raced>> /\ Importing(s)
  BY DEF CompareWithPrior, Go, source, Importing
<1>2. CASE over
  <2> DEFINE y == [at |-> "next", todo |-> job[s].todo]
  <2>1. Sets(s, y)
    BY <1>2 DEF CompareWithPrior, Go, Sets
  <2>2. JobOK(s, y) /\ CreateOK(y) /\ y.at = "next"
    BY DEF JobOK, CreateOK, WithBundle
  <2> HIDE DEF y
  <2> QED BY <1>1, <2>1, <2>2, Moves
<1>3. CASE ~over
  <2>1. Sets(s, x)
    BY <1>3 DEF CompareWithPrior, Go, Sets
  <2>2. x.at = "create" /\ x.ref = job[s].ref /\ x.file = job[s].file
    OBVIOUS
  <2> HIDE DEF x
  <2>3. CreateOK(x)
    <3>1. ~Duplicate(x.file, x.ref)
      BY <1>3, <2>2
    <3>2. \A i \in DOMAIN candidates :
             candidates[i].status \in {"pending", "promoted", "rejected"}
      BY DEF OkfInv, Proposals, CandidatesOK, CandidateOK
    <3> QED BY <3>1, <3>2 DEF Duplicate, Ours, CreateOK
  <2>4. JobOK(s, x)
    BY <2>2 DEF JobOK, WithBundle
  <2> QED BY <1>1, <2>1, <2>2, <2>3, <2>4, Moves
<1> QED BY <1>2, <1>3

\* A document becomes nothing with a secret or a lure in it that is not quarantined, and its
\* metadata keep no secret at all.
LEMMA NewCandidateOK ==
    ASSUME NEW ref, NEW f, NEW looked \in BOOLEAN, NEW read \in BOOLEAN
    PROVE  CandidateOK([ref |-> ref, sum |-> f, text |-> Kept(f.content, looked),
                        says |-> Scanned(f.front, read),
                        quarantined |-> Quarantined(f, looked, read),
                        status |-> "pending", claim |-> "none"])
<1>1. ASSUME NEW t, NEW piece
      PROVE  ~Has(Mask(t), "secret") /\ (Has(Mask(t), "lure") => Has(t, "lure"))
  BY DEF Has, Mask
<1>2. looked => /\ ~Has(Kept(f.content, looked), "secret")
                /\ Has(Kept(f.content, looked), "lure") => Has(ClaimText(f.content), "lure")
  BY <1>1 DEF Kept
<1>3. ~read => ~Has(Scanned(f.front, read), "secret") /\ ~Has(Scanned(f.front, read), "lure")
  BY DEF Scanned, Has
<1>4. read => /\ ~Has(Scanned(f.front, read), "secret")
              /\ Has(Scanned(f.front, read), "lure") => Has(Says(f.front), "lure")
  BY <1>1 DEF Scanned
<1> QED BY <1>2, <1>3, <1>4 DEF CandidateOK, Quarantined

LEMMA AppendOK ==
    ASSUME NEW q, q \in Seq(Range(q)), NEW k
    PROVE  /\ Append(q, k) \in Seq(Range(Append(q, k)))
           /\ Len(q) \in Nat /\ DOMAIN q = 1 .. Len(q)
           /\ DOMAIN Append(q, k) = 1 .. Len(q) + 1
           /\ Append(q, k)[Len(q) + 1] = k
           /\ \A i \in DOMAIN q : Append(q, k)[i] = q[i]
<1> DEFINE S == Range(q) \cup {k}
           r == Append(q, k)
<1>1. q \in Seq(S) /\ k \in S
  BY SeqMonotonic
<1> HIDE DEF S
<1>2. /\ r \in Seq(S) /\ Len(r) = Len(q) + 1 /\ r[Len(q) + 1] = k
      /\ \A i \in 1 .. Len(q) : r[i] = q[i]
  BY <1>1, AppendProperties
<1>3. Len(q) \in Nat /\ DOMAIN q = 1 .. Len(q) /\ DOMAIN r = 1 .. Len(q) + 1
  BY <1>1, <1>2, LenProperties
<1> HIDE DEF r
<1>4. r \in [1 .. Len(q) + 1 -> Range(r)]
  BY <1>2, <1>3, LenProperties DEF Range
<1>5. r \in Seq(Range(r))
  BY <1>3, <1>4
<1> QED BY <1>2, <1>3, <1>5 DEF r

LEMMA StepCreateCandidate ==
    ASSUME OkfInv, NEW s \in Sessions, CreateCandidate(s)
    PROVE  OkfInv'
<1> DEFINE x == [at |-> "next", todo |-> job[s].todo]
<1>1. /\ Sets(s, x) /\ job[s].at = "create" /\ Importing(s)
      /\ UNCHANGED <<text, directory, report, raced>>
  BY DEF CreateCandidate, Go, Sets, source, Importing
<1>2. JobOK(s, x) /\ x.at = "next" /\ CreateOK(x)
  BY DEF JobOK, CreateOK, WithBundle
<1> HIDE DEF x
<1>3. CASE UNCHANGED candidates
  BY <1>1, <1>2, <1>3, Moves
<1>4. ASSUME NEW looked \in BOOLEAN, NEW read \in BOOLEAN,
             candidates' = Append(candidates,
                 [ref |-> job[s].ref, sum |-> job[s].file, text |-> Kept(job[s].file.content, looked),
                  says |-> Scanned(job[s].file.front, read),
                  quarantined |-> Quarantined(job[s].file, looked, read),
                  status |-> "pending", claim |-> "none"])
      PROVE  OkfInv'
  <2> DEFINE k == [ref |-> job[s].ref, sum |-> job[s].file, text |-> Kept(job[s].file.content, looked),
                   says |-> Scanned(job[s].file.front, read),
                   quarantined |-> Quarantined(job[s].file, looked, read),
                   status |-> "pending", claim |-> "none"]
             n == Len(candidates) + 1
  <2>1. CandidateOK(k)
    BY NewCandidateOK
  <2>2. k.ref = job[s].ref /\ k.sum = job[s].file
    OBVIOUS
  <2>3. candidates' = Append(candidates, k)
    BY <1>4
  <2> HIDE DEF k
  <2>4. /\ candidates' \in Seq(Range(candidates')) /\ n \in Nat \ {0}
        /\ DOMAIN candidates = 1 .. n - 1 /\ DOMAIN candidates' = 1 .. n
        /\ candidates'[n] = k /\ \A i \in DOMAIN candidates : candidates'[i] = candidates[i]
    <3>1. candidates \in Seq(Range(candidates))
      BY DEF OkfInv, Proposals, CandidatesOK
    <3> QED BY <2>3, <3>1, AppendOK
  <2> HIDE DEF n
  <2>5. job'[s] = x /\ \A t \in Sessions \ {s} : job'[t] = job[t]
    BY <1>1 DEF OkfInv, Documents, JobsOK, Sets
  <2>6. Documents' /\ Held'
    BY <1>1, <1>2, DocumentsMove, HeldMoves DEF OkfInv, Documents
  <2>7. Alone'
    BY <1>1, <2>5 DEF OkfInv, Proposals, Alone, Importing
  <2>8. ASSUME NEW t \in Sessions PROVE CreateOK(job[t])'
    <3>1. CASE t = s
      BY <1>2, <2>5, <3>1 DEF CreateOK
    <3>2. CASE t # s /\ Importing(t)
      BY <1>1, <3>2 DEF OkfInv, Proposals, Alone, CreateOK
    <3>3. CASE t # s /\ ~Importing(t)
      BY <2>5, <3>3 DEF CreateOK, Importing
    <3> QED BY <3>1, <3>2, <3>3
  <2>9. \A i \in DOMAIN candidates' : CandidateOK(candidates'[i])
    BY <2>1, <2>4 DEF OkfInv, Proposals, CandidatesOK
  <2>10. CandidatesOK'
    BY <2>4, <2>8, <2>9 DEF CandidatesOK
  <2>11. ProposedOnce'
    <3> SUFFICES ASSUME ~raced, NEW i \in 1 .. n, NEW j \in 1 .. n, i < j,
                        candidates'[i].ref = candidates'[j].ref,
                        candidates'[i].sum = candidates'[j].sum
                 PROVE  candidates'[i].status = "rejected"
      BY <1>1, <2>4 DEF ProposedOnce
    <3>1. i \in DOMAIN candidates /\ candidates'[i] = candidates[i]
      BY <2>4
    <3>2. CASE j = n
      <4>1. CreateOK(job[s])
        BY DEF OkfInv, Proposals, CandidatesOK
      <4>2. candidates[i].ref = job[s].ref /\ candidates[i].sum = job[s].file
        BY <2>2, <2>4, <3>1, <3>2
      <4> QED BY <1>1, <3>1, <4>1, <4>2 DEF CreateOK
    <3>3. CASE j # n
      <4>1. j \in DOMAIN candidates /\ candidates'[j] = candidates[j]
        BY <2>4, <3>3
      <4> QED BY <3>1, <4>1 DEF OkfInv, Proposals, ProposedOnce
    <3> QED BY <3>2, <3>3
  <2> QED BY <2>6, <2>7, <2>10, <2>11 DEF OkfInv, Proposals
<1> QED BY <1>3, <1>4 DEF CreateCandidate

\* Review turns candidates down, and never brings one back.
LEMMA StepJudge ==
    ASSUME OkfInv, Judge
    PROVE  OkfInv'
<1>1. UNCHANGED <<text, directory, job, report, raced>>
  BY DEF Judge, source
<1>2. candidates \in Seq(Range(candidates)) /\ \A i \in DOMAIN candidates : CandidateOK(candidates[i])
  BY DEF OkfInv, Proposals, CandidatesOK
<1>3. Len(candidates) \in Nat /\ DOMAIN candidates = 1 .. Len(candidates)
  BY <1>2, LenProperties
<1>4. /\ DOMAIN candidates' = DOMAIN candidates
      /\ candidates' = [i \in DOMAIN candidates |-> candidates'[i]]
      /\ \A i \in DOMAIN candidates :
            /\ candidates'[i].ref = candidates[i].ref /\ candidates'[i].sum = candidates[i].sum
            /\ CandidateOK(candidates'[i])
            /\ candidates[i].status = "rejected" => candidates'[i].status = "rejected"
  <2> DEFINE Turned(i, k) ==
                /\ k.ref = candidates[i].ref /\ k.sum = candidates[i].sum
                /\ CandidateOK(k)
                /\ candidates[i].status = "rejected" => k.status = "rejected"
  <2>1. ASSUME NEW i \in DOMAIN candidates, candidates[i].status = "pending",
               candidates' = [candidates EXCEPT ![i].status = "promoted", ![i].claim = "promoted"]
        PROVE  \A j \in DOMAIN candidates : Turned(j, candidates'[j])
    BY <1>2, <2>1 DEF CandidateOK
  <2>2. ASSUME NEW i \in DOMAIN candidates,
               candidates' = [candidates EXCEPT ![i].status = "rejected"]
        PROVE  \A j \in DOMAIN candidates : Turned(j, candidates'[j])
    BY <1>2, <2>2 DEF CandidateOK
  <2>3. ASSUME NEW i \in DOMAIN candidates,
               candidates' = [candidates EXCEPT ![i].claim = "superseded"]
        PROVE  \A j \in DOMAIN candidates : Turned(j, candidates'[j])
    BY <1>2, <2>3 DEF CandidateOK
  <2>4. \A j \in DOMAIN candidates : Turned(j, candidates'[j])
    BY <2>1, <2>2, <2>3 DEF Judge
  <2>5. candidates' = [i \in DOMAIN candidates |-> candidates'[i]]
    <3>1. candidates = [i \in DOMAIN candidates |-> candidates[i]]
      BY <1>2, LenProperties
    <3> QED BY <1>2, <3>1 DEF Judge
  <2> QED BY <2>4, <2>5
<1>5. candidates' \in Seq(Range(candidates'))
  <2>1. candidates' \in [1 .. Len(candidates) -> Range(candidates')]
    BY <1>3, <1>4 DEF Range
  <2> QED BY <1>3, <2>1
<1>6. ASSUME NEW s \in Sessions PROVE CreateOK(job[s])'
  <2>1. CreateOK(job[s])
    BY DEF OkfInv, Proposals, CandidatesOK
  <2> QED BY <1>1, <1>4, <2>1 DEF CreateOK
<1>7. CandidatesOK'
  BY <1>4, <1>5, <1>6 DEF CandidatesOK
<1>8. ProposedOnce'
  BY <1>1, <1>4 DEF OkfInv, Proposals, ProposedOnce
<1>9. Alone'
  BY <1>1 DEF OkfInv, Proposals, Alone, Importing
<1>10. JobsOK'
  BY <1>1 DEF OkfInv, Documents, JobsOK, JobOK, BundleOK, DocumentOK
<1>11. Documents' /\ Held'
  BY <1>1, <1>10 DEF OkfInv, Documents, TextsOK, ReportIsHonest, Held, directory
<1> QED BY <1>7, <1>8, <1>9, <1>11 DEF OkfInv, Proposals

LEMMA OkfStep ==
    ASSUME OkfInv, [Next]_vars
    PROVE  OkfInv'
<1>1. CASE Curate
  BY <1>1, Rests DEF Curate
<1>2. CASE Judge
  BY <1>2, StepJudge
<1>3. CASE Rest \/ UNCHANGED vars
  BY <1>3, Rests DEF Rest, vars, source
<1>4. ASSUME NEW s \in Sessions, ImportEnd(s) \/ Stop(s) PROVE OkfInv'
  <2>1. Sets(s, Idle) /\ UNCHANGED <<text, directory, candidates, report, raced>>
    BY <1>4 DEF ImportEnd, Stop, Go, Sets, source
  <2> QED BY <2>1, IdleOK, Moves
<1>5. ASSUME NEW s \in Sessions,
             \/ ExportBegin(s) \/ ExportBuild(s) \/ MoveAside(s) \/ MoveIn(s) \/ RemoveOld(s)
             \/ Compare(s)
             \/ ImportBegin(s) \/ ReadDocument(s) \/ CompareWithPrior(s) \/ CreateCandidate(s)
      PROVE  OkfInv'
  BY <1>5, StepExportBegin, StepExportBuild, StepMoveAside, StepMoveIn, StepRemoveOld,
     StepCompare, StepImportBegin, StepReadDocument, StepCompareWithPrior, StepCreateCandidate
<1> QED BY <1>1, <1>2, <1>3, <1>4, <1>5 DEF Next

\* The invariant of module Okf.
THEOREM OkfInvariant == Spec => []OkfInv
<1>1. Init => OkfInv
  BY OkfInitOK
<1>2. OkfInv /\ [Next]_vars => OkfInv'
  BY OkfStep
<1> QED BY <1>1, <1>2, PTL DEF Spec

\* Once there was a bundle there is a whole one, in the directory or beside it, wherever
\* exports end (swap.py: the swap of export_bundle).
THEOREM BundlesSurvive == Spec => []ABundleSurvives
<1>1. OkfInv => ABundleSurvives
  BY DEF OkfInv, Held, ABundleSurvives
<1> QED BY <1>1, OkfInvariant, PTL

\* An import that did not race proposes no document a second time while its first candidate
\* stands (import_bundle).
THEOREM ImportsProposeOnce == Spec => []ProposedOnce
<1>1. OkfInv => ProposedOnce
  BY DEF OkfInv, Proposals
<1> QED BY <1>1, OkfInvariant, PTL

\* The round trip claims of no body and of no field more than came back (_compare).
THEOREM ReportsAreHonest == Spec => []ReportIsHonest
<1>1. OkfInv => ReportIsHonest
  BY DEF OkfInv, Documents
<1> QED BY <1>1, OkfInvariant, PTL

\* No candidate of an import holds a secret or a lure outside quarantine, whichever scans
\* failed, and none holds a secret in its metadata.
THEOREM RawImportsAreQuarantined == Spec => []RawIsQuarantined
<1>1. OkfInv => RawIsQuarantined
  BY DEF OkfInv, Proposals, CandidatesOK, CandidateOK, RawIsQuarantined
<1> QED BY <1>1, OkfInvariant, PTL

-----------------------------------------------------------------------------
(***************************************************************************)
(* Loops                                                                   *)
(***************************************************************************)
\* What holds of 0, and of each number when it holds of the one before, holds up to k.
LEMMA Upward ==
    ASSUME NEW k \in Nat, NEW G, 0 \in G,
           \A n \in 1 .. k : n - 1 \in G => n \in G
    PROVE  \A n \in 0 .. k : n \in G
<1> DEFINE bad == {n \in 0 .. k : n \notin G}
<1>1. bad = {}
  <2>1. SUFFICES ASSUME bad # {} PROVE FALSE
    OBVIOUS
  <2>2. PICK n \in bad : \A m \in bad : n <= m
    <3>1. bad \in SUBSET Nat
      OBVIOUS
    <3> HIDE DEF bad
    <3> QED BY <2>1, <3>1, Least
  <2>3. n \in 1 .. k
    BY <2>2
  <2>4. n - 1 \in 0 .. k /\ ~(n <= n - 1)
    BY <2>3
  <2>5. n - 1 \in G
    BY <2>2, <2>4
  <2> QED BY <2>2, <2>3, <2>5
<1> QED BY <1>1

\* A loop that makes the next value from the last and the round has a value for each round.
Looped(A, a, k, step, f) ==
    /\ f \in [0 .. k -> A] /\ f[0] = a
    /\ \A n \in 1 .. k : f[n] = step[<<f[n - 1], n>>]

LEMMA Loop ==
    ASSUME NEW A, NEW a \in A, NEW k \in Nat, NEW step \in [A \X (1 .. k) -> A]
    PROVE  \E f : Looped(A, a, k, step, f)
<1> DEFINE Runs(m, f) == /\ f \in [0 .. m -> A] /\ f[0] = a
                         /\ \A n \in 1 .. m : f[n] = step[<<f[n - 1], n>>]
           G == {m \in 0 .. k : \E f : Runs(m, f)}
<1>1. 0 \in G
  <2> DEFINE f == [n \in 0 .. 0 |-> a]
  <2>1. f \in [0 .. 0 -> A] /\ f[0] = a
    OBVIOUS
  <2>2. 1 .. 0 = {}
    OBVIOUS
  <2> HIDE DEF f
  <2>3. Runs(0, f)
    BY <2>1, <2>2
  <2> QED BY <2>3
<1>2. ASSUME NEW m \in 1 .. k, m - 1 \in G
      PROVE  m \in G
  <2>1. PICK f : Runs(m - 1, f)
    BY <1>2
  <2> DEFINE g == [n \in 0 .. m |-> IF n = m THEN step[<<f[m - 1], m>>] ELSE f[n]]
  <2>2. m - 1 \in 0 .. (m - 1) /\ 0 \in 0 .. (m - 1) /\ 0 # m
    OBVIOUS
  <2>3. step[<<f[m - 1], m>>] \in A
    <3>1. f[m - 1] \in A
      BY <2>1, <2>2
    <3>2. <<f[m - 1], m>> \in A \X (1 .. k)
      BY <3>1
    <3> QED BY <3>2
  <2>4. \A n \in 0 .. m : n # m => n \in 0 .. (m - 1)
    OBVIOUS
  <2>5. \A n \in 0 .. m : g[n] \in A
    BY <2>1, <2>3, <2>4
  <2>6. g \in [0 .. m -> A]
    BY <2>5
  <2>7. g[0] = a
    BY <2>1, <2>2
  <2>8. ASSUME NEW n \in 1 .. m
        PROVE  g[n] = step[<<g[n - 1], n>>]
    <3>1. n - 1 \in 0 .. m /\ n \in 0 .. m /\ n - 1 # m
      OBVIOUS
    <3>2. g[n - 1] = f[n - 1]
      BY <3>1
    <3>3. CASE n = m
      BY <3>1, <3>2, <3>3
    <3>4. CASE n # m
      <4>1. n \in 1 .. (m - 1)
        BY <3>4
      <4>2. f[n] = step[<<f[n - 1], n>>]
        BY <2>1, <4>1
      <4> QED BY <3>1, <3>2, <3>4, <4>2
    <3> QED BY <3>3, <3>4
  <2> HIDE DEF g
  <2>9. Runs(m, g)
    BY <2>6, <2>7, <2>8
  <2> QED BY <2>9
<1> HIDE DEF G
<1>3. \A m \in 0 .. k : m \in G
  BY <1>1, <1>2, Upward
<1>4. k \in G
  BY <1>3
<1> QED BY <1>4 DEF G, Looped

-----------------------------------------------------------------------------
(***************************************************************************)
(* The spans in order (redaction.merge_spans)                              *)
(***************************************************************************)
\* Of finitely many spans one comes first.
LEMMA FirstSpan ==
    ASSUME NEW S \in SUBSET (Nat \X Nat), IsFiniteSet(S), S # {}
    PROVE  \E u \in S : \A w \in S \ {u} : Precedes(u, w)
<1> DEFINE HasFirst(T) == \E u \in T : \A w \in T \ {u} : Precedes(u, w)
           Bad == {n \in Nat : \E T \in SUBSET (Nat \X Nat) :
                      IsFiniteSet(T) /\ T # {} /\ Cardinality(T) = n /\ ~HasFirst(T)}
<1>1. Bad = {}
  <2>1. SUFFICES ASSUME Bad # {} PROVE FALSE
    OBVIOUS
  <2>2. PICK n \in Bad : \A m \in Bad : n <= m
    <3>1. Bad \in SUBSET Nat
      OBVIOUS
    <3> HIDE DEF Bad
    <3> QED BY <2>1, <3>1, Least
  <2>3. PICK T \in SUBSET (Nat \X Nat) :
           IsFiniteSet(T) /\ T # {} /\ Cardinality(T) = n /\ ~HasFirst(T)
    BY <2>2
  <2>4. PICK x \in T : TRUE
    BY <2>3
  <2> DEFINE rest == T \ {x}
  <2>5. IsFiniteSet(rest) /\ Cardinality(rest) = n - 1
    BY <2>3, <2>4, FS_RemoveElement
  <2>6. n \in Nat /\ n - 1 \in Nat
    <3>1. Cardinality(rest) \in Nat
      BY <2>5, FS_CardinalityType
    <3> QED BY <2>2, <2>5, <3>1
  <2>7. n - 1 \notin Bad
    <3> HIDE DEF Bad
    <3>1. ASSUME n - 1 \in Bad PROVE FALSE
      <4>1. n <= n - 1
        BY <2>2, <3>1
      <4> QED BY <2>6, <4>1
    <3> QED BY <3>1
  <2>8. rest \in SUBSET (Nat \X Nat)
    OBVIOUS
  <2>9. rest # {} => HasFirst(rest)
    BY <2>5, <2>6, <2>7, <2>8
  <2>10. CASE rest = {}
    <3>1. \A w \in T \ {x} : Precedes(x, w)
      BY <2>10
    <3> QED BY <2>3, <2>4, <3>1
  <2>11. CASE rest # {}
    <3>1. PICK u \in rest : \A w \in rest \ {u} : Precedes(u, w)
      BY <2>9, <2>11
    <3>2. u \in Nat \X Nat /\ x \in Nat \X Nat /\ u # x /\ u \in T
      BY <2>3, <2>4
    <3>3. Precedes(u, x) \/ Precedes(x, u)
      BY <3>2 DEF Precedes
    <3>4. CASE Precedes(u, x)
      <4>1. \A w \in T \ {u} : Precedes(u, w)
        BY <3>1, <3>4
      <4> QED BY <2>3, <3>2, <4>1
    <3>5. CASE Precedes(x, u)
      <4>1. ASSUME NEW w \in T \ {x} PROVE Precedes(x, w)
        <5>1. CASE w = u
          BY <3>5, <5>1
        <5>2. CASE w # u
          <6>1. Precedes(u, w) /\ w \in Nat \X Nat
            BY <2>3, <3>1, <4>1, <5>2
          <6> QED BY <3>2, <3>5, <6>1 DEF Precedes
        <5> QED BY <5>1, <5>2
      <4> QED BY <2>3, <2>4, <4>1
    <3> QED BY <3>3, <3>4, <3>5
  <2> QED BY <2>10, <2>11
<1>2. Cardinality(S) \in Nat
  BY FS_CardinalityType
<1>3. Cardinality(S) \notin Bad
  BY <1>1
<1> QED BY <1>2, <1>3

Ordered(S, seq) ==
    /\ seq \in SetToSeqs(S)
    /\ \A i, j \in DOMAIN seq : i < j => Precedes(seq[i], seq[j])

LEMMA CanBeOrdered ==
    ASSUME NEW S \in SUBSET (Nat \X Nat), IsFiniteSet(S)
    PROVE  \E seq : Ordered(S, seq)
<1> DEFINE Bad == {n \in Nat : \E T \in SUBSET (Nat \X Nat) :
                      IsFiniteSet(T) /\ Cardinality(T) = n /\ ~ \E seq : Ordered(T, seq)}
<1>1. Bad = {}
  <2>1. SUFFICES ASSUME Bad # {} PROVE FALSE
    OBVIOUS
  <2>2. PICK n \in Bad : \A m \in Bad : n <= m
    <3>1. Bad \in SUBSET Nat
      OBVIOUS
    <3> HIDE DEF Bad
    <3> QED BY <2>1, <3>1, Least
  <2>3. PICK T \in SUBSET (Nat \X Nat) :
           IsFiniteSet(T) /\ Cardinality(T) = n /\ ~ \E seq : Ordered(T, seq)
    BY <2>2
  <2>4. CASE T = {}
    <3> DEFINE e == [i \in 1 .. 0 |-> i]
    <3>1. Cardinality(T) = 0
      BY <2>4, FS_EmptySet
    <3>2. 1 .. 0 = {}
      OBVIOUS
    <3>3. DOMAIN e = {}
      BY <3>2
    <3>4. e \in [1 .. Cardinality(T) -> T]
      BY <3>1, <3>2
    <3>5. e \in SetToSeqs(T)
      BY <2>4, <3>3, <3>4 DEF SetToSeqs
    <3>6. Ordered(T, e)
      BY <3>3, <3>5 DEF Ordered
    <3> QED BY <2>3, <3>6
  <2>5. CASE T # {}
    <3>1. PICK u \in T : \A w \in T \ {u} : Precedes(u, w)
      BY <2>3, <2>5, FirstSpan
    <3> DEFINE rest == T \ {u}
    <3>2. IsFiniteSet(rest) /\ Cardinality(rest) = n - 1
      BY <2>3, <3>1, FS_RemoveElement
    <3>3. n \in Nat /\ n - 1 \in Nat
      <4>1. Cardinality(rest) \in Nat
        BY <3>2, FS_CardinalityType
      <4> QED BY <2>2, <3>2, <4>1
    <3>4. n - 1 \notin Bad
      <4> HIDE DEF Bad
      <4>1. ASSUME n - 1 \in Bad PROVE FALSE
        <5>1. n <= n - 1
          BY <2>2, <4>1
        <5> QED BY <3>3, <5>1
      <4> QED BY <4>1
    <3>5. rest \in SUBSET (Nat \X Nat)
      OBVIOUS
    <3>6. PICK t : Ordered(rest, t)
      <4> HIDE DEF rest
      <4> QED BY <3>2, <3>3, <3>4, <3>5
    <3>7. /\ t \in [1 .. (n - 1) -> rest]
          /\ \A i, j \in 1 .. (n - 1) : i # j => t[i] # t[j]
          /\ \A i, j \in 1 .. (n - 1) : i < j => Precedes(t[i], t[j])
      <4>1. t \in SetToSeqs(rest)
        BY <3>6 DEF Ordered
      <4>2. /\ t \in [1 .. (n - 1) -> rest]
            /\ \A i, j \in 1 .. (n - 1) : i # j => t[i] # t[j]
        BY <3>2, <4>1 DEF SetToSeqs
      <4>3. DOMAIN t = 1 .. (n - 1)
        BY <4>2
      <4> QED BY <3>6, <4>2, <4>3 DEF Ordered
    <3> DEFINE seq == [i \in 1 .. n |-> IF i = 1 THEN u ELSE t[i - 1]]
    <3>8. /\ DOMAIN seq = 1 .. n
          /\ \A i \in 1 .. n : i # 1 => i - 1 \in 1 .. (n - 1) /\ seq[i] = t[i - 1]
          /\ 1 \in 1 .. n => seq[1] = u
      BY <3>3
    <3>9. seq = [i \in 1 .. n |-> seq[i]]
      OBVIOUS
    <3> HIDE DEF seq
    <3>10. \A i \in 1 .. n : i # 1 => seq[i] \in rest
      BY <3>7, <3>8
    <3>11. \A i \in 1 .. n : seq[i] \in T
      BY <3>1, <3>8, <3>10
    <3>12. seq \in [1 .. n -> T]
      BY <3>9, <3>11
    <3>13. ASSUME NEW i \in 1 .. n, NEW j \in 1 .. n, i # j
           PROVE  seq[i] # seq[j]
      <4>1. CASE i = 1
        BY <3>8, <3>10, <3>13, <4>1
      <4>2. CASE j = 1
        BY <3>8, <3>10, <3>13, <4>2
      <4>3. CASE i # 1 /\ j # 1
        <5>1. i - 1 \in 1 .. (n - 1) /\ j - 1 \in 1 .. (n - 1) /\ i - 1 # j - 1
          BY <3>3, <3>8, <3>13, <4>3
        <5> QED BY <3>7, <3>8, <4>3, <5>1
      <4> QED BY <4>1, <4>2, <4>3
    <3>14. ASSUME NEW i \in 1 .. n, NEW j \in 1 .. n, i < j
           PROVE  Precedes(seq[i], seq[j])
      <4>1. j # 1 /\ j - 1 \in 1 .. (n - 1) /\ seq[j] = t[j - 1]
        BY <3>3, <3>8, <3>14
      <4>2. CASE i = 1
        <5>1. seq[j] \in rest
          BY <3>10, <4>1
        <5> QED BY <3>1, <3>8, <4>2, <5>1
      <4>3. CASE i # 1
        <5>1. i - 1 \in 1 .. (n - 1) /\ seq[i] = t[i - 1] /\ i - 1 < j - 1
          BY <3>3, <3>8, <3>14, <4>3
        <5> QED BY <3>7, <4>1, <5>1
      <4> QED BY <4>2, <4>3
    <3>15. seq \in SetToSeqs(T)
      BY <2>3, <3>12, <3>13 DEF SetToSeqs
    <3>16. Ordered(T, seq)
      BY <3>8, <3>14, <3>15 DEF Ordered
    <3> QED BY <2>3, <3>16
  <2> QED BY <2>4, <2>5
<1>2. Cardinality(S) \in Nat /\ Cardinality(S) \notin Bad
  BY <1>1, FS_CardinalityType
<1> QED BY <1>2

\* sorted(): every span once, the ones that come first before the others.
LEMMA InOrderOK ==
    ASSUME NEW S \in SUBSET (Nat \X Nat), IsFiniteSet(S)
    PROVE  /\ InOrder(S) \in Seq(S)
           /\ \A i, j \in 1 .. Len(InOrder(S)) : i < j => Precedes(InOrder(S)[i], InOrder(S)[j])
           /\ \A p \in S : \E i \in 1 .. Len(InOrder(S)) : InOrder(S)[i] = p
<1> DEFINE n == Cardinality(S)
           seq == InOrder(S)
<1>1. Ordered(S, seq)
  <2>1. seq = CHOOSE q \in SetToSeqs(S) : \A i, j \in DOMAIN q : i < j => Precedes(q[i], q[j])
    BY DEF InOrder
  <2>2. \E q \in SetToSeqs(S) : \A i, j \in DOMAIN q : i < j => Precedes(q[i], q[j])
    BY CanBeOrdered DEF Ordered
  <2> HIDE DEF seq
  <2> QED BY <2>1, <2>2 DEF Ordered
<1>2. n \in Nat
  BY FS_CardinalityType
<1> HIDE DEF seq
<1>3. /\ seq \in [1 .. n -> S]
      /\ \A i, j \in 1 .. n : i # j => seq[i] # seq[j]
  BY <1>1 DEF Ordered, SetToSeqs
<1>4. seq \in Injection(1 .. n, S)
  BY <1>3 DEF Injection, IsInjective
<1>5. IsFiniteSet(1 .. n) /\ Cardinality(1 .. n) = n
  <2>1. IsFiniteSet(1 .. n) /\ Cardinality(1 .. n) = IF 1 > n THEN 0 ELSE n - 1 + 1
    <3> HIDE DEF n
    <3> QED BY <1>2, FS_Interval
  <2> HIDE DEF n
  <2> QED BY <1>2, <2>1
<1>6. seq \in Surjection(1 .. n, S)
  <2>1. Cardinality(1 .. n) = Cardinality(S)
    BY <1>5
  <2> HIDE DEF n
  <2> QED BY <1>4, <2>1, FS_Injection
<1> HIDE DEF n
<1>7. seq \in Seq(S) /\ Len(seq) = n /\ DOMAIN seq = 1 .. n
  BY <1>2, <1>3
<1>8. \A p \in S : \E i \in 1 .. n : seq[i] = p
  BY <1>6 DEF Surjection
<1>9. \A i, j \in 1 .. n : i < j => Precedes(seq[i], seq[j])
  BY <1>1, <1>7 DEF Ordered
<1>10. seq = InOrder(S)
  BY DEF seq
<1> QED BY <1>7, <1>8, <1>9, <1>10

-----------------------------------------------------------------------------
(***************************************************************************)
(* What is masked (redaction.redact)                                       *)
(***************************************************************************)
SpanSet == {p \in Nat \X Nat : p[1] < p[2]}
Chars(p) == p[1] .. (p[2] - 1)
AllChars(spans) == UNION {Chars(spans[i]) : i \in 1 .. Len(spans)}

LEMMA AppendedChars ==
    ASSUME NEW spans \in Seq(SpanSet), NEW p \in SpanSet
    PROVE  /\ Append(spans, p) \in Seq(SpanSet)
           /\ Len(Append(spans, p)) = Len(spans) + 1
           /\ Append(spans, p)[Len(spans) + 1] = p
           /\ AllChars(Append(spans, p)) = AllChars(spans) \cup Chars(p)
<1> DEFINE longer == Append(spans, p)
<1>1. /\ longer \in Seq(SpanSet) /\ Len(longer) = Len(spans) + 1 /\ Len(spans) \in Nat
      /\ longer[Len(spans) + 1] = p
      /\ \A i \in 1 .. Len(spans) : longer[i] = spans[i]
  BY AppendProperties, LenProperties
<1>2. 1 .. Len(longer) = (1 .. Len(spans)) \cup {Len(spans) + 1}
  BY <1>1
<1> HIDE DEF longer
<1>3. AllChars(longer) = AllChars(spans) \cup Chars(p)
  BY <1>1, <1>2 DEF AllChars
<1> QED BY <1>1, <1>3 DEF longer

LEMMA LastChars ==
    ASSUME NEW spans \in Seq(SpanSet), spans # <<>>
    PROVE  /\ Front(spans) \in Seq(SpanSet) /\ Last(spans) \in SpanSet
           /\ AllChars(spans) = AllChars(Front(spans)) \cup Chars(Last(spans))
<1> DEFINE n == Len(spans)
           front == SubSeq(spans, 1, n - 1)
<1>1. n \in Nat /\ n # 0
  BY LenProperties, EmptySeq
<1>2. /\ front \in Seq(SpanSet) /\ Len(front) = n - 1
      /\ \A i \in 1 .. (n - 1) : front[i] = spans[i]
  <2>1. \A i \in 1 .. (n - 1) : spans[i] \in SpanSet
    <3>1. \A i \in 1 .. (n - 1) : i \in 1 .. Len(spans)
      BY <1>1
    <3> QED BY <3>1, ElementOfSeq
  <2>2. 1 \in Nat /\ n - 1 \in Nat /\ 1 <= n - 1 + 1
    BY <1>1
  <2>3. front \in Seq(SpanSet)
    BY <2>1, <2>2, SubSeqProperties
  <2>4. Len(front) = IF 1 <= n - 1 THEN n - 1 - 1 + 1 ELSE 0
    BY <2>1, <2>2, SubSeqProperties
  <2>5. \A i \in 1 .. (n - 1) : front[i] = spans[i]
    BY <1>1
  <2> HIDE DEF n, front
  <2> QED BY <1>1, <2>2, <2>3, <2>4, <2>5
<1>3. spans[n] \in SpanSet
  BY <1>1, ElementOfSeq
<1>4. 1 .. n = (1 .. (n - 1)) \cup {n}
  BY <1>1
<1>5. AllChars(spans) = AllChars(front) \cup Chars(spans[n])
  <2> HIDE DEF front
  <2> QED BY <1>2, <1>4 DEF AllChars
<1> QED BY <1>2, <1>3, <1>5 DEF Front, Last

LEMMA JoinedOK ==
    ASSUME NEW merged \in Seq(SpanSet), NEW span \in SpanSet
    PROVE  /\ Joined(merged, span) \in Seq(SpanSet)
           /\ merged = <<>> \/ Last(merged)[1] <= span[1] =>
                 /\ Joined(merged, span) # <<>> /\ Last(Joined(merged, span))[1] <= span[1]
                 /\ AllChars(Joined(merged, span)) = AllChars(merged) \cup Chars(span)
<1>1. ASSUME NEW spans \in Seq(SpanSet), NEW p \in SpanSet
      PROVE  Append(spans, p) # <<>> /\ Last(Append(spans, p)) = p
  <2>1. Len(Append(spans, p)) = Len(spans) + 1 /\ Append(spans, p)[Len(spans) + 1] = p
    BY AppendedChars
  <2>2. Len(spans) \in Nat /\ Len(<<>>) = 0
    BY LenProperties, EmptySeq
  <2>3. Len(spans) + 1 # 0
    BY <2>2
  <2>4. Append(spans, p) # <<>>
    BY <2>1, <2>2, <2>3
  <2> QED BY <2>1, <2>4 DEF Last
<1>2. span[1] \in Nat /\ span[2] \in Nat /\ span[1] < span[2]
  BY DEF SpanSet
<1>3. CASE merged # <<>> /\ span[1] < Last(merged)[2]
  <2> DEFINE l == Last(merged)
             p == <<l[1], IF span[2] > l[2] THEN span[2] ELSE l[2]>>
  <2>1. Joined(merged, span) = Append(Front(merged), p)
    BY <1>3 DEF Joined
  <2>2. /\ Front(merged) \in Seq(SpanSet) /\ l \in SpanSet
        /\ AllChars(merged) = AllChars(Front(merged)) \cup Chars(l)
    BY <1>3, LastChars
  <2>3. l[1] \in Nat /\ l[2] \in Nat /\ l[1] < l[2] /\ span[1] < l[2]
    BY <1>3, <2>2 DEF SpanSet
  <2>4. p[1] = l[1] /\ p[2] = (IF span[2] > l[2] THEN span[2] ELSE l[2])
    OBVIOUS
  <2>5. p \in SpanSet
    BY <1>2, <2>3 DEF SpanSet
  <2>6. l[1] <= span[1] => Chars(p) = Chars(l) \cup Chars(span)
    <3> HIDE DEF p, l
    <3> QED BY <1>2, <2>3, <2>4 DEF Chars
  <2> HIDE DEF p, l
  <2>7. AllChars(Append(Front(merged), p)) = AllChars(Front(merged)) \cup Chars(p)
    BY <2>2, <2>5, AppendedChars
  <2>8. Append(Front(merged), p) \in Seq(SpanSet)
    BY <2>2, <2>5, AppendedChars
  <2>9. Append(Front(merged), p) # <<>> /\ Last(Append(Front(merged), p)) = p
    BY <1>1, <2>2, <2>5
  <2>10. merged = <<>> \/ l[1] <= span[1] => l[1] <= span[1]
    BY <1>3
  <2>11. l = Last(merged)
    BY DEF l
  <2> QED BY <2>1, <2>2, <2>4, <2>6, <2>7, <2>8, <2>9, <2>10, <2>11
<1>4. CASE ~(merged # <<>> /\ span[1] < Last(merged)[2])
  <2>1. Joined(merged, span) = Append(merged, span)
    BY <1>4 DEF Joined
  <2>2. Append(merged, span) # <<>> /\ Last(Append(merged, span)) = span
    BY <1>1
  <2> QED BY <1>2, <2>1, <2>2, AppendedChars
<1> QED BY <1>3, <1>4

LEMMA MaskedOK ==
    ASSUME NEW findings, Spans(findings) \subseteq SpanSet, IsFiniteSet(Spans(findings))
    PROVE  Masked(findings) = UNION {Chars(p) : p \in Spans(findings)}
<1> DEFINE spans == Spans(findings)
           o == InOrder(spans)
           k == Len(o)
           A == Seq(SpanSet)
           Merges(g) == g = [n \in 0 .. k |-> IF n = 0 THEN <<>> ELSE Joined(g[n - 1], o[n])]
<1>1. MergeSpans(findings) = (CHOOSE g : Merges(g))[k]
  BY DEF MergeSpans
<1>2. /\ o \in Seq(spans) /\ k \in Nat
      /\ \A i, j \in 1 .. k : i < j => Precedes(o[i], o[j])
      /\ \A p \in spans : \E i \in 1 .. k : o[i] = p
  <2>1. spans \in SUBSET (Nat \X Nat)
    BY DEF SpanSet
  <2> HIDE DEF spans
  <2>2. IsFiniteSet(spans)
    BY DEF spans
  <2> QED BY <2>1, <2>2, InOrderOK, LenProperties
<1> HIDE DEF o, k
<1>3. \A i \in 1 .. k : o[i] \in spans /\ o[i] \in SpanSet
  BY <1>2, ElementOfSeq DEF k
<1>4. \A n \in 1 .. k : n - 1 \in 0 .. k /\ n \in 0 .. k /\ n # 0
  BY <1>2
<1>5. \E g : Merges(g)
  <2> DEFINE step == [x \in A \X (1 .. k) |-> Joined(x[1], o[x[2]])]
  <2>1. \A x \in A \X (1 .. k) : Joined(x[1], o[x[2]]) \in A
    BY <1>3, JoinedOK
  <2>2. step \in [A \X (1 .. k) -> A]
    BY <2>1
  <2>3. <<>> \in A
    BY EmptySeq
  <2>4. \A m \in A : \A n \in 1 .. k : step[<<m, n>>] = Joined(m, o[n])
    OBVIOUS
  <2> HIDE DEF step, A
  <2>5. PICK f : Looped(A, <<>>, k, step, f)
    BY <1>2, <2>2, <2>3, Loop
  <2>6. \A n \in 1 .. k : f[n] = Joined(f[n - 1], o[n])
    BY <1>4, <2>4, <2>5 DEF Looped
  <2>7. \A n \in 0 .. k : f[n] = IF n = 0 THEN <<>> ELSE Joined(f[n - 1], o[n])
    <3>1. \A n \in 0 .. k : n = 0 \/ n \in 1 .. k
      BY <1>2
    <3> QED BY <2>5, <2>6, <3>1 DEF Looped
  <2>8. Merges(f)
    BY <2>5, <2>7 DEF Looped
  <2> QED BY <2>8
<1> DEFINE g == CHOOSE g : Merges(g)
<1>6. Merges(g)
  BY <1>5
<1> HIDE DEF g
<1>7. g[0] = <<>> /\ \A n \in 1 .. k : g[n] = Joined(g[n - 1], o[n])
  BY <1>2, <1>4, <1>6
<1> DEFINE Whole(n) == UNION {Chars(o[i]) : i \in 1 .. n}
           Good(n) == /\ g[n] \in A
                      /\ n # 0 => g[n] # <<>> /\ Last(g[n])[1] <= o[n][1]
                      /\ n = 0 => g[n] = <<>>
                      /\ AllChars(g[n]) = Whole(n)
           G == {n \in 0 .. k : Good(n)}
<1>8. 0 \in G
  <2>1. <<>> \in A /\ Len(<<>>) = 0
    BY EmptySeq
  <2>2. 1 .. 0 = {}
    OBVIOUS
  <2>3. AllChars(<<>>) = {} /\ Whole(0) = {}
    BY <2>1, <2>2 DEF AllChars
  <2>4. Good(0)
    <3> HIDE DEF A, Whole
    <3> QED BY <1>7, <2>1, <2>3
  <2>5. 0 \in 0 .. k
    BY <1>2
  <2> HIDE DEF Good
  <2> QED BY <2>4, <2>5
<1>9. ASSUME NEW n \in 1 .. k, n - 1 \in G
      PROVE  n \in G
  <2>1. n - 1 = 0 \/ n - 1 \in 1 .. k
    BY <1>2
  <2>2. o[n] \in SpanSet /\ g[n] = Joined(g[n - 1], o[n]) /\ g[n - 1] \in A
    BY <1>3, <1>7, <1>9
  <2>3. g[n - 1] = <<>> \/ Last(g[n - 1])[1] <= o[n][1]
    <3>1. CASE n - 1 = 0
      BY <1>9, <3>1
    <3>2. CASE n - 1 \in 1 .. k
      <4>1. Precedes(o[n - 1], o[n])
        BY <1>2, <3>2
      <4>2. o[n - 1] \in SpanSet
        BY <1>3, <3>2
      <4>3. o[n - 1][1] <= o[n][1]
        BY <2>2, <4>1, <4>2 DEF Precedes, SpanSet
      <4>4. g[n - 1] # <<>> /\ Last(g[n - 1])[1] <= o[n - 1][1]
        BY <1>9, <3>2
      <4>5. Last(g[n - 1]) \in SpanSet
        BY <2>2, <4>4, LastChars
      <4> QED BY <2>2, <4>2, <4>3, <4>4, <4>5 DEF SpanSet
    <3> QED BY <2>1, <3>1, <3>2
  <2>4. /\ g[n] \in A /\ g[n] # <<>> /\ Last(g[n])[1] <= o[n][1]
        /\ AllChars(g[n]) = AllChars(g[n - 1]) \cup Chars(o[n])
    BY <2>2, <2>3, JoinedOK
  <2>5. 1 .. n = (1 .. (n - 1)) \cup {n}
    BY <1>2
  <2>6. Whole(n) = Whole(n - 1) \cup Chars(o[n])
    BY <2>5
  <2>7. AllChars(g[n - 1]) = Whole(n - 1)
    BY <1>9
  <2> HIDE DEF Whole, A
  <2> QED BY <1>4, <2>4, <2>6, <2>7
<1>10. k \in G
  <2> HIDE DEF G
  <2>1. \A n \in 0 .. k : n \in G
    BY <1>2, <1>8, <1>9, Upward
  <2> QED BY <1>2, <2>1
<1>11. MergeSpans(findings) = g[k]
  BY <1>1 DEF g
<1>12. Masked(findings) = AllChars(g[k])
  <2>1. DOMAIN g[k] = 1 .. Len(g[k])
    BY <1>10, LenProperties
  <2>2. ToSet(g[k]) = {g[k][i] : i \in 1 .. Len(g[k])}
    BY <2>1 DEF ToSet
  <2> QED BY <1>11, <2>2 DEF Masked, AllChars, Chars
<1>13. Whole(k) = UNION {Chars(p) : p \in spans}
  BY <1>2, <1>3
<1> QED BY <1>10, <1>12, <1>13

-----------------------------------------------------------------------------
(***************************************************************************)
(* Decisions (policies.py)                                                 *)
(***************************************************************************)
Severities == {"low", "medium", "high", "critical"}
Kinds == {"secret", "pii", "scanner_error", "prompt_injection", "tool_instruction", "encoding"}

LEMMA Ranks ==
    /\ Decisions = {"allow", "warn", "redact", "quarantine", "block"}
    /\ RankIn(DecisionOrder, "allow") = 1 /\ RankIn(DecisionOrder, "warn") = 2
    /\ RankIn(DecisionOrder, "redact") = 3 /\ RankIn(DecisionOrder, "quarantine") = 4
    /\ RankIn(DecisionOrder, "block") = 5
<1> DEFINE o == DecisionOrder
<1>1. /\ DOMAIN o = 1 .. 5 /\ o[1] = "allow" /\ o[2] = "warn" /\ o[3] = "redact"
      /\ o[4] = "quarantine" /\ o[5] = "block"
  BY DEF DecisionOrder
<1> HIDE DEF o
<1>2. \A n \in 1 .. 5 : n = 1 \/ n = 2 \/ n = 3 \/ n = 4 \/ n = 5
  OBVIOUS
<1>3. ASSUME NEW n \in 1 .. 5, NEW x, o[n] = x
      PROVE  (CHOOSE m \in DOMAIN o : o[m] = x) = n
  <2>1. \A m \in DOMAIN o : o[m] = x => m = n
    BY <1>1, <1>2, <1>3
  <2> QED BY <1>1, <1>3, <2>1
<1>4. \A n \in 1 .. 5 : RankIn(o, o[n]) = n
  BY <1>3 DEF RankIn
<1>5. Decisions = {o[n] : n \in 1 .. 5}
  BY <1>1 DEF Decisions, ToSet, o
<1>6. {o[n] : n \in 1 .. 5} = {"allow", "warn", "redact", "quarantine", "block"}
  BY <1>1, <1>2
<1>7. 1 \in 1 .. 5 /\ 2 \in 1 .. 5 /\ 3 \in 1 .. 5 /\ 4 \in 1 .. 5 /\ 5 \in 1 .. 5
  OBVIOUS
<1> QED BY <1>1, <1>4, <1>5, <1>6, <1>7 DEF o

LEMMA StrongestOK ==
    ASSUME NEW ds \in SUBSET Decisions, NEW d \in ds
    PROVE  Strongest(ds) \in ds /\ AtLeast(Strongest(ds), d)
<1>1. \E m \in ds : \A e \in ds : AtLeast(m, e)
  <2>1. CASE "block" \in ds
    BY <2>1, Ranks DEF AtLeast
  <2>2. CASE "block" \notin ds /\ "quarantine" \in ds
    BY <2>2, Ranks DEF AtLeast
  <2>3. CASE "block" \notin ds /\ "quarantine" \notin ds /\ "redact" \in ds
    BY <2>3, Ranks DEF AtLeast
  <2>4. CASE "block" \notin ds /\ "quarantine" \notin ds /\ "redact" \notin ds /\ "warn" \in ds
    BY <2>4, Ranks DEF AtLeast
  <2>5. CASE ds = {"allow"}
    BY <2>5, Ranks DEF AtLeast
  <2> QED BY <2>1, <2>2, <2>3, <2>4, <2>5, Ranks
<1>2. Strongest(ds) = CHOOSE m \in ds : \A e \in ds : AtLeast(m, e)
  BY DEF Strongest
<1> QED BY <1>1, <1>2

\* Policy: every table says something of every finding; what did not look is quarantined or
\* blocked; on the surfaces that mask, secrets are masked and what is more than mildly personal.
LEMMA Tables ==
    /\ \A surface \in Surfaces, kind \in Kinds, severity \in Severities :
          Decide(surface, kind, severity) \in Decisions
    /\ \A surface \in Surfaces, severity \in {"medium", "critical"} :
          Decide(surface, "scanner_error", severity) \in {"quarantine", "block"}
    /\ \A surface \in Surfaces \ {"memory_promotion"}, kind \in Kinds, severity \in Severities :
          Decide(surface, kind, severity) = "redact" <=>
             kind = "secret" \/ (kind = "pii" /\ severity # "low")
<1>1. Surfaces = {"memory_candidate", "memory_recall", "memory_promotion"}
  BY DEF Surfaces, Policies
<1>2. \A kind, severity : Decide("memory_candidate", kind, severity) = MaskingRules[kind][severity]
  BY DEF Decide, Policies
<1>3. \A kind, severity : Decide("memory_recall", kind, severity) = MaskingRules[kind][severity]
  BY DEF Decide, Policies
<1>4. \A kind, severity : Decide("memory_promotion", kind, severity) = PromotionRules[kind][severity]
  BY DEF Decide, Policies
<1>5. ASSUME NEW kind \in Kinds, NEW severity \in Severities
      PROVE  /\ MaskingRules[kind][severity] \in Decisions
             /\ MaskingRules[kind][severity] = "redact" <=>
                   kind = "secret" \/ (kind = "pii" /\ severity # "low")
             /\ kind = "scanner_error" /\ severity # "low" =>
                   MaskingRules[kind][severity] = "quarantine"
  BY Ranks DEF MaskingRules, Uniform, Row, Kinds, Severities
<1>6. ASSUME NEW kind \in Kinds, NEW severity \in Severities
      PROVE  /\ PromotionRules[kind][severity] \in Decisions
             /\ kind = "scanner_error" /\ severity # "low" =>
                   PromotionRules[kind][severity] = "block"
  BY Ranks DEF PromotionRules, Uniform, Row, Kinds, Severities
<1>7. "scanner_error" \in Kinds /\ "medium" \in Severities /\ "critical" \in Severities
  BY DEF Kinds, Severities
<1> HIDE DEF Kinds, Severities
<1>8. \A surface \in Surfaces, kind \in Kinds, severity \in Severities :
          Decide(surface, kind, severity) \in Decisions
  BY <1>1, <1>2, <1>3, <1>4, <1>5, <1>6
<1>9. \A surface \in Surfaces, severity \in {"medium", "critical"} :
          Decide(surface, "scanner_error", severity) \in {"quarantine", "block"}
  BY <1>1, <1>2, <1>3, <1>4, <1>5, <1>6, <1>7
<1>10. \A surface \in Surfaces \ {"memory_promotion"}, kind \in Kinds, severity \in Severities :
          Decide(surface, kind, severity) = "redact" <=>
             kind = "secret" \/ (kind = "pii" /\ severity # "low")
  BY <1>1, <1>2, <1>3, <1>5
<1> QED BY <1>8, <1>9, <1>10

-----------------------------------------------------------------------------
(***************************************************************************)
(* What engines report (the engines' rules and adapters)                   *)
(***************************************************************************)
\* What an engine reports is among what it offers, and lies in the text.
Lies(m, length) == m.from \in Nat /\ m.to \in 0 .. length
HitOK(h, e, length) ==
    h.capability \in Offers[e] /\ h.severity \in Severities /\ Lies(h, length)

LEMMA OffersAre ==
    /\ Engines = {"baseline", "detect_secrets", "presidio", "prompt_guard", "trufflehog", "gitleaks"}
    /\ Cheap = {"secrets", "pii", "prompt_injection", "tool_control", "encoded_content"}
    /\ Offers["baseline"] = Cheap /\ Offers["detect_secrets"] = {"secrets"}
    /\ Offers["presidio"] = {"pii"} /\ Offers["prompt_guard"] = {"prompt_injection"}
    /\ Offers["trufflehog"] = {"source_or_repository_secrets"}
    /\ Offers["gitleaks"] = {"source_or_repository_secrets"}
BY DEF Engines, Offers, Cheap, CategoryOf

LEMMA GradedOK ==
    ASSUME NEW capability, NEW table, NEW matches, NEW n \in Nat,
           \A m \in matches : Lies(m, n),
           \A x \in DOMAIN table : table[x] \in Severities,
           NEW h \in Graded(capability, table, matches)
    PROVE  h.capability = capability /\ h.severity \in Severities /\ Lies(h, n)
<1>1. PICK m \in matches : m.rule \in DOMAIN table /\ h = Hit(capability, table[m.rule], m)
  BY DEF Graded
<1> QED BY <1>1 DEF Hit, Lies

LEMMA BaselineOK ==
    ASSUME NEW matches, NEW n \in Nat, \A m \in matches : Lies(m, n),
           NEW h \in BaselineHits(matches)
    PROVE  h.capability \in Cheap /\ h.severity \in Severities /\ Lies(h, n)
<1>1. \A x \in DOMAIN SecretRules : SecretRules[x] \in Severities
  BY DEF SecretRules, Severities
<1>2. \A x \in DOMAIN PiiRules : PiiRules[x] \in Severities
  BY DEF PiiRules, Severities
<1>3. \A x \in DOMAIN Lures : Lures[x] \in Severities
  BY DEF Lures, Severities
<1>4. \A x \in DOMAIN ToolRules : ToolRules[x] \in Severities
  BY DEF ToolRules, Severities
<1>5. \A x \in DOMAIN EncodingRules : EncodingRules[x] \in Severities
  BY DEF EncodingRules, Severities
<1>6. PiiMatches(matches) \subseteq matches
  BY DEF PiiMatches
<1>7. CASE h \in Graded("secrets", SecretRules, matches)
  BY <1>1, <1>7, GradedOK, OffersAre
<1>8. CASE h \in Graded("pii", PiiRules, PiiMatches(matches))
  <2>1. \A m \in PiiMatches(matches) : Lies(m, n)
    BY <1>6
  <2> QED BY <1>2, <1>8, <2>1, GradedOK, OffersAre
<1>9. CASE h \in Graded("prompt_injection", Lures, matches)
  BY <1>3, <1>9, GradedOK, OffersAre
<1>10. CASE h \in Graded("tool_control", ToolRules, matches)
  BY <1>4, <1>10, GradedOK, OffersAre
<1>11. CASE h \in Graded("encoded_content", EncodingRules, matches)
  BY <1>5, <1>11, GradedOK, OffersAre
<1>12. CASE h \in {BlobHit(m, m.payload) : m \in {x \in matches : x.rule = "blob"}}
  <2>1. PICK m \in matches : h = BlobHit(m, m.payload)
    BY <1>12
  <2>2. BlobSeverity(m.payload) \in {"high", "medium"}
    BY DEF BlobSeverity
  <2>3. h = Hit("encoded_content", IF m.payload = {} THEN "low" ELSE BlobSeverity(m.payload), m)
    BY <2>1 DEF BlobHit
  <2> QED BY <2>2, <2>3, OffersAre DEF Hit, Lies, Severities
<1> QED BY <1>7, <1>8, <1>9, <1>10, <1>11, <1>12 DEF BaselineHits

LEMMA HitsOK ==
    ASSUME NEW found, NEW n \in Nat, \A e \in Engines : \A m \in found[e] : Lies(m, n),
           NEW e \in Engines, NEW h \in HitsFrom(found)[e]
    PROVE  HitOK(h, e, n)
<1>1. CASE e = "baseline"
  <2>1. h \in BaselineHits(found.baseline)
    BY <1>1 DEF HitsFrom
  <2> QED BY <1>1, <2>1, BaselineOK, OffersAre DEF HitOK
<1>2. CASE e = "detect_secrets"
  <2>1. h \in DetectSecretsHits(found.detect_secrets)
    BY <1>2 DEF HitsFrom
  <2>2. PICK m \in found.detect_secrets :
           h = [Hit("secrets", CASE m.rule = "entropy" -> "medium" [] m.rule = "live_key" -> "critical"
                                 [] OTHER -> "high", m)
                  EXCEPT !.from = IF m.found THEN @ ELSE 0, !.to = IF m.found THEN @ ELSE 0]
    BY <2>1 DEF DetectSecretsHits
  <2>3. /\ h.capability = "secrets" /\ h.severity \in {"medium", "critical", "high"}
        /\ h.from = (IF m.found THEN m.from ELSE 0) /\ h.to = (IF m.found THEN m.to ELSE 0)
    BY <2>2 DEF Hit
  <2> QED BY <1>2, <2>3, OffersAre DEF HitOK, Lies, Severities
<1>3. CASE e = "trufflehog"
  <2>1. h \in TruffleHogHits(found.trufflehog)
    BY <1>3 DEF HitsFrom
  <2> QED BY <1>3, <2>1, OffersAre DEF HitOK, Lies, Severities, TruffleHogHits, Hit
<1>4. CASE e = "gitleaks"
  <2>1. h \in GitleaksHits(found.gitleaks)
    BY <1>4 DEF HitsFrom
  <2> QED BY <1>4, <2>1, OffersAre DEF HitOK, Lies, Severities, GitleaksHits, Hit
<1>5. CASE e = "presidio"
  <2>1. h \in PresidioHits(found.presidio)
    BY <1>5 DEF HitsFrom
  <2> QED BY <1>5, <2>1, OffersAre DEF HitOK, Lies, Severities, PresidioHits, Hit
<1>6. CASE e = "prompt_guard"
  <2>1. h \in PromptGuardHits(found.prompt_guard)
    BY <1>6 DEF HitsFrom
  <2> QED BY <1>6, <2>1, OffersAre DEF HitOK, Lies, Severities, PromptGuardHits, Hit
<1> QED BY <1>1, <1>2, <1>3, <1>4, <1>5, <1>6, OffersAre

-----------------------------------------------------------------------------
(***************************************************************************)
(* Findings, and the verdict they lead to (pipeline.scan)                  *)
(***************************************************************************)
AskedOf(surface, config, health, e) ==
    /\ config.settings[e].enabled
    /\ Offers[e] \cap Policies[surface].capabilities # {}
    /\ health[e] = "ready"
\* What the engines that are asked report is theirs, and lies in the text.
HitsFit(surface, config, health, hits, length) ==
    \A e \in Engines : AskedOf(surface, config, health, e) =>
        \A h \in hits[e] : HitOK(h, e, length)
FindingOK(f, length) == f.kind \in Kinds /\ f.severity \in Severities /\ Lies(f, length)

LEMMA Categories ==
    /\ CategoryOf["secrets"] = "secret" /\ CategoryOf["pii"] = "pii"
    /\ CategoryOf["source_or_repository_secrets"] = "secret"
    /\ CategoryOf["prompt_injection"] = "prompt_injection"
    /\ CategoryOf["tool_control"] = "tool_instruction"
    /\ CategoryOf["encoded_content"] = "encoding"
    /\ DOMAIN CategoryOf = Cheap \cup {"source_or_repository_secrets"}
BY DEF CategoryOf, Cheap

\* FindingsOf, spelled out: what engines saw, what they could not, and the unread tail.
LEMMA FindingsAre ==
    ASSUME NEW surface, NEW config, NEW health, NEW hits, NEW length, NEW f
    PROVE  f \in FindingsOf(surface, config, health, hits, length) <=>
              \/ \E e \in Engines : /\ AskedOf(surface, config, health, e)
                                    /\ f \in SeenBy(e, surface, hits, Window(length, config.maxChars))
              \/ f \in ErrorFindings(RequiredBy(config), Outcomes(surface, config, health))
              \/ f \in Unread(length, Window(length, config.maxChars))
<1> DEFINE outcome == Outcomes(surface, config, health)
           window == Window(length, config.maxChars)
           asked == {e \in Engines : outcome[e] = "ok"}
<1>1. \A e \in Engines : outcome[e] = "ok" <=> AskedOf(surface, config, health, e)
  BY DEF Outcomes, Outcome, AskedOf
<1>2. FindingsOf(surface, config, health, hits, length) =
         SeenByAll(asked, surface, hits, window)
           \cup ErrorFindings(RequiredBy(config), outcome) \cup Unread(length, window)
  BY DEF FindingsOf
<1>3. \A e : e \in asked <=> e \in Engines /\ AskedOf(surface, config, health, e)
  BY <1>1
<1> HIDE DEF asked
<1>4. f \in SeenByAll(asked, surface, hits, window) <=>
         \E e \in asked : f \in SeenBy(e, surface, hits, window)
  <2> HIDE DEF window
  <2> QED BY DEF SeenByAll
<1> QED BY <1>2, <1>3, <1>4

LEMMA SeenOK ==
    ASSUME NEW surface, NEW hits, NEW window, NEW length,
           NEW e \in Engines, \A h \in hits[e] : HitOK(h, e, length),
           NEW f \in SeenBy(e, surface, hits, window)
    PROVE  \E h \in hits[e] :
              /\ h.to <= window /\ f.kind = CategoryOf[h.capability]
              /\ f.severity = h.severity /\ f.from = h.from /\ f.to = h.to
              /\ FindingOK(f, length) /\ f.kind # "scanner_error"
<1>1. PICK h \in hits[e] : h.to <= window
                             /\ f = Finding(e, CategoryOf[h.capability], h.severity, h.from, h.to)
  BY DEF SeenBy
<1>2. /\ f.kind = CategoryOf[h.capability] /\ f.severity = h.severity
      /\ f.from = h.from /\ f.to = h.to
  BY <1>1 DEF Finding
<1>3. h.capability \in DOMAIN CategoryOf
  BY OffersAre, Categories DEF HitOK
<1>4. f.kind \in Kinds /\ f.kind # "scanner_error"
  BY <1>2, <1>3, OffersAre, Categories DEF Kinds
<1> QED BY <1>1, <1>2, <1>4 DEF HitOK, FindingOK, Lies

LEMMA ErrorsOK ==
    ASSUME NEW required, NEW outcome, NEW length \in Nat,
           NEW f \in ErrorFindings(required, outcome)
    PROVE  FindingOK(f, length) /\ f.kind = "scanner_error"
BY DEF ErrorFindings, Finding, FindingOK, Lies, Kinds, Severities

LEMMA FindingsOK ==
    ASSUME NEW surface, NEW config, NEW health, NEW hits, NEW length \in Nat,
           HitsFit(surface, config, health, hits, length),
           NEW f \in FindingsOf(surface, config, health, hits, length)
    PROVE  FindingOK(f, length)
<1>1. CASE \E e \in Engines : /\ AskedOf(surface, config, health, e)
                              /\ f \in SeenBy(e, surface, hits, Window(length, config.maxChars))
  BY <1>1, SeenOK DEF HitsFit
<1>2. CASE f \in ErrorFindings(RequiredBy(config), Outcomes(surface, config, health))
  BY <1>2, ErrorsOK
<1>3. CASE f \in Unread(length, Window(length, config.maxChars))
  BY <1>3 DEF Unread, Finding, FindingOK, Lies, Kinds, Severities
<1> QED BY <1>1, <1>2, <1>3, FindingsAre

\* pipeline.scan: what was not looked at leaves a finding that no policy lets pass.
LEMMA GapsAreFound ==
    ASSUME NEW surface \in Surfaces, NEW config, NEW health, NEW hits, NEW length \in Nat,
           config.maxChars \in Nat,
           \/ length > config.maxChars
           \/ \E e \in RequiredBy(config) \cap Engines : ~AskedOf(surface, config, health, e)
    PROVE  \E f \in FindingsOf(surface, config, health, hits, length) :
              Decide(surface, f.kind, f.severity) \in {"quarantine", "block"}
<1>1. CASE length > config.maxChars
  <2>1. length > Window(length, config.maxChars)
    BY <1>1 DEF Window
  <2> DEFINE gap == Finding("pipeline", "scanner_error", "medium", 0, 0)
  <2>2. gap.kind = "scanner_error" /\ gap.severity = "medium"
    BY DEF Finding
  <2>3. gap \in Unread(length, Window(length, config.maxChars))
    BY <2>1 DEF Unread
  <2> HIDE DEF gap
  <2>4. gap \in FindingsOf(surface, config, health, hits, length)
    BY <2>3, FindingsAre
  <2> QED BY <2>2, <2>4, Tables
<1>2. CASE \E e \in RequiredBy(config) \cap Engines : ~AskedOf(surface, config, health, e)
  <2>1. PICK e \in RequiredBy(config) \cap Engines : ~AskedOf(surface, config, health, e)
    BY <1>2
  <2> DEFINE outcome == Outcomes(surface, config, health)
             gap == Finding(e, "scanner_error", "critical", 0, 0)
  <2>2. outcome[e] # "ok"
    BY <2>1 DEF Outcomes, Outcome, AskedOf
  <2>3. gap.kind = "scanner_error" /\ gap.severity = "critical"
    BY DEF Finding
  <2>4. gap \in ErrorFindings(RequiredBy(config), outcome)
    <3> HIDE DEF outcome
    <3> QED BY <2>1, <2>2 DEF ErrorFindings
  <2> HIDE DEF gap
  <2>5. gap \in FindingsOf(surface, config, health, hits, length)
    BY <2>4, FindingsAre
  <2> QED BY <2>3, <2>5, Tables
<1> QED BY <1>1, <1>2

LEMMA DecisionOK ==
    ASSUME NEW surface \in Surfaces, NEW config, NEW health, NEW hits, NEW length \in Nat,
           HitsFit(surface, config, health, hits, length), config.on,
           NEW f \in FindingsOf(surface, config, health, hits, length)
    PROVE  /\ Scan(surface, config, health, hits, length).decision \in Decisions
           /\ AtLeast(Scan(surface, config, health, hits, length).decision,
                      Decide(surface, f.kind, f.severity))
<1> DEFINE findings == FindingsOf(surface, config, health, hits, length)
           ds == {Decide(surface, x.kind, x.severity) : x \in findings}
<1>1. Scan(surface, config, health, hits, length).decision = Strongest(ds)
  BY DEF Scan
<1>2. \A x \in findings : Decide(surface, x.kind, x.severity) \in Decisions
  BY FindingsOK, Tables DEF FindingOK
<1>3. ds \in SUBSET Decisions
  BY <1>2
<1>4. Decide(surface, f.kind, f.severity) \in ds
  OBVIOUS
<1> HIDE DEF ds
<1> QED BY <1>1, <1>3, <1>4, StrongestOK

-----------------------------------------------------------------------------
(***************************************************************************)
(* Which hits are masked (pipeline.scan, redaction.redact)                 *)
(***************************************************************************)
LEMMA OffPromotion ==
    \A surface \in Surfaces \ {"memory_promotion"} : Policies[surface].capabilities = Cheap
BY DEF Surfaces, Policies

LEMMA AskedAreCheap ==
    ASSUME NEW surface \in Surfaces \ {"memory_promotion"}, NEW config, NEW health,
           NEW e \in Engines, AskedOf(surface, config, health, e)
    PROVE  Offers[e] \subseteq Cheap
BY OffPromotion, OffersAre DEF AskedOf

\* Which hits end up masked.
ToHide(h, max) ==
    /\ h.to <= max /\ h.to > h.from
    /\ h.capability = "secrets" \/ (h.capability = "pii" /\ h.severity # "low")

LEMMA HiddenAreHits ==
    ASSUME NEW surface \in Surfaces \ {"memory_promotion"}, NEW config, NEW health,
           NEW hits, NEW length \in Nat, config.maxChars \in Nat,
           HitsFit(surface, config, health, hits, length),
           NEW f \in ToMask(surface, FindingsOf(surface, config, health, hits, length)),
           f.to > f.from
    PROVE  \E e \in Engines : /\ AskedOf(surface, config, health, e)
                              /\ \E h \in hits[e] : /\ ToHide(h, config.maxChars)
                                                    /\ h.from = f.from /\ h.to = f.to
<1> DEFINE window == Window(length, config.maxChars)
<1>1. /\ f \in FindingsOf(surface, config, health, hits, length)
      /\ Decide(surface, f.kind, f.severity) = "redact"
  BY DEF ToMask
<1>2. FindingOK(f, length)
  BY <1>1, FindingsOK
<1>3. f.kind = "secret" \/ (f.kind = "pii" /\ f.severity # "low")
  BY <1>1, <1>2, Tables DEF FindingOK
<1>4. f \notin ErrorFindings(RequiredBy(config), Outcomes(surface, config, health))
  BY <1>3, ErrorsOK
<1>5. f \notin Unread(length, window)
  BY <1>3 DEF Unread, Finding
<1>6. PICK e \in Engines : AskedOf(surface, config, health, e) /\ f \in SeenBy(e, surface, hits, window)
  BY <1>1, <1>4, <1>5, FindingsAre
<1>7. PICK h \in hits[e] : /\ h.to <= window /\ f.kind = CategoryOf[h.capability]
                             /\ f.severity = h.severity /\ f.from = h.from /\ f.to = h.to
  <2> HIDE DEF window
  <2>1. \A h \in hits[e] : HitOK(h, e, length)
    BY <1>6 DEF HitsFit
  <2> QED BY <1>6, <2>1, SeenOK
<1>8. h.capability \in Cheap /\ h.to \in Nat
  BY <1>6, AskedAreCheap DEF HitsFit, HitOK, Lies
<1>9. h.to <= config.maxChars
  BY <1>7, <1>8 DEF Window
<1>10. h.capability = "secrets" \/ (h.capability = "pii" /\ h.severity # "low")
  BY <1>3, <1>7, <1>8, OffersAre, Categories
<1> QED BY <1>6, <1>7, <1>9, <1>10 DEF ToHide

LEMMA HitsAreHidden ==
    ASSUME NEW surface \in Surfaces \ {"memory_promotion"}, NEW config, NEW health,
           NEW hits, NEW length \in Nat, config.maxChars \in Nat,
           HitsFit(surface, config, health, hits, length),
           NEW e \in Engines, AskedOf(surface, config, health, e),
           NEW h \in hits[e], ToHide(h, config.maxChars)
    PROVE  \E f \in ToMask(surface, FindingsOf(surface, config, health, hits, length)) :
              h.from = f.from /\ h.to = f.to
<1> DEFINE window == Window(length, config.maxChars)
           f == Finding(e, CategoryOf[h.capability], h.severity, h.from, h.to)
<1>1. HitOK(h, e, length) /\ h.to \in 0 .. length
  BY DEF HitsFit, HitOK, Lies
<1>2. h.to <= window
  BY <1>1 DEF Window, ToHide
<1>3. h.capability \in Policies[surface].capabilities
  BY OffPromotion, OffersAre DEF ToHide
<1>4. /\ f.kind = CategoryOf[h.capability] /\ f.severity = h.severity
      /\ f.from = h.from /\ f.to = h.to
  BY DEF Finding
<1> HIDE DEF window
<1>5. f \in SeenBy(e, surface, hits, window)
  BY <1>2, <1>3, <1>4 DEF SeenBy
<1>6. /\ f.kind \in Kinds /\ f.severity \in Severities
      /\ f.kind = "secret" \/ (f.kind = "pii" /\ f.severity # "low")
  BY <1>1, <1>4, Categories DEF ToHide, HitOK, Kinds
<1> HIDE DEF f
<1>7. f \in FindingsOf(surface, config, health, hits, length)
  BY <1>5, FindingsAre DEF window
<1>8. Decide(surface, f.kind, f.severity) = "redact"
  BY <1>6, Tables
<1> QED BY <1>4, <1>7, <1>8 DEF ToMask

LEMMA SpansAreFinite ==
    ASSUME NEW findings, NEW length \in Nat, \A f \in findings : Lies(f, length)
    PROVE  Spans(findings) \subseteq SpanSet /\ IsFiniteSet(Spans(findings))
<1> DEFINE ends == 0 .. length
<1>1. Spans(findings) \subseteq ends \X ends
  BY DEF Spans, Lies
<1>2. \A p \in Spans(findings) : p[1] < p[2]
  BY DEF Spans, Lies
<1>3. IsFiniteSet(ends)
  BY FS_Interval
<1>4. IsFiniteSet(ends \X ends)
  BY <1>3, FS_Product
<1>5. IsFiniteSet(Spans(findings))
  BY <1>1, <1>4, FS_Subset
<1> QED BY <1>1, <1>2, <1>5 DEF SpanSet

\* redaction.redact: a character is masked when it lies in a hit that policy hides.
LEMMA MaskedIff ==
    ASSUME NEW surface \in Surfaces \ {"memory_promotion"}, NEW config, NEW health,
           NEW hits, NEW length \in Nat, config.maxChars \in Nat, config.on,
           HitsFit(surface, config, health, hits, length), NEW c
    PROVE  c \in Scan(surface, config, health, hits, length).masked <=>
              \E e \in Engines :
                 /\ AskedOf(surface, config, health, e)
                 /\ \E h \in hits[e] : ToHide(h, config.maxChars) /\ c \in h.from .. (h.to - 1)
<1> DEFINE hide == ToMask(surface, FindingsOf(surface, config, health, hits, length))
<1>1. Scan(surface, config, health, hits, length).masked = Masked(hide)
  BY DEF Scan
<1>2. \A f \in hide : Lies(f, length)
  BY FindingsOK DEF ToMask, FindingOK
<1> HIDE DEF hide
<1>3. Masked(hide) = UNION {Chars(p) : p \in Spans(hide)}
  BY <1>2, SpansAreFinite, MaskedOK
<1>4. c \in Masked(hide) <=> \E p \in Spans(hide) : c \in Chars(p)
  BY <1>3
<1>5. c \in Masked(hide) <=> \E f \in hide : f.to > f.from /\ c \in f.from .. (f.to - 1)
  <2>1. ASSUME NEW f \in hide, f.to > f.from
        PROVE  /\ <<f.from, f.to>> \in Spans(hide)
               /\ Chars(<<f.from, f.to>>) = f.from .. (f.to - 1)
    BY <2>1 DEF Spans, Chars
  <2>2. ASSUME NEW p \in Spans(hide)
        PROVE  \E f \in hide : f.to > f.from /\ p = <<f.from, f.to>>
    BY DEF Spans
  <2> QED BY <1>4, <2>1, <2>2
<1>6. ASSUME NEW f \in hide, f.to > f.from, c \in f.from .. (f.to - 1)
      PROVE  \E e \in Engines :
                 /\ AskedOf(surface, config, health, e)
                 /\ \E h \in hits[e] : ToHide(h, config.maxChars) /\ c \in h.from .. (h.to - 1)
  BY <1>6, HiddenAreHits DEF hide
<1>7. ASSUME NEW e \in Engines, AskedOf(surface, config, health, e),
             NEW h \in hits[e], ToHide(h, config.maxChars), c \in h.from .. (h.to - 1)
      PROVE  \E f \in hide : f.to > f.from /\ c \in f.from .. (f.to - 1)
  BY <1>7, HitsAreHidden DEF hide, ToHide
<1> QED BY <1>1, <1>5, <1>6, <1>7

-----------------------------------------------------------------------------
(***************************************************************************)
(* The instances of Safety and Rulesets define the same                    *)
(***************************************************************************)
\* The instances have Safety and Rulesets in common: what they define is the same.
LEMMA SameScans ==
    ASSUME NEW surface, NEW config, NEW health, NEW hits, NEW length
    PROVE  /\ SafetyScan!Scan(surface, config, health, hits, length)
                 = Scan(surface, config, health, hits, length)
           /\ Recall!Scan(surface, config, health, hits, length)
                 = Scan(surface, config, health, hits, length)
<1>1. SafetyScan!Scan(surface, config, health, hits, length)
        = Scan(surface, config, health, hits, length)
  BY DEF Scan, FindingsOf, SeenBy, SeenByAll, Unread, Outcomes, RequiredBy, ToMask, Window, ErrorFindings, Finding, Outcome, Broke,
         Engines, Offers, Decide, PolicyRequired, Policies, PromotionRules,
         MaskingRules, Uniform, Row, Cheap, CategoryOf, Strongest, AtLeast, RankIn,
         DecisionOrder, Masked, MergeSpans, InOrder, Spans, Precedes, Joined, Last,
         Front, Cardinality, SetToSeqs, ToSet, SafetyScan!Scan, SafetyScan!FindingsOf, SafetyScan!SeenBy, SafetyScan!SeenByAll,
         SafetyScan!Unread, SafetyScan!Outcomes, SafetyScan!RequiredBy,
         SafetyScan!ToMask, SafetyScan!Window, SafetyScan!ErrorFindings,
         SafetyScan!Finding, SafetyScan!Outcome, SafetyScan!Broke, SafetyScan!Engines,
         SafetyScan!Offers, SafetyScan!Decide, SafetyScan!PolicyRequired,
         SafetyScan!Policies, SafetyScan!PromotionRules, SafetyScan!MaskingRules,
         SafetyScan!Uniform, SafetyScan!Row, SafetyScan!Cheap, SafetyScan!CategoryOf,
         SafetyScan!Strongest, SafetyScan!AtLeast, SafetyScan!RankIn,
         SafetyScan!DecisionOrder, SafetyScan!Masked, SafetyScan!MergeSpans,
         SafetyScan!InOrder, SafetyScan!Spans, SafetyScan!Precedes, SafetyScan!Joined,
         SafetyScan!Last, SafetyScan!Front, SafetyScan!Cardinality,
         SafetyScan!SetToSeqs, SafetyScan!ToSet
<1>2. Recall!Scan(surface, config, health, hits, length)
        = Scan(surface, config, health, hits, length)
  BY DEF Scan, FindingsOf, SeenBy, SeenByAll, Unread, Outcomes, RequiredBy, ToMask, Window, ErrorFindings, Finding, Outcome, Broke,
         Engines, Offers, Decide, PolicyRequired, Policies, PromotionRules,
         MaskingRules, Uniform, Row, Cheap, CategoryOf, Strongest, AtLeast, RankIn,
         DecisionOrder, Masked, MergeSpans, InOrder, Spans, Precedes, Joined, Last,
         Front, Cardinality, SetToSeqs, ToSet, Recall!Scan, Recall!FindingsOf, Recall!SeenBy, Recall!SeenByAll,
         Recall!Unread, Recall!Outcomes, Recall!RequiredBy,
         Recall!ToMask, Recall!Window, Recall!ErrorFindings, Recall!Finding,
         Recall!Outcome, Recall!Broke, Recall!Engines, Recall!Offers, Recall!Decide,
         Recall!PolicyRequired, Recall!Policies, Recall!PromotionRules,
         Recall!MaskingRules, Recall!Uniform, Recall!Row, Recall!Cheap,
         Recall!CategoryOf, Recall!Strongest, Recall!AtLeast, Recall!RankIn,
         Recall!DecisionOrder, Recall!Masked, Recall!MergeSpans, Recall!InOrder,
         Recall!Spans, Recall!Precedes, Recall!Joined, Recall!Last, Recall!Front,
         Recall!Cardinality, Recall!SetToSeqs, Recall!ToSet
<1> QED BY <1>1, <1>2

LEMMA SameTables ==
    /\ SafetyScan!Engines = Engines /\ SafetyScan!Offers = Offers
    /\ SafetyScan!Policies = Policies
    /\ \A a, b : SafetyScan!AtLeast(a, b) = AtLeast(a, b)
    /\ \A found : SafetyScan!HitsFrom(found) = HitsFrom(found)
<1>1. /\ SafetyScan!Engines = Engines /\ SafetyScan!Offers = Offers
      /\ SafetyScan!Policies = Policies
      /\ \A a, b : SafetyScan!AtLeast(a, b) = AtLeast(a, b)
  BY DEF AtLeast, RankIn, DecisionOrder, Engines, Offers, Cheap, CategoryOf, Policies,
         PromotionRules, MaskingRules, Uniform, Row, SafetyScan!AtLeast,
         SafetyScan!RankIn, SafetyScan!DecisionOrder, SafetyScan!Engines,
         SafetyScan!Offers, SafetyScan!Cheap, SafetyScan!CategoryOf,
         SafetyScan!Policies, SafetyScan!PromotionRules, SafetyScan!MaskingRules,
         SafetyScan!Uniform, SafetyScan!Row
<1>2. \A found : SafetyScan!HitsFrom(found) = HitsFrom(found)
  BY DEF HitsFrom, BaselineHits, DetectSecretsHits, TruffleHogHits, GitleaksHits,
         PresidioHits, PromptGuardHits, Graded, Hit, SecretRules, Lures, ToolRules,
         PiiRules, PiiMatches, Overlap, EncodingRules, BlobHit, BlobSeverity,
         Alphabetical, RankIn, SafetyScan!HitsFrom, SafetyScan!BaselineHits,
         SafetyScan!DetectSecretsHits, SafetyScan!TruffleHogHits,
         SafetyScan!GitleaksHits, SafetyScan!PresidioHits, SafetyScan!PromptGuardHits,
         SafetyScan!Graded, SafetyScan!Hit, SafetyScan!SecretRules, SafetyScan!Lures,
         SafetyScan!ToolRules, SafetyScan!PiiRules, SafetyScan!PiiMatches,
         SafetyScan!Overlap, SafetyScan!EncodingRules, SafetyScan!BlobHit,
         SafetyScan!BlobSeverity, SafetyScan!Alphabetical, SafetyScan!RankIn
<1> QED BY <1>1, <1>2

-----------------------------------------------------------------------------
(***************************************************************************)
(* Scans: there is no verdict, or it is the one the request must get       *)
(***************************************************************************)
\* The verdict that module Safety gives for the request.
VerdictOn(r) == Scan(r.surface, r.config, r.health, HitsFrom(r.found), r.length)

\* There is no verdict, or it is the one that the request must get.
ScanInv ==
    /\ request \in Scans
    /\ \/ verdict = SafetyScan!None \/ verdict = SafetyScan!Refused
       \/ verdict = VerdictOn(request)

LEMMA ScanInitOK == ReadersInit => ScanInv
BY DEF ReadersInit, SafetyScan!Init, ScanInv

LEMMA ScanStep == ScanInv /\ [ReadersNext]_readersVars => ScanInv'
<1> SUFFICES ASSUME ScanInv, [ReadersNext]_readersVars PROVE ScanInv'
  OBVIOUS
<1>1. CASE UNCHANGED scanVars
  BY <1>1 DEF ScanInv, scanVars
<1>2. CASE SafetyScan!ScanFor
  <2>1. SafetyScan!Scan(request.surface, request.config, request.health,
                        SafetyScan!HitsFrom(request.found), request.length) = VerdictOn(request)
    BY SameScans, SameTables DEF VerdictOn
  <2> QED BY <1>2, <2>1 DEF SafetyScan!ScanFor, ScanInv
<1>3. CASE SafetyScan!Handled
  BY <1>3, <1>1 DEF SafetyScan!Handled, SafetyScan!vars, scanVars
<1> QED
  BY <1>1, <1>2, <1>3 DEF ReadersNext, BundlesAlone, RecallAlone, SafetyScan!Next,
                          readersVars, scanVars

LEMMA RequestOK ==
    ASSUME NEW r \in Scans
    PROVE  /\ r.surface \in Surfaces /\ r.length \in Nat /\ r.config.maxChars \in Nat
           /\ HitsFit(r.surface, r.config, r.health, HitsFrom(r.found), r.length)
<1>1. SafetyScan!Surfaces = Surfaces
  BY SameTables DEF SafetyScan!Surfaces, Surfaces
<1>2. /\ r.surface \in Surfaces /\ r.length \in Nat /\ r.config.maxChars \in Nat
      /\ \A e \in Engines : \A m \in r.found[e] : Lies(m, r.length)
  BY <1>1, SameTables, ReadersAssumption DEF SafetyScan!ScanGiven, Lies
<1> QED BY <1>2, HitsOK DEF HitsFit

LEMMA LookedIs ==
    ASSUME NEW e
    PROVE  SafetyScan!Looked(e) <=> AskedOf(request.surface, request.config, request.health, e)
BY SameTables DEF SafetyScan!Looked, AskedOf

LEMMA ScannedIs ==
    ASSUME ScanInv, SafetyScan!Scanned
    PROVE  verdict = VerdictOn(request) /\ request.config.on /\ request \in Scans
BY DEF ScanInv, SafetyScan!Scanned

LEMMA StrongEnough ==
    ASSUME NEW d \in Decisions, NEW e \in {"quarantine", "block"}, AtLeast(d, e)
    PROVE  AtLeast(d, "quarantine")
BY Ranks DEF AtLeast

\* pipeline.py: text that was not looked at is not clean, whatever the configuration, the
\* state of the engines, and what they find.
THEOREM UnscannedTextIsNotClean == ReadersSpec => []UnscannedIsNotClean
<1>1. ScanInv => UnscannedIsNotClean
  <2> SUFFICES ASSUME ScanInv, SafetyScan!Scanned,
                      \/ request.length > request.config.maxChars
                      \/ ~SafetyScan!Looked("baseline")
                      \/ \E e \in SafetyScan!Engines :
                            request.config.settings[e].required /\ ~SafetyScan!Looked(e)
               PROVE  SafetyScan!AtLeast(verdict.decision, "quarantine")
    BY DEF UnscannedIsNotClean, SafetyScan!UnscannedIsNotClean
  <2> DEFINE r == request
             hits == HitsFrom(r.found)
  <2>1. verdict = VerdictOn(r) /\ r.config.on /\ r \in Scans
    BY ScannedIs
  <2>2. /\ r.surface \in Surfaces /\ r.length \in Nat /\ r.config.maxChars \in Nat
        /\ HitsFit(r.surface, r.config, r.health, hits, r.length)
    BY <2>1, RequestOK
  <2>3. "baseline" \in RequiredBy(r.config) \cap Engines
    BY OffersAre DEF RequiredBy, PolicyRequired
  <2>4. \/ r.length > r.config.maxChars
        \/ \E e \in RequiredBy(r.config) \cap Engines : ~AskedOf(r.surface, r.config, r.health, e)
    BY <2>3, LookedIs, SameTables DEF RequiredBy
  <2> HIDE DEF r, hits
  <2>5. PICK f \in FindingsOf(r.surface, r.config, r.health, hits, r.length) :
           Decide(r.surface, f.kind, f.severity) \in {"quarantine", "block"}
    BY <2>2, <2>4, GapsAreFound
  <2> DEFINE d == Scan(r.surface, r.config, r.health, hits, r.length).decision
  <2>6. d \in Decisions /\ AtLeast(d, Decide(r.surface, f.kind, f.severity))
    BY <2>1, <2>2, DecisionOK
  <2>7. verdict.decision = d
    BY <2>1 DEF VerdictOn, hits
  <2> HIDE DEF d
  <2>8. AtLeast(d, "quarantine")
    BY <2>5, <2>6, StrongEnough
  <2> QED BY <2>7, <2>8, SameTables
<1> QED BY <1>1, ScanInitOK, ScanStep, PTL DEF ReadersSpec

\* redaction.py: however the hits of the engines overlap, what is masked is exactly what
\* lies in a hit that policy masks.
THEOREM MasksAreExact == ReadersSpec => []MaskIsExact
<1>1. ScanInv => MaskIsExact
  <2> SUFFICES ASSUME ScanInv, SafetyScan!Scanned, request.surface # "memory_promotion"
               PROVE  verdict.masked =
            UNION {h.from .. (h.to - 1) : h \in
                      {x \in UNION {SafetyScan!HitsFrom(request.found)[e] :
                                      e \in {y \in SafetyScan!Engines : SafetyScan!Looked(y)}} :
                          /\ x.to <= request.config.maxChars /\ x.to > x.from
                          /\ \/ x.capability = "secrets"
                             \/ x.capability = "pii" /\ x.severity # "low"}}
    BY DEF MaskIsExact, SafetyScan!MaskIsExact
  <2> DEFINE r == request
             hits == HitsFrom(r.found)
             seen == UNION {SafetyScan!HitsFrom(r.found)[e] :
                               e \in {y \in SafetyScan!Engines : SafetyScan!Looked(y)}}
             hidden == {x \in seen : /\ x.to <= r.config.maxChars /\ x.to > x.from
                                     /\ \/ x.capability = "secrets"
                                        \/ x.capability = "pii" /\ x.severity # "low"}
  <2>1. verdict = VerdictOn(r) /\ r.config.on /\ r \in Scans
    BY ScannedIs
  <2>2. /\ r.surface \in Surfaces \ {"memory_promotion"} /\ r.length \in Nat
        /\ r.config.maxChars \in Nat
        /\ HitsFit(r.surface, r.config, r.health, hits, r.length)
    BY <2>1, RequestOK
  <2>3. \A h : h \in seen <=>
           \E e \in Engines : AskedOf(r.surface, r.config, r.health, e) /\ h \in hits[e]
    BY LookedIs, SameTables
  <2> HIDE DEF seen, hits
  <2>4. \A h : h \in hidden <=> h \in seen /\ ToHide(h, r.config.maxChars)
    BY DEF ToHide
  <2> HIDE DEF hidden, r
  <2>5. \A c : c \in UNION {h.from .. (h.to - 1) : h \in hidden} <=>
           \E h \in hidden : c \in h.from .. (h.to - 1)
    OBVIOUS
  <2>6. \A c : c \in verdict.masked <=>
              \E e \in Engines :
                 /\ AskedOf(r.surface, r.config, r.health, e)
                 /\ \E h \in hits[e] : ToHide(h, r.config.maxChars) /\ c \in h.from .. (h.to - 1)
    BY <2>1, <2>2, MaskedIff DEF VerdictOn, hits
  <2>7. \A c : c \in verdict.masked <=> c \in UNION {h.from .. (h.to - 1) : h \in hidden}
    BY <2>3, <2>4, <2>5, <2>6
  <2> QED BY <2>7 DEF hidden, seen, r
<1> QED BY <1>1, ScanInitOK, ScanStep, PTL DEF ReadersSpec

-----------------------------------------------------------------------------
(***************************************************************************)
(* What of a sequence is kept (recall.py's loops over ids and items)       *)
(***************************************************************************)
\* The rounds of Only.
OnlyRun(A, seq, S, f) ==
    /\ f \in [0 .. Len(seq) -> Seq(A)] /\ f[0] = <<>>
    /\ \A n \in 1 .. Len(seq) :
          f[n] = IF seq[n] \in S THEN Append(f[n - 1], seq[n]) ELSE f[n - 1]
    /\ Recall!Only(seq, S) = f[Len(seq)]

LEMMA OnlyRuns ==
    ASSUME NEW A, NEW seq \in Seq(A), NEW S
    PROVE  \E f : OnlyRun(A, seq, S, f)
<1> DEFINE k == Len(seq)
           B == Seq(A)
           Runs(g) == g = [n \in 0 .. k |-> IF n = 0 THEN <<>>
                              ELSE IF seq[n] \in S THEN Append(g[n - 1], seq[n]) ELSE g[n - 1]]
<1>1. Recall!Only(seq, S) = (CHOOSE g : Runs(g))[k]
  BY DEF Recall!Only
<1>2. k \in Nat /\ \A n \in 1 .. k : seq[n] \in A
  BY LenProperties, ElementOfSeq
<1> HIDE DEF k
<1>3. \A n \in 1 .. k : n - 1 \in 0 .. k /\ n \in 0 .. k /\ n # 0
  BY <1>2
<1>4. \E g : Runs(g)
  <2> DEFINE step == [x \in B \X (1 .. k) |->
                         IF seq[x[2]] \in S THEN Append(x[1], seq[x[2]]) ELSE x[1]]
  <2>1. \A x \in B \X (1 .. k) :
           (IF seq[x[2]] \in S THEN Append(x[1], seq[x[2]]) ELSE x[1]) \in B
    BY <1>2, AppendProperties
  <2>2. step \in [B \X (1 .. k) -> B]
    BY <2>1
  <2>3. <<>> \in B
    BY EmptySeq
  <2>4. \A m \in B : \A n \in 1 .. k :
           step[<<m, n>>] = IF seq[n] \in S THEN Append(m, seq[n]) ELSE m
    OBVIOUS
  <2> HIDE DEF step, B
  <2>5. PICK f : Looped(B, <<>>, k, step, f)
    BY <1>2, <2>2, <2>3, Loop
  <2>6. \A n \in 1 .. k : f[n] = IF seq[n] \in S THEN Append(f[n - 1], seq[n]) ELSE f[n - 1]
    BY <1>3, <2>4, <2>5 DEF Looped
  <2>7. \A n \in 0 .. k : f[n] = IF n = 0 THEN <<>>
                              ELSE IF seq[n] \in S THEN Append(f[n - 1], seq[n]) ELSE f[n - 1]
    <3>1. \A n \in 0 .. k : n = 0 \/ n \in 1 .. k
      BY <1>2
    <3> QED BY <2>5, <2>6, <3>1 DEF Looped
  <2>8. Runs(f)
    BY <2>5, <2>7 DEF Looped
  <2> QED BY <2>8
<1> DEFINE g == CHOOSE g : Runs(g)
<1>5. Runs(g)
  BY <1>4
<1> HIDE DEF g
<1>6. g[0] = <<>>
  BY <1>2, <1>5
<1>7. \A n \in 1 .. k : g[n] = IF seq[n] \in S THEN Append(g[n - 1], seq[n]) ELSE g[n - 1]
  BY <1>3, <1>5
<1> DEFINE G == {n \in 0 .. k : g[n] \in B}
<1>8. 0 \in G
  <2>1. <<>> \in B /\ 0 \in 0 .. k
    BY <1>2, EmptySeq
  <2> HIDE DEF B
  <2> QED BY <1>6, <2>1
<1>9. ASSUME NEW n \in 1 .. k, n - 1 \in G
      PROVE  n \in G
  <2>1. seq[n] \in A /\ n \in 0 .. k /\ g[n - 1] \in B
    BY <1>2, <1>3, <1>9
  <2>2. Append(g[n - 1], seq[n]) \in B
    BY <2>1, AppendProperties
  <2> HIDE DEF B
  <2> QED BY <1>7, <2>1, <2>2
<1>10. \A n \in 0 .. k : n \in G
  <2> HIDE DEF G
  <2> QED BY <1>2, <1>8, <1>9, Upward
<1>11. g \in [0 .. k -> B]
  BY <1>5, <1>10
<1>12. Recall!Only(seq, S) = g[k]
  BY <1>1 DEF g
<1> QED BY <1>6, <1>7, <1>11, <1>12 DEF OnlyRun, k

Keeps(seq, S, kept) ==
    \A n \in 1 .. Len(seq) : seq[n] \in S => \E j \in 1 .. Len(kept) : kept[j] = seq[n]

\* What of seq is in S, and all of it; nothing is gone when all of seq is.
LEMMA OnlyOK ==
    ASSUME NEW A, NEW seq \in Seq(A), NEW S
    PROVE  /\ Recall!Only(seq, S) \in Seq(A \cap S)
           /\ Len(Recall!Only(seq, S)) <= Len(seq)
           /\ Keeps(seq, S, Recall!Only(seq, S))
           /\ (\A n \in 1 .. Len(seq) : seq[n] \in S) => Len(Recall!Only(seq, S)) = Len(seq)
<1>1. PICK f : OnlyRun(A, seq, S, f)
  BY OnlyRuns
<1> DEFINE k == Len(seq)
           Got(n, m) == \E j \in 1 .. Len(f[n]) : f[n][j] = seq[m]
           Good(n) == /\ f[n] \in Seq(A \cap S) /\ Len(f[n]) <= n
                      /\ \A m \in 1 .. n : seq[m] \in S => Got(n, m)
                      /\ (\A m \in 1 .. n : seq[m] \in S) => Len(f[n]) = n
           G == {n \in 0 .. k : Good(n)}
<1>2. k \in Nat /\ \A n \in 1 .. k : seq[n] \in A
  BY LenProperties, ElementOfSeq
<1>3. /\ f[0] = <<>> /\ f \in [0 .. k -> Seq(A)]
      /\ \A n \in 1 .. k : f[n] = IF seq[n] \in S THEN Append(f[n - 1], seq[n]) ELSE f[n - 1]
      /\ Recall!Only(seq, S) = f[k]
  BY <1>1 DEF OnlyRun
<1> HIDE DEF k
<1>4. 0 \in G
  <2>1. <<>> \in Seq(A \cap S) /\ Len(<<>>) = 0
    BY EmptySeq
  <2>2. 1 .. 0 = {}
    OBVIOUS
  <2>3. Good(0)
    BY <1>3, <2>1, <2>2
  <2> QED BY <1>2, <2>3
<1>5. ASSUME NEW n \in 1 .. k, n - 1 \in G
      PROVE  n \in G
  <2>1. n \in 0 .. k /\ seq[n] \in A /\ Good(n - 1)
    BY <1>2, <1>5
  <2>2. \A m \in 1 .. n : m = n \/ m \in 1 .. (n - 1)
    BY <1>2
  <2>3. \A m \in 1 .. (n - 1) : m \in 1 .. n
    BY <1>2
  <2>4. CASE seq[n] \in S
    <3> DEFINE s == f[n - 1]
    <3>1. f[n] = Append(s, seq[n])
      BY <1>3, <2>4
    <3>2. /\ Append(s, seq[n]) \in Seq(A \cap S)
          /\ Len(Append(s, seq[n])) = Len(s) + 1
          /\ \A j \in 1 .. Len(s) : Append(s, seq[n])[j] = s[j]
          /\ Append(s, seq[n])[Len(s) + 1] = seq[n]
      BY <2>1, <2>4, AppendProperties
    <3>3. Len(s) \in Nat
      BY <2>1, LenProperties
    <3>4. Len(f[n]) = Len(s) + 1 /\ f[n][Len(s) + 1] = seq[n] /\ Len(s) + 1 \in 1 .. Len(f[n])
      BY <3>1, <3>2, <3>3
    <3>5. \A j \in 1 .. Len(s) : f[n][j] = s[j] /\ j \in 1 .. Len(f[n])
      BY <3>1, <3>2, <3>3
    <3>6. Got(n, n)
      BY <3>4
    <3>7. \A m \in 1 .. (n - 1) : seq[m] \in S => Got(n, m)
      BY <2>1, <3>5
    <3>8. \A m \in 1 .. n : seq[m] \in S => Got(n, m)
      BY <2>2, <3>6, <3>7
    <3>9. Len(f[n]) <= n
      BY <2>1, <3>3, <3>4
    <3>10. (\A m \in 1 .. n : seq[m] \in S) => Len(f[n]) = n
      BY <2>1, <2>3, <3>3, <3>4
    <3>11. f[n] \in Seq(A \cap S)
      BY <3>1, <3>2
    <3>12. Good(n)
      BY <3>8, <3>9, <3>10, <3>11
    <3> QED BY <2>1, <3>12
  <2>5. CASE seq[n] \notin S
    <3>1. f[n] = f[n - 1]
      BY <1>3, <2>5
    <3>2. Len(f[n]) \in Nat
      BY <2>1, <3>1, LenProperties
    <3>3. Len(f[n]) <= n
      BY <2>1, <3>1, <3>2
    <3>4. \A m \in 1 .. n : seq[m] \in S => Got(n, m)
      BY <2>1, <2>2, <2>5, <3>1
    <3>5. ~(\A m \in 1 .. n : seq[m] \in S)
      BY <2>5
    <3>6. Good(n)
      BY <2>1, <3>1, <3>3, <3>4, <3>5
    <3> QED BY <2>1, <3>6
  <2> QED BY <2>4, <2>5
<1>6. k \in G
  <2> HIDE DEF G
  <2>1. \A n \in 0 .. k : n \in G
    BY <1>2, <1>4, <1>5, Upward
  <2> QED BY <1>2, <2>1
<1>7. Good(k)
  BY <1>6
<1> QED BY <1>3, <1>7 DEF k, Keeps

\* One more of seq is at most one more kept.
LEMMA OnlyGrows ==
    ASSUME NEW A, NEW seq \in Seq(A), NEW S, NEW k \in 1 .. Len(seq)
    PROVE  Len(Recall!Only(SubSeq(seq, 1, k), S))
              <= Len(Recall!Only(SubSeq(seq, 1, k - 1), S)) + 1
<1> DEFINE a == SubSeq(seq, 1, k)
           b == SubSeq(seq, 1, k - 1)
<1>1. Len(seq) \in Nat /\ k \in Nat /\ k - 1 \in Nat /\ k - 1 \in 0 .. k /\ k \in 0 .. k
  BY LenProperties
<1>2. /\ a \in Seq(A) /\ Len(a) = k /\ b \in Seq(A) /\ Len(b) = k - 1
      /\ \A n \in 1 .. (k - 1) : a[n] = b[n]
  <2>1. /\ a \in Seq(A) /\ Len(a) = k /\ \A n \in 1 .. k : a[n] = seq[n]
    BY <1>1, SubSeqProperties
  <2>2. /\ b \in Seq(A) /\ Len(b) = k - 1 /\ \A n \in 1 .. (k - 1) : b[n] = seq[n]
    BY <1>1, SubSeqProperties
  <2> QED BY <1>1, <2>1, <2>2
<1> HIDE DEF a, b
<1>3. PICK f : OnlyRun(A, a, S, f)
  BY <1>2, OnlyRuns
<1>4. PICK g : OnlyRun(A, b, S, g)
  BY <1>2, OnlyRuns
<1> DEFINE G == {n \in 0 .. (k - 1) : f[n] = g[n]}
<1>5. 0 \in G
  BY <1>1, <1>3, <1>4 DEF OnlyRun
<1>6. ASSUME NEW n \in 1 .. (k - 1), n - 1 \in G
      PROVE  n \in G
  <2>1. n \in 1 .. k /\ n \in 0 .. (k - 1) /\ f[n - 1] = g[n - 1]
    BY <1>1, <1>6
  <2>2. f[n] = IF a[n] \in S THEN Append(f[n - 1], a[n]) ELSE f[n - 1]
    BY <1>2, <1>3, <2>1 DEF OnlyRun
  <2>3. g[n] = IF b[n] \in S THEN Append(g[n - 1], b[n]) ELSE g[n - 1]
    BY <1>2, <1>4, <2>1 DEF OnlyRun
  <2> QED BY <1>2, <2>1, <2>2, <2>3
<1>7. k - 1 \in G
  <2> HIDE DEF G
  <2>1. \A n \in 0 .. (k - 1) : n \in G
    BY <1>1, <1>5, <1>6, Upward
  <2> QED BY <1>1, <2>1
<1>8. /\ Recall!Only(a, S) = f[k] /\ Recall!Only(b, S) = f[k - 1]
      /\ f[k - 1] \in Seq(A)
      /\ f[k] = IF a[k] \in S THEN Append(f[k - 1], a[k]) ELSE f[k - 1]
  <2>1. /\ Recall!Only(a, S) = f[k] /\ f \in [0 .. k -> Seq(A)]
        /\ \A n \in 1 .. k : f[n] = IF a[n] \in S THEN Append(f[n - 1], a[n]) ELSE f[n - 1]
    BY <1>2, <1>3 DEF OnlyRun
  <2>2. Recall!Only(b, S) = g[k - 1] /\ f[k - 1] = g[k - 1]
    BY <1>2, <1>4, <1>7 DEF OnlyRun
  <2>3. k \in 1 .. k
    BY <1>1
  <2> QED BY <1>1, <2>1, <2>2, <2>3
<1>9. Len(f[k - 1]) \in Nat /\ Len(f[k]) <= Len(f[k - 1]) + 1
  <2>1. Len(f[k - 1]) \in Nat
    BY <1>8, LenProperties
  <2>2. a[k] \in A
    BY <1>1, <1>2, ElementOfSeq
  <2>3. Len(Append(f[k - 1], a[k])) = Len(f[k - 1]) + 1
    BY <1>8, <2>2, AppendProperties
  <2> QED BY <1>8, <2>1, <2>3
<1> QED BY <1>8, <1>9 DEF a, b

\* The loop of recall() stops in time, sees every id unless it stopped because the pack was
\* full, and keeps what passes its tests.
LEMMA ExaminedOK ==
    ASSUME NEW k, k.ids \in Seq(Claims), k.req.max \in Nat \ {0}
    PROVE  /\ Recall!Examined(k) \in Seq(Claims)
           /\ \A c \in Recall!ToSet(Recall!Examined(k)) : c \in Recall!ToSet(k.ids)
           /\ Len(Recall!KeptOf(Recall!Examined(k), k)) <= k.req.max
           /\ \/ Len(Recall!KeptOf(Recall!Examined(k), k)) = k.req.max
              \/ Recall!Examined(k) = k.ids
<1> DEFINE ids == k.ids
           n0 == Len(ids)
           S == {c \in Claims : Recall!Fate(c, k) = "kept"}
           K(n) == Recall!Only(SubSeq(ids, 1, n), S)
           full == {n \in DOMAIN ids : Len(K(n)) = k.req.max}
           ex == IF full = {} THEN ids ELSE SubSeq(ids, 1, CHOOSE n \in full : \A m \in full : n <= m)
<1>1. n0 \in Nat /\ DOMAIN ids = 1 .. n0
  BY LenProperties
<1>2. \A seq : Recall!KeptOf(seq, k) = Recall!Only(seq, S)
  BY DEF Recall!KeptOf
<1>3. Recall!Examined(k) = ex
  BY DEF Recall!Examined, Recall!KeptOf
<1>4. \A n \in 0 .. n0 : /\ SubSeq(ids, 1, n) \in Seq(Claims)
                         /\ Len(SubSeq(ids, 1, n)) = n
                         /\ \A i \in 1 .. n : SubSeq(ids, 1, n)[i] = ids[i]
  <2> SUFFICES ASSUME NEW n \in 0 .. n0
               PROVE  /\ SubSeq(ids, 1, n) \in Seq(Claims)
                      /\ Len(SubSeq(ids, 1, n)) = n
                      /\ \A i \in 1 .. n : SubSeq(ids, 1, n)[i] = ids[i]
    OBVIOUS
  <2>1. \A i \in 1 .. n : ids[i] \in Claims
    BY <1>1, ElementOfSeq
  <2> QED BY <1>1, <2>1, SubSeqProperties
<1>5. SubSeq(ids, 1, n0) = ids
  BY <1>1, <1>4
<1>6. \A n \in 0 .. n0 : Len(K(n)) \in Nat
  <2> SUFFICES ASSUME NEW n \in 0 .. n0 PROVE Len(K(n)) \in Nat
    OBVIOUS
  <2>1. K(n) \in Seq(Claims \cap S)
    BY <1>4, OnlyOK
  <2> QED BY <2>1, LenProperties
<1>7. CASE full = {}
  <2> DEFINE G == {n \in 0 .. n0 : Len(K(n)) < k.req.max}
  <2>1. 0 \in G
    <3>1. SubSeq(ids, 1, 0) \in Seq(Claims) /\ Len(SubSeq(ids, 1, 0)) = 0
      BY <1>1, <1>4
    <3>2. Len(K(0)) <= 0
      BY <3>1, OnlyOK
    <3>3. 0 \in 0 .. n0
      BY <1>1
    <3> HIDE DEF K
    <3> QED BY <1>6, <3>2, <3>3
  <2>2. ASSUME NEW n \in 1 .. n0, n - 1 \in G PROVE n \in G
    <3>1. Len(K(n)) <= Len(K(n - 1)) + 1
      BY OnlyGrows
    <3>2. Len(K(n)) # k.req.max
      BY <1>1, <1>7
    <3>3. n \in 0 .. n0 /\ n - 1 \in 0 .. n0
      BY <1>1
    <3> HIDE DEF K
    <3> QED BY <1>6, <2>2, <3>1, <3>2, <3>3
  <2>3. n0 \in G
    <3> HIDE DEF G, n0
    <3>1. \A n \in 0 .. n0 : n \in G
      BY <1>1, <2>1, <2>2, Upward
    <3> QED BY <1>1, <3>1
  <2>4. ex = ids
    BY <1>7
  <2>5. Len(K(n0)) < k.req.max
    BY <2>3
  <2>6. Len(Recall!Only(ids, S)) < k.req.max /\ Len(Recall!Only(ids, S)) \in Nat
    <3>1. n0 \in 0 .. n0
      BY <1>1
    <3> QED BY <1>5, <1>6, <2>5, <3>1
  <2> HIDE DEF ids, ex, S
  <2>7. Recall!KeptOf(Recall!Examined(k), k) = Recall!Only(ids, S)
    BY <1>2, <1>3, <2>4
  <2>8. Recall!Examined(k) = k.ids
    BY <1>3, <2>4 DEF ids
  <2> QED BY <2>6, <2>7, <2>8
<1>8. CASE full # {}
  <2>1. full \in SUBSET Nat
    BY <1>1
  <2>2. \E n \in full : \A m \in full : n <= m
    <3> HIDE DEF full
    <3> QED BY <1>8, <2>1, Least
  <2> DEFINE n == CHOOSE x \in full : \A m \in full : x <= m
  <2>3. n \in full
    <3> HIDE DEF full
    <3> QED BY <2>2
  <2> HIDE DEF n
  <2>4. n \in 1 .. n0 /\ n \in 0 .. n0 /\ Len(K(n)) = k.req.max
    BY <1>1, <2>3
  <2>5. ex = SubSeq(ids, 1, n)
    BY <1>8 DEF n
  <2> HIDE DEF ex, full
  <2>6. Recall!Examined(k) = SubSeq(ids, 1, n)
    BY <1>3, <2>5
  <2>7. Len(Recall!KeptOf(Recall!Examined(k), k)) = k.req.max
    BY <1>2, <2>4, <2>6
  <2>8. ASSUME NEW c \in Recall!ToSet(SubSeq(ids, 1, n)) PROVE c \in Recall!ToSet(ids)
    <3>1. DOMAIN SubSeq(ids, 1, n) = 1 .. n
      BY <1>4, <2>4, LenProperties
    <3>2. PICK i \in 1 .. n : c = SubSeq(ids, 1, n)[i]
      BY <3>1 DEF Recall!ToSet
    <3>3. c = ids[i] /\ i \in DOMAIN ids
      BY <1>1, <1>4, <2>4, <3>2
    <3> QED BY <3>3 DEF Recall!ToSet
  <2> QED BY <1>4, <2>4, <2>6, <2>7, <2>8
<1> QED BY <1>7, <1>8

-----------------------------------------------------------------------------
(***************************************************************************)
(* One text under the safety pass (recall._safety)                         *)
(***************************************************************************)
LEMMA SameRecall ==
    /\ Recall!Engines = Engines
    /\ \A a, b : Recall!AtLeast(a, b) = AtLeast(a, b)
BY DEF AtLeast, RankIn, DecisionOrder, Engines, Offers, Cheap, CategoryOf, Recall!AtLeast,
       Recall!RankIn, Recall!DecisionOrder, Recall!Engines, Recall!Offers, Recall!Cheap,
       Recall!CategoryOf

\* What a text may hold.
Contents == {"plain", "secret", "lure"}
Texted == Claims \cup {f.id : f \in Items}

LEMMA ContentOK == \A id \in Texted : Content[id] \in Contents
BY ReadersAssumption DEF Recall!RecallGiven, Texted, Contents

HealthFor(id, failing) == [e \in Engines |-> IF id \in failing THEN "raises" ELSE "ready"]
HitsFor(id) == [e \in Engines |-> Recall!HitsIn(Content[id])]

LEMMA VerdictIs ==
    ASSUME NEW id, NEW failing
    PROVE  Recall!Verdict(id, failing) =
              Scan("memory_recall", Recall!OnlyBaseline, HealthFor(id, failing), HitsFor(id), 1)
BY SameScans, SameRecall DEF Recall!Verdict, HealthFor, HitsFor

LEMMA BaselineAlone ==
    /\ Recall!OnlyBaseline.on /\ Recall!OnlyBaseline.maxChars = 2
    /\ "memory_recall" \in Surfaces \ {"memory_promotion"}
    /\ "baseline" \in RequiredBy(Recall!OnlyBaseline) \cap Engines
    /\ \A id, failing : \A e \in Engines :
          AskedOf("memory_recall", Recall!OnlyBaseline, HealthFor(id, failing), e) <=>
             e = "baseline" /\ id \notin failing
<1>1. /\ Recall!OnlyBaseline.on /\ Recall!OnlyBaseline.maxChars = 2
      /\ \A e \in Engines : Recall!OnlyBaseline.settings[e].enabled <=> e = "baseline"
  BY SameRecall DEF Recall!OnlyBaseline
<1>2. "memory_recall" \in Surfaces \ {"memory_promotion"}
  BY DEF Surfaces, Policies
<1>3. "baseline" \in RequiredBy(Recall!OnlyBaseline) \cap Engines
  BY OffersAre DEF RequiredBy, PolicyRequired
<1>4. Offers["baseline"] \cap Policies["memory_recall"].capabilities # {}
  BY <1>2, OffPromotion, OffersAre
<1>5. ASSUME NEW id, NEW failing, NEW e \in Engines
      PROVE  AskedOf("memory_recall", Recall!OnlyBaseline, HealthFor(id, failing), e) <=>
                e = "baseline" /\ id \notin failing
  <2>1. HealthFor(id, failing)[e] = "ready" <=> id \notin failing
    BY DEF HealthFor
  <2> QED BY <1>1, <1>4, <2>1 DEF AskedOf
<1> QED BY <1>1, <1>2, <1>3, <1>5

LEMMA HitsInOK ==
    ASSUME NEW id \in Texted, NEW h
    PROVE  h \in Recall!HitsIn(Content[id]) <=>
              \/ /\ Content[id] = "secret"
                 /\ h = [capability |-> "secrets", severity |-> "high", from |-> 0, to |-> 1]
              \/ /\ Content[id] = "lure"
                 /\ h = [capability |-> "prompt_injection", severity |-> "high", from |-> 0, to |-> 1]
BY ContentOK DEF Contents, Recall!HitsIn

LEMMA HitsForFit ==
    ASSUME NEW id \in Texted, NEW failing
    PROVE  HitsFit("memory_recall", Recall!OnlyBaseline, HealthFor(id, failing), HitsFor(id), 1)
<1> SUFFICES ASSUME NEW e \in Engines,
                    AskedOf("memory_recall", Recall!OnlyBaseline, HealthFor(id, failing), e),
                    NEW h \in HitsFor(id)[e]
             PROVE  HitOK(h, e, 1)
  BY DEF HitsFit
<1>1. e = "baseline"
  BY BaselineAlone
<1>2. h \in Recall!HitsIn(Content[id])
  BY DEF HitsFor
<1>3. /\ h.capability \in {"secrets", "prompt_injection"} /\ h.severity = "high"
      /\ h.from = 0 /\ h.to = 1
  BY <1>2, HitsInOK
<1> QED BY <1>1, <1>3, OffersAre DEF HitOK, Severities, Lies

\* _safety: what the baseline could not scan, and a lure, is withheld.
LEMMA HandedOK ==
    ASSUME NEW item, item.id \in Texted, NEW failing, Recall!Handed(item, failing)
    PROVE  item.id \notin failing /\ Content[item.id] # "lure"
<1> DEFINE id == item.id
           health == HealthFor(id, failing)
           hits == HitsFor(id)
           found == FindingsOf("memory_recall", Recall!OnlyBaseline, health, hits, 1)
           d == Scan("memory_recall", Recall!OnlyBaseline, health, hits, 1).decision
<1>1. ~AtLeast(d, "quarantine")
  BY VerdictIs, SameRecall DEF Recall!Handed
<1> HIDE DEF id, health, hits
<1>2. HitsFit("memory_recall", Recall!OnlyBaseline, health, hits, 1)
  BY HitsForFit DEF id, health, hits
<1>3. \A f \in found : d \in Decisions /\ AtLeast(d, Decide("memory_recall", f.kind, f.severity))
  BY <1>2, BaselineAlone, DecisionOK
<1> HIDE DEF d
<1>4. ~ \E f \in found : Decide("memory_recall", f.kind, f.severity) \in {"quarantine", "block"}
  <2> HIDE DEF found
  <2> QED BY <1>1, <1>3, StrongEnough
<1>5. AskedOf("memory_recall", Recall!OnlyBaseline, health, "baseline")
  <2>1. ~ \E e \in RequiredBy(Recall!OnlyBaseline) \cap Engines :
            ~AskedOf("memory_recall", Recall!OnlyBaseline, health, e)
    BY <1>4, BaselineAlone, GapsAreFound
  <2> QED BY <2>1, BaselineAlone
<1>6. id \notin failing
  BY <1>5, BaselineAlone DEF health
<1>7. ASSUME Content[id] = "lure" PROVE FALSE
  <2> DEFINE h == [capability |-> "prompt_injection", severity |-> "high", from |-> 0, to |-> 1]
             f == Finding("baseline", CategoryOf[h.capability], h.severity, h.from, h.to)
  <2>1. h \in hits["baseline"]
    BY <1>7, HitsInOK, OffersAre DEF hits, id, HitsFor
  <2>2. Window(1, Recall!OnlyBaseline.maxChars) = 1
    BY BaselineAlone DEF Window
  <2>3. f.kind = "prompt_injection" /\ f.severity = "high"
    BY Categories DEF Finding
  <2>4. "prompt_injection" \in Policies["memory_recall"].capabilities
    BY BaselineAlone, OffPromotion, OffersAre
  <2>5. f.kind \in {CategoryOf[c] : c \in Policies["memory_recall"].capabilities}
    BY <2>3, <2>4, Categories
  <2>6. h.to <= 1
    OBVIOUS
  <2> HIDE DEF h
  <2>7. f \in SeenBy("baseline", "memory_recall", hits, 1)
    BY <2>1, <2>5, <2>6 DEF SeenBy
  <2> HIDE DEF f
  <2>8. f \in found
    BY <1>5, <2>2, <2>7, BaselineAlone, FindingsAre
  <2>9. Decide("memory_recall", "prompt_injection", "high") = "quarantine"
    BY DEF Decide, Policies, MaskingRules, Row
  <2> HIDE DEF found
  <2> QED BY <1>4, <2>3, <2>8, <2>9
<1> QED BY <1>6, <1>7 DEF id

\* What is masked of one item's text of one character.
LEMMA MaskedItem ==
    ASSUME NEW id \in Texted, NEW failing
    PROVE  /\ Recall!Verdict(id, failing).masked \subseteq {0}
           /\ Content[id] = "secret" /\ id \notin failing =>
                 Recall!Verdict(id, failing).masked = {0}
<1> DEFINE health == HealthFor(id, failing)
           hits == HitsFor(id)
           masked == Recall!Verdict(id, failing).masked
<1>1. HitsFit("memory_recall", Recall!OnlyBaseline, health, hits, 1)
  BY HitsForFit
<1>2. \A e \in Engines : AskedOf("memory_recall", Recall!OnlyBaseline, health, e) <=>
                            e = "baseline" /\ id \notin failing
  BY BaselineAlone
<1>3. \A e \in Engines : hits[e] = Recall!HitsIn(Content[id])
  BY DEF HitsFor
<1> HIDE DEF health, hits
<1>4. \A c : c \in masked <=>
              \E e \in Engines :
                 /\ AskedOf("memory_recall", Recall!OnlyBaseline, health, e)
                 /\ \E h \in hits[e] : /\ ToHide(h, Recall!OnlyBaseline.maxChars)
                                       /\ c \in h.from .. (h.to - 1)
  BY <1>1, BaselineAlone, MaskedIff, VerdictIs DEF health, hits
<1> HIDE DEF masked
<1>5. \A c : c \in masked <=>
              /\ id \notin failing
              /\ \E h \in Recall!HitsIn(Content[id]) : ToHide(h, 2) /\ c \in h.from .. (h.to - 1)
  BY <1>2, <1>3, <1>4, BaselineAlone
<1>6. \A h \in Recall!HitsIn(Content[id]) : h.from = 0 /\ h.to = 1
  BY HitsInOK
<1>7. masked \subseteq {0}
  BY <1>5, <1>6
<1>8. ASSUME Content[id] = "secret", id \notin failing PROVE 0 \in masked
  <2> DEFINE h == [capability |-> "secrets", severity |-> "high", from |-> 0, to |-> 1]
  <2>1. h \in Recall!HitsIn(Content[id])
    BY <1>8, HitsInOK
  <2>2. ToHide(h, 2) /\ 0 \in h.from .. (h.to - 1)
    BY DEF ToHide
  <2> HIDE DEF h
  <2> QED BY <1>5, <1>8, <2>1, <2>2
<1> QED BY <1>7, <1>8 DEF masked

-----------------------------------------------------------------------------
(***************************************************************************)
(* The items of a pack                                                     *)
(***************************************************************************)
\* The items of a pack.
Statuses == {"absent", "pending", "promoted", "rejected", "superseded"}
ItemSet == [id : Texted, status : Statuses \cup {"federated"}, disputed : BOOLEAN,
            trusted : BOOLEAN, masked : SUBSET {0}]

Unexposed(i) == /\ Content[i.id] # "lure"
                /\ Content[i.id] = "secret" => i.masked = {0}
SameItem(i, j) == i.id = j.id /\ i.status = j.status /\ i.trusted = j.trusted

\* An order of a finite set is a sequence of its members, each of which is in it.
LEMMA OrdersAre ==
    ASSUME NEW T, Recall!IsFiniteSet(T), NEW S \in SUBSET T, NEW seq \in Recall!SetToSeqs(S)
    PROVE  seq \in Seq(S)
<1>1. IsFiniteSet(T)
  BY DEF IsFiniteSet, Recall!IsFiniteSet
<1>2. IsFiniteSet(S)
  BY <1>1, FS_Subset
<1>3. Recall!Cardinality(S) = Cardinality(S)
  BY DEF Cardinality, Recall!Cardinality
<1>4. Cardinality(S) \in Nat
  BY <1>2, FS_CardinalityType
<1>5. seq \in [1 .. Cardinality(S) -> S]
  BY <1>3 DEF Recall!SetToSeqs
<1> QED BY <1>4, <1>5

LEMMA MembersOf ==
    ASSUME NEW A, NEW seq \in Seq(A)
    PROVE  /\ Recall!ToSet(seq) \subseteq A
           /\ \A x : x \in Recall!ToSet(seq) <=> \E n \in 1 .. Len(seq) : x = seq[n]
           /\ Len(seq) \in Nat /\ DOMAIN seq = 1 .. Len(seq)
           /\ \A n \in 1 .. Len(seq) : seq[n] \in A
BY LenProperties, ElementOfSeq DEF Recall!ToSet

\* _safety, on a pack: what is handed over is not exposed, and is what the pack held.
LEMMA SafeOK ==
    ASSUME NEW items \in Seq(ItemSet), NEW failing
    PROVE  /\ Recall!Safe(items, failing) \in Seq(ItemSet)
           /\ Len(Recall!Safe(items, failing)) <= Len(items)
           /\ \A j \in 1 .. Len(Recall!Safe(items, failing)) :
                 /\ Unexposed(Recall!Safe(items, failing)[j])
                 /\ \E n \in 1 .. Len(items) : SameItem(Recall!Safe(items, failing)[j], items[n])
           /\ \A n \in 1 .. Len(items) : Recall!Handed(items[n], failing) =>
                 \E j \in 1 .. Len(Recall!Safe(items, failing)) :
                    SameItem(Recall!Safe(items, failing)[j], items[n])
           /\ \/ "withheld" \in Recall!Withheld(items, failing)
              \/ /\ Len(Recall!Safe(items, failing)) = Len(items)
                 /\ \A n \in 1 .. Len(items) : Recall!Handed(items[n], failing)
<1> DEFINE S == {i \in Recall!ToSet(items) : Recall!Handed(i, failing)}
           kept == Recall!Only(items, S)
           safe == [n \in DOMAIN kept |->
                      [kept[n] EXCEPT !.masked = Recall!Verdict(kept[n].id, failing).masked]]
<1>1. Recall!Safe(items, failing) = safe
  BY DEF Recall!Safe
<1>2. /\ kept \in Seq(ItemSet \cap S) /\ Len(kept) <= Len(items)
      /\ \A n \in 1 .. Len(items) : items[n] \in S => \E j \in 1 .. Len(kept) : kept[j] = items[n]
      /\ (\A n \in 1 .. Len(items) : items[n] \in S) => Len(kept) = Len(items)
  <2> HIDE DEF S
  <2>1. kept \in Seq(ItemSet \cap S)
    BY OnlyOK
  <2>2. Len(kept) <= Len(items)
    BY OnlyOK
  <2>3. Keeps(items, S, kept)
    BY OnlyOK
  <2>4. (\A n \in 1 .. Len(items) : items[n] \in S) => Len(kept) = Len(items)
    BY OnlyOK
  <2> HIDE DEF kept
  <2> QED BY <2>1, <2>2, <2>3, <2>4 DEF Keeps
<1>3. \A n \in 1 .. Len(items) : items[n] \in S <=> Recall!Handed(items[n], failing)
  BY MembersOf
<1>4. \A i \in S : /\ Recall!Handed(i, failing)
                   /\ \E n \in 1 .. Len(items) : i = items[n]
  BY MembersOf
<1> HIDE DEF S, kept
<1>5. /\ Len(kept) \in Nat /\ DOMAIN kept = 1 .. Len(kept)
      /\ \A j \in 1 .. Len(kept) : kept[j] \in ItemSet /\ kept[j] \in S
  BY <1>2, MembersOf
<1>6. ASSUME NEW j \in 1 .. Len(kept)
      PROVE  /\ safe[j] \in ItemSet /\ Unexposed(safe[j]) /\ SameItem(safe[j], kept[j])
  <2> DEFINE i == kept[j]
             m == Recall!Verdict(i.id, failing).masked
  <2>1. i \in ItemSet /\ i.id \in Texted /\ Recall!Handed(i, failing)
    BY <1>4, <1>5 DEF ItemSet
  <2>2. safe[j] = [i EXCEPT !.masked = m]
    BY <1>5
  <2>3. m \subseteq {0} /\ (Content[i.id] = "secret" => m = {0}) /\ Content[i.id] # "lure"
    <3> HIDE DEF i
    <3> QED BY <2>1, HandedOK, MaskedItem
  <2> HIDE DEF i, m, safe
  <2>4. /\ safe[j] \in ItemSet /\ safe[j].masked = m /\ safe[j].id = i.id
        /\ safe[j].status = i.status /\ safe[j].trusted = i.trusted
    BY <2>1, <2>2, <2>3 DEF ItemSet
  <2> QED BY <2>3, <2>4 DEF Unexposed, SameItem, i
<1>7. safe \in Seq(ItemSet) /\ Len(safe) = Len(kept)
  <2>1. safe \in [1 .. Len(kept) -> ItemSet]
    BY <1>5, <1>6
  <2> HIDE DEF safe
  <2> QED BY <1>5, <2>1
<1> HIDE DEF safe
<1>8. \A j \in 1 .. Len(safe) :
         Unexposed(safe[j]) /\ \E n \in 1 .. Len(items) : SameItem(safe[j], items[n])
  BY <1>4, <1>5, <1>6, <1>7
<1>9. \A n \in 1 .. Len(items) : Recall!Handed(items[n], failing) =>
         \E j \in 1 .. Len(safe) : SameItem(safe[j], items[n])
  BY <1>2, <1>3, <1>6, <1>7
<1>10. \/ "withheld" \in Recall!Withheld(items, failing)
       \/ /\ Len(safe) = Len(items)
          /\ \A n \in 1 .. Len(items) : Recall!Handed(items[n], failing)
  <2>1. CASE \E n \in 1 .. Len(items) : ~Recall!Handed(items[n], failing)
    BY <2>1, MembersOf DEF Recall!Withheld
  <2>2. CASE \A n \in 1 .. Len(items) : Recall!Handed(items[n], failing)
    BY <1>2, <1>3, <1>7, <2>2
  <2> QED BY <2>1, <2>2
<1>11. Len(safe) <= Len(items)
  BY <1>2, <1>7
<1> QED BY <1>1, <1>7, <1>8, <1>9, <1>10, <1>11

-----------------------------------------------------------------------------
(***************************************************************************)
(* The call                                                                *)
(***************************************************************************)
\* What holds of the call k when p is what was promoted and q what was undisputed at some
\* moment of it.
CallTyped(k) ==
    /\ k.at \in {"nominated", "read", "disputes", "assembled", "scanned", "done"}
    /\ {"at", "req", "ids", "items", "warned"} \subseteq DOMAIN k
    /\ k.req \in Recalls /\ k.ids \in Seq(Claims) /\ k.items \in Seq(ItemSet)
    /\ k.at \notin {"scanned", "done"} => k.ids # <<>>

\* The rows are of record, and those that were promoted were so at some moment.
RowsOK(k, p) ==
    k.at # "nominated" /\ k.ids # <<>> =>
       /\ "rows" \in DOMAIN k /\ DOMAIN k.rows \subseteq Recall!ToSet(k.ids)
       /\ \A c \in DOMAIN k.rows : /\ k.rows[c] \in Statuses
                                   /\ k.rows[c] = "promoted" => c \in p

DisputesOK(k, q) ==
    k.at = "disputes" => \A c \in DOMAIN k.rows : c \notin k.disputed => c \in q

\* A claim in the pack, and a foreign item in it.
NativeItem(i, req, p, q) ==
    /\ i.trusted => i.id \in p /\ i.id \in q
    /\ req.trustedOnly /\ ~req.pending /\ ~req.superseded => i.trusted
    /\ Columns[i.id].scope[1] = "global" \/ Columns[i.id].scope \in req.scopes
    /\ Recall!Fits(i.id, req)
ForeignItem(i, req) ==
    /\ req.scopes # {} => Recall!External \in req.scopes
    /\ req.trustedOnly => i.trusted
    /\ i.trusted => \E f \in Items : f.id = i.id /\ f.eligible = "true" /\ f.label # "other"

ItemsOK(k, p, q) ==
    \A n \in 1 .. Len(k.items) :
       IF k.items[n].status = "federated" THEN ForeignItem(k.items[n], k.req)
       ELSE NativeItem(k.items[n], k.req, p, q)

Warnings == {"disputed", "scope", "profile", "withheld"}

\* What of record is not in the pack is announced, or the pack is full.
OmissionsOK(k) ==
    k.at \in {"assembled", "scanned", "done"} /\ k.ids # <<>> =>
       \A c \in DOMAIN k.rows : k.rows[c] = "promoted" =>
          \/ \E n \in 1 .. Len(k.items) : k.items[n].id = c /\ k.items[n].status # "federated"
          \/ k.warned \cap Warnings # {}
          \/ Len(k.items) >= k.req.max

CallOK(k, p, q) ==
    /\ CallTyped(k) /\ Len(k.items) <= k.req.max
    /\ RowsOK(k, p) /\ DisputesOK(k, q) /\ ItemsOK(k, p, q) /\ OmissionsOK(k)
    /\ k.at \in {"scanned", "done"} =>
          \A n \in 1 .. Len(k.items) : Unexposed(k.items[n])

LEMMA MaxOK == \A req \in Recalls : req.max \in Nat \ {0}
BY ReadersAssumption DEF Recall!RecallGiven

\* History only grows.
LEMMA CallGrows ==
    ASSUME NEW k, NEW p, NEW q, CallOK(k, p, q), NEW p2, NEW q2, p \subseteq p2, q \subseteq q2
    PROVE  CallOK(k, p2, q2)
<1>1. RowsOK(k, p2) /\ DisputesOK(k, q2)
  BY DEF CallOK, RowsOK, DisputesOK
<1>2. ItemsOK(k, p2, q2)
  BY DEF CallOK, ItemsOK, NativeItem
<1> QED BY <1>1, <1>2 DEF CallOK

LEMMA EmptyPack ==
    ASSUME NEW k, NEW p, NEW q, CallTyped(k), k.items = <<>>, RowsOK(k, p), DisputesOK(k, q),
           k.ids = <<>> \/ k.at \in {"nominated", "read", "disputes"}
    PROVE  CallOK(k, p, q)
<1>1. Len(k.items) = 0 /\ 1 .. 0 = {}
  BY EmptySeq
<1>2. 0 <= k.req.max
  BY MaxOK DEF CallTyped
<1> QED BY <1>1, <1>2 DEF CallOK, ItemsOK, OmissionsOK

\* The loop: what it keeps was promoted and undisputed at some moment if it is called trusted.
LEMMA AssembledOK ==
    ASSUME NEW k, NEW p, NEW q, CallOK(k, p, q), k.at = "disputes", NEW pairs,
           NEW kept, kept = Recall!KeptOf(Recall!Examined(k), k),
           NEW new, new = [at |-> "assembled", req |-> k.req, ids |-> k.ids, rows |-> k.rows,
                           items |-> [n \in DOMAIN kept |-> Recall!Item(kept[n], k)],
                           warned |-> Recall!Announced(k, Recall!ToSet(kept), pairs)]
    PROVE  CallOK(new, p, q)
<1> DEFINE S == {c \in Claims : Recall!Fate(c, k) = "kept"}
           items == [n \in DOMAIN kept |-> Recall!Item(kept[n], k)]
<1>1. /\ k.req \in Recalls /\ k.ids \in Seq(Claims) /\ k.ids # <<>>
      /\ k.req.max \in Nat \ {0}
  BY MaxOK DEF CallOK, CallTyped
<1>2. /\ "rows" \in DOMAIN k /\ DOMAIN k.rows \subseteq Recall!ToSet(k.ids)
      /\ \A c \in DOMAIN k.rows : /\ k.rows[c] \in Statuses
                                  /\ k.rows[c] = "promoted" => c \in p
                                  /\ c \notin k.disputed => c \in q
  BY <1>1 DEF CallOK, RowsOK, DisputesOK
<1>3. /\ Recall!Examined(k) \in Seq(Claims)
      /\ Len(kept) <= k.req.max
      /\ Len(kept) = k.req.max \/ Recall!Examined(k) = k.ids
  BY <1>1, ExaminedOK
<1>4. kept = Recall!Only(Recall!Examined(k), S)
  BY DEF Recall!KeptOf
<1>5. kept \in Seq(Claims \cap S) /\ Keeps(Recall!Examined(k), S, kept)
  <2> HIDE DEF S
  <2> QED BY <1>3, <1>4, OnlyOK
<1>6. /\ Len(kept) \in Nat /\ DOMAIN kept = 1 .. Len(kept)
      /\ \A n \in 1 .. Len(kept) : kept[n] \in S
  BY <1>5, MembersOf
<1>7. ASSUME NEW c \in S
      PROVE  /\ Recall!Item(c, k) \in ItemSet
             /\ Recall!Item(c, k).status = k.rows[c] /\ Recall!Item(c, k).status # "federated"
             /\ Recall!Item(c, k).id = c
             /\ NativeItem(Recall!Item(c, k), k.req, p, q)
  <2>1. c \in Claims /\ Recall!Fate(c, k) = "kept"
    OBVIOUS
  <2>2. /\ c \in DOMAIN k.rows
        /\ c \in k.disputed => ~k.req.trustedOnly
        /\ k.rows[c] \in Recall!Allowed(k.req)
        /\ Recall!InScope(c, k.req) /\ Recall!Fits(c, k.req)
    BY <2>1 DEF Recall!Fate
  <2> DEFINE i == Recall!Item(c, k)
  <2>3. /\ i.id = c /\ i.status = k.rows[c] /\ i.disputed = (c \in k.disputed)
        /\ i.trusted = (k.rows[c] = "promoted" /\ c \notin k.disputed) /\ i.masked = {}
    BY DEF Recall!Item, Recall!IsTrusted
  <2>4. k.rows[c] \in Statuses
    BY <1>2, <2>2
  <2>5. i \in ItemSet
    BY <2>1, <2>4 DEF ItemSet, Texted, Recall!Item, Recall!IsTrusted
  <2> HIDE DEF i
  <2>6. i.trusted => i.id \in p /\ i.id \in q
    BY <1>2, <2>2, <2>3
  <2>7. k.req.trustedOnly /\ ~k.req.pending /\ ~k.req.superseded => i.trusted
    BY <2>2, <2>3 DEF Recall!Allowed
  <2>8. Columns[i.id].scope[1] = "global" \/ Columns[i.id].scope \in k.req.scopes
    BY <2>2, <2>3 DEF Recall!InScope, Recall!Matches
  <2>9. NativeItem(i, k.req, p, q)
    BY <2>2, <2>3, <2>6, <2>7, <2>8 DEF NativeItem
  <2>10. i.status # "federated"
    BY <2>3, <2>4 DEF Statuses
  <2> QED BY <2>3, <2>5, <2>9, <2>10 DEF i
<1> HIDE DEF S
<1>8. \A n \in 1 .. Len(kept) : items[n] = Recall!Item(kept[n], k)
  BY <1>6
<1>9. items \in Seq(ItemSet) /\ Len(items) = Len(kept)
  <2>1. items \in [1 .. Len(kept) -> ItemSet]
    BY <1>6, <1>7
  <2> HIDE DEF items
  <2> QED BY <1>6, <2>1
<1> HIDE DEF items
<1>10. /\ new.at = "assembled" /\ new.req = k.req /\ new.ids = k.ids /\ new.rows = k.rows
       /\ new.items = items /\ new.warned = Recall!Announced(k, Recall!ToSet(kept), pairs)
       /\ {"at", "req", "ids", "items", "warned", "rows"} \subseteq DOMAIN new
  BY DEF items
<1>11. CallTyped(new) /\ Len(new.items) <= new.req.max
  BY <1>1, <1>3, <1>9, <1>10 DEF CallTyped
<1>12. RowsOK(new, p) /\ DisputesOK(new, q)
  BY <1>2, <1>10 DEF RowsOK, DisputesOK
<1>13. ItemsOK(new, p, q)
  BY <1>6, <1>7, <1>8, <1>9, <1>10 DEF ItemsOK
<1>14. ASSUME NEW c \in DOMAIN new.rows, new.rows[c] = "promoted"
       PROVE  \/ \E n \in 1 .. Len(new.items) :
                    new.items[n].id = c /\ new.items[n].status # "federated"
              \/ new.warned \cap Warnings # {}
              \/ Len(new.items) >= new.req.max
  <2>1. CASE Len(kept) = k.req.max
    BY <1>1, <1>9, <1>10, <2>1
  <2>2. CASE Recall!Examined(k) = k.ids
    <3>1. c \in DOMAIN k.rows /\ k.rows[c] = "promoted" /\ c \in Recall!ToSet(k.ids)
      BY <1>2, <1>10, <1>14
    <3>2. Recall!Fate(c, k) \in {"disputed", "scope", "profile", "kept"}
      BY <3>1 DEF Recall!Fate, Recall!Allowed
    <3>3. CASE Recall!Fate(c, k) = "kept"
      <4>1. PICK n \in 1 .. Len(k.ids) : c = k.ids[n]
        BY <1>1, <3>1, MembersOf
      <4>2. c \in S
        BY <1>1, <3>3, <4>1, ElementOfSeq DEF S
      <4>3. PICK j \in 1 .. Len(kept) : kept[j] = c
        BY <1>5, <2>2, <4>1, <4>2 DEF Keeps
      <4> QED BY <1>7, <1>8, <1>9, <1>10, <4>2, <4>3
    <3>4. CASE Recall!Fate(c, k) \in {"disputed", "scope", "profile"}
      <4>1. Recall!Fate(c, k) \in new.warned
        BY <1>10, <2>2, <3>1, <3>4 DEF Recall!Announced
      <4> QED BY <3>4, <4>1 DEF Warnings
    <3> QED BY <3>2, <3>3, <3>4
  <2> QED BY <1>3, <2>1, <2>2
<1>15. OmissionsOK(new)
  BY <1>14 DEF OmissionsOK
<1> QED BY <1>10, <1>11, <1>12, <1>13, <1>15 DEF CallOK

\* The safety pass: what it hands over was in the pack and is not exposed; what it withholds
\* it announces.
LEMMA PassedOK ==
    ASSUME NEW k, NEW p, NEW q, CallOK(k, p, q), k.at = "assembled", NEW failing,
           NEW new, new = [k EXCEPT !.at = "scanned", !.items = Recall!Safe(k.items, failing),
                                    !.warned = @ \cup Recall!Withheld(k.items, failing)]
    PROVE  CallOK(new, p, q)
<1> DEFINE safe == Recall!Safe(k.items, failing)
           withheld == Recall!Withheld(k.items, failing)
<1>1. /\ {"at", "req", "ids", "items", "warned"} \subseteq DOMAIN k
      /\ k.req \in Recalls /\ k.ids \in Seq(Claims) /\ k.items \in Seq(ItemSet) /\ k.ids # <<>>
      /\ k.req.max \in Nat /\ Len(k.items) <= k.req.max
  BY MaxOK DEF CallOK, CallTyped
<1>2. /\ "rows" \in DOMAIN k /\ DOMAIN k.rows \subseteq Recall!ToSet(k.ids)
      /\ \A c \in DOMAIN k.rows : /\ k.rows[c] \in Statuses
                                  /\ k.rows[c] = "promoted" => c \in p
  BY <1>1 DEF CallOK, RowsOK
<1>3. /\ DOMAIN new = DOMAIN k /\ new.at = "scanned" /\ new.req = k.req /\ new.ids = k.ids
      /\ new.rows = k.rows /\ new.items = safe /\ new.warned = k.warned \cup withheld
  BY <1>1, <1>2
<1>4. /\ safe \in Seq(ItemSet) /\ Len(safe) <= Len(k.items)
      /\ \A j \in 1 .. Len(safe) :
            Unexposed(safe[j]) /\ \E n \in 1 .. Len(k.items) : SameItem(safe[j], k.items[n])
      /\ \A n \in 1 .. Len(k.items) : Recall!Handed(k.items[n], failing) =>
            \E j \in 1 .. Len(safe) : SameItem(safe[j], k.items[n])
      /\ \/ "withheld" \in withheld
         \/ /\ Len(safe) = Len(k.items)
            /\ \A n \in 1 .. Len(k.items) : Recall!Handed(k.items[n], failing)
  BY <1>1, SafeOK
<1> HIDE DEF safe, withheld
<1>5. CallTyped(new)
  BY <1>1, <1>3, <1>4 DEF CallTyped
<1>6. Len(new.items) <= new.req.max
  <2>1. Len(safe) \in Nat /\ Len(k.items) \in Nat
    BY <1>1, <1>4, LenProperties
  <2> QED BY <1>1, <1>3, <1>4, <2>1
<1>7. RowsOK(new, p) /\ DisputesOK(new, q)
  BY <1>2, <1>3 DEF RowsOK, DisputesOK
<1>8. ItemsOK(new, p, q)
  <2> SUFFICES ASSUME NEW j \in 1 .. Len(safe)
               PROVE  IF safe[j].status = "federated" THEN ForeignItem(safe[j], k.req)
                      ELSE NativeItem(safe[j], k.req, p, q)
    BY <1>3 DEF ItemsOK
  <2>1. PICK n \in 1 .. Len(k.items) : SameItem(safe[j], k.items[n])
    BY <1>4
  <2>2. IF k.items[n].status = "federated" THEN ForeignItem(k.items[n], k.req)
        ELSE NativeItem(k.items[n], k.req, p, q)
    BY DEF CallOK, ItemsOK
  <2> QED BY <2>1, <2>2 DEF SameItem, ForeignItem, NativeItem
<1>9. ASSUME NEW c \in DOMAIN k.rows, k.rows[c] = "promoted"
      PROVE  \/ \E n \in 1 .. Len(new.items) :
                    new.items[n].id = c /\ new.items[n].status # "federated"
             \/ new.warned \cap Warnings # {}
             \/ Len(new.items) >= new.req.max
  <2>1. CASE "withheld" \in withheld
    BY <1>3, <2>1 DEF Warnings
  <2>2. CASE /\ Len(safe) = Len(k.items)
             /\ \A n \in 1 .. Len(k.items) : Recall!Handed(k.items[n], failing)
    <3>1. \/ \E n \in 1 .. Len(k.items) : k.items[n].id = c /\ k.items[n].status # "federated"
          \/ k.warned \cap Warnings # {}
          \/ Len(k.items) >= k.req.max
      BY <1>1, <1>9 DEF CallOK, OmissionsOK
    <3>2. CASE \E n \in 1 .. Len(k.items) : k.items[n].id = c /\ k.items[n].status # "federated"
      <4>1. PICK n \in 1 .. Len(k.items) : k.items[n].id = c /\ k.items[n].status # "federated"
        BY <3>2
      <4>2. PICK j \in 1 .. Len(safe) : SameItem(safe[j], k.items[n])
        BY <1>4, <2>2
      <4>3. safe[j].id = c /\ safe[j].status # "federated"
        BY <4>1, <4>2 DEF SameItem
      <4> QED BY <1>3, <4>3
    <3>3. CASE k.warned \cap Warnings # {}
      BY <1>3, <3>3
    <3>4. CASE Len(k.items) >= k.req.max
      BY <1>3, <2>2, <3>4
    <3> QED BY <3>1, <3>2, <3>3, <3>4
  <2> QED BY <1>4, <2>1, <2>2
<1>10. OmissionsOK(new)
  BY <1>3, <1>9 DEF OmissionsOK
<1> QED BY <1>3, <1>4, <1>5, <1>6, <1>7, <1>8, <1>10 DEF CallOK

\* What Decima offers: no more than what is left of the pack, and trusted on a real True only.
LEMMA OfferedOK ==
    ASSUME NEW k, NEW p, NEW q, CallOK(k, p, q), Len(k.items) < k.req.max,
           Recall!Admits(k.req), NEW read \in SUBSET Items, NEW ranked \in Recall!Rankings(read)
    PROVE  /\ Recall!Offered(ranked, k) \in Seq(ItemSet)
           /\ Len(Recall!Offered(ranked, k)) <= k.req.max - Len(k.items)
           /\ \A n \in 1 .. Len(Recall!Offered(ranked, k)) :
                 /\ Recall!Offered(ranked, k)[n].status = "federated"
                 /\ ForeignItem(Recall!Offered(ranked, k)[n], k.req)
<1> DEFINE m == k.req.max - Len(k.items)
           t == IF Len(ranked) < m THEN Len(ranked) ELSE m
           top == SubSeq(ranked, 1, t)
           items == [n \in DOMAIN top |-> Recall!FromDecima(top[n])]
           S == {i \in Recall!ToSet(items) : ~k.req.trustedOnly \/ i.trusted}
           offered == Recall!Only(items, S)
<1>1. Recall!Offered(ranked, k) = offered
  BY DEF Recall!Offered, Recall!Best
<1>2. k.req.max \in Nat /\ Len(k.items) \in Nat /\ m \in Nat
  BY MaxOK, LenProperties DEF CallOK, CallTyped
<1>3. ranked \in Seq(Items)
  <2>1. Recall!IsFiniteSet(Items)
    BY ReadersAssumption DEF Recall!RecallGiven
  <2> DEFINE shown == {f \in read : f.identified /\ f.score > 0}
  <2>2. ranked \in Recall!SetToSeqs(shown)
    BY DEF Recall!Rankings
  <2>3. shown \in SUBSET Items
    OBVIOUS
  <2> HIDE DEF shown
  <2>4. ranked \in Seq(shown)
    BY <2>1, <2>2, <2>3, OrdersAre
  <2> QED BY <2>3, <2>4
<1>4. Len(ranked) \in Nat /\ \A n \in 1 .. Len(ranked) : ranked[n] \in Items
  BY <1>3, LenProperties, ElementOfSeq
<1> HIDE DEF m
<1>5. t \in Nat /\ t <= m /\ t <= Len(ranked)
  BY <1>2, <1>4
<1> HIDE DEF t
<1>6. /\ top \in Seq(Items) /\ Len(top) = t
  <2>1. \A n \in 1 .. t : ranked[n] \in Items
    BY <1>4, <1>5
  <2> QED BY <1>5, <2>1, SubSeqProperties
<1> HIDE DEF top
<1>7. DOMAIN top = 1 .. t /\ \A n \in 1 .. t : top[n] \in Items
  BY <1>6, MembersOf
<1>8. ASSUME NEW f \in Items
      PROVE  /\ Recall!FromDecima(f) \in ItemSet /\ Recall!FromDecima(f).status = "federated"
             /\ Recall!FromDecima(f).trusted =>
                   \E g \in Items : /\ g.id = Recall!FromDecima(f).id
                                    /\ g.eligible = "true" /\ g.label # "other"
  BY DEF Recall!FromDecima, Recall!Normalize, ItemSet, Texted
<1>9. items \in Seq(ItemSet) /\ Len(items) = t
  <2>1. items \in [1 .. t -> ItemSet]
    BY <1>7, <1>8
  <2>2. \A n \in 1 .. t : items[n] = Recall!FromDecima(top[n])
    BY <1>7
  <2> HIDE DEF items
  <2> QED BY <1>5, <2>1
<1>10. \A n \in 1 .. t : items[n] = Recall!FromDecima(top[n])
  BY <1>7
<1> HIDE DEF items
<1>11. \A i \in S : /\ ~k.req.trustedOnly \/ i.trusted
                    /\ \E n \in 1 .. t : i = items[n]
  BY <1>9, MembersOf
<1> HIDE DEF S
<1>12. offered \in Seq(ItemSet \cap S) /\ Len(offered) <= t
  BY <1>9, OnlyOK
<1> HIDE DEF offered
<1>13. Len(offered) \in Nat /\ \A n \in 1 .. Len(offered) : offered[n] \in ItemSet /\ offered[n] \in S
  BY <1>12, MembersOf
<1>14. ASSUME NEW n \in 1 .. Len(offered)
       PROVE  offered[n].status = "federated" /\ ForeignItem(offered[n], k.req)
  <2>1. ~k.req.trustedOnly \/ offered[n].trusted
    BY <1>11, <1>13
  <2>2. PICK j \in 1 .. t : offered[n] = Recall!FromDecima(top[j])
    BY <1>10, <1>11, <1>13
  <2>3. k.req.scopes # {} => Recall!External \in k.req.scopes
    BY DEF Recall!Admits
  <2> QED BY <1>7, <1>8, <2>1, <2>2, <2>3 DEF ForeignItem
<1>15. offered \in Seq(ItemSet)
  BY <1>12
<1>16. Len(offered) <= m
  BY <1>2, <1>5, <1>12, <1>13
<1> QED BY <1>1, <1>14, <1>15, <1>16 DEF m

\* _federate: the pack keeps its bound, and what is added is as safe as the rest.
LEMMA FederatedOK ==
    ASSUME NEW k, NEW p, NEW q, CallOK(k, p, q), k.at = "scanned", NEW offered \in Seq(ItemSet),
           Len(offered) <= k.req.max - Len(k.items),
           \A n \in 1 .. Len(offered) :
              offered[n].status = "federated" /\ ForeignItem(offered[n], k.req),
           NEW failing, NEW more,
           NEW new, new = [k EXCEPT !.at = "done", !.items = @ \o Recall!Safe(offered, failing),
                                    !.warned = @ \cup more]
    PROVE  CallOK(new, p, q)
<1> DEFINE safe == Recall!Safe(offered, failing)
           a == Len(k.items)
           b == Len(safe)
           items == k.items \o safe
<1>1. /\ {"at", "req", "ids", "items", "warned"} \subseteq DOMAIN k
      /\ k.req \in Recalls /\ k.ids \in Seq(Claims) /\ k.items \in Seq(ItemSet)
      /\ k.req.max \in Nat /\ a \in Nat
  BY MaxOK, LenProperties DEF CallOK, CallTyped
<1>2. /\ safe \in Seq(ItemSet) /\ b <= Len(offered)
      /\ \A j \in 1 .. b :
            Unexposed(safe[j]) /\ \E n \in 1 .. Len(offered) : SameItem(safe[j], offered[n])
  BY SafeOK
<1>3. /\ DOMAIN new = DOMAIN k /\ new.at = "done" /\ new.req = k.req /\ new.ids = k.ids
      /\ new.items = items /\ new.warned = k.warned \cup more
  BY <1>1
<1>4. "rows" \in DOMAIN k => new.rows = k.rows
  BY <1>1
<1> HIDE DEF safe
<1>5. b \in Nat /\ Len(offered) \in Nat
  BY <1>2, LenProperties
<1>6. /\ items \in Seq(ItemSet) /\ Len(items) = a + b
      /\ \A n \in 1 .. a : items[n] = k.items[n]
      /\ \A n \in 1 .. b : items[a + n] = safe[n]
  BY <1>1, <1>2, <1>5, ConcatProperties
<1> HIDE DEF items
<1>7. \A n \in 1 .. Len(items) : n \in 1 .. a \/ (n - a \in 1 .. b /\ n = a + (n - a))
  BY <1>1, <1>5, <1>6
<1>8. CallTyped(new)
  BY <1>1, <1>3, <1>6 DEF CallTyped
<1>9. Len(new.items) <= new.req.max
  BY <1>1, <1>2, <1>3, <1>5, <1>6
<1>10. RowsOK(new, p) /\ DisputesOK(new, q)
  BY <1>3, <1>4 DEF CallOK, RowsOK, DisputesOK
<1>11. ASSUME NEW n \in 1 .. b
       PROVE  safe[n].status = "federated" /\ ForeignItem(safe[n], k.req) /\ Unexposed(safe[n])
  <2>1. PICK j \in 1 .. Len(offered) : SameItem(safe[n], offered[j])
    BY <1>2
  <2> QED BY <1>2, <2>1 DEF SameItem, ForeignItem
<1>12. ItemsOK(new, p, q) /\ \A n \in 1 .. Len(new.items) : Unexposed(new.items[n])
  <2> SUFFICES ASSUME NEW n \in 1 .. Len(items)
               PROVE  /\ IF items[n].status = "federated" THEN ForeignItem(items[n], k.req)
                         ELSE NativeItem(items[n], k.req, p, q)
                      /\ Unexposed(items[n])
    BY <1>3 DEF ItemsOK
  <2>1. CASE n \in 1 .. a
    BY <1>6, <2>1 DEF CallOK, ItemsOK
  <2>2. CASE n - a \in 1 .. b /\ n = a + (n - a)
    <3>1. items[n] = safe[n - a]
      BY <1>6, <2>2
    <3> QED BY <1>11, <2>2, <3>1
  <2> QED BY <1>7, <2>1, <2>2
<1>13. OmissionsOK(new)
  <2> SUFFICES ASSUME new.ids # <<>>, NEW c \in DOMAIN new.rows, new.rows[c] = "promoted"
               PROVE  \/ \E n \in 1 .. Len(new.items) :
                             new.items[n].id = c /\ new.items[n].status # "federated"
                      \/ new.warned \cap Warnings # {}
                      \/ Len(new.items) >= new.req.max
    BY DEF OmissionsOK
  <2>a. k.ids # <<>> /\ c \in DOMAIN k.rows /\ k.rows[c] = "promoted"
    <3>1. "rows" \in DOMAIN k
      BY <1>3 DEF CallOK, RowsOK
    <3> QED BY <1>3, <1>4, <3>1
  <2>1. \/ \E n \in 1 .. a : k.items[n].id = c /\ k.items[n].status # "federated"
        \/ k.warned \cap Warnings # {}
        \/ a >= k.req.max
    BY <2>a DEF CallOK, OmissionsOK
  <2>2. \A n \in 1 .. a : n \in 1 .. Len(items)
    BY <1>1, <1>5, <1>6
  <2>3. Len(items) >= a
    BY <1>1, <1>5, <1>6
  <2>4. CASE \E n \in 1 .. a : k.items[n].id = c /\ k.items[n].status # "federated"
    <3>1. PICK n \in 1 .. a : k.items[n].id = c /\ k.items[n].status # "federated"
      BY <2>4
    <3>2. n \in 1 .. Len(new.items) /\ new.items[n] = k.items[n]
      BY <1>3, <1>6, <2>2
    <3> QED BY <3>1, <3>2
  <2>5. CASE k.warned \cap Warnings # {}
    BY <1>3, <2>5
  <2>6. CASE a >= k.req.max
    BY <1>1, <1>3, <1>5, <1>6, <2>3, <2>6
  <2> QED BY <2>1, <2>4, <2>5, <2>6
<1> QED BY <1>3, <1>8, <1>9, <1>10, <1>12, <1>13 DEF CallOK

-----------------------------------------------------------------------------
(***************************************************************************)
(* Recall: the steps of a call, and of those who write meanwhile           *)
(***************************************************************************)
\* What was promoted, and what undisputed, at a moment of the call includes what is so now;
\* what the call has read so far was so at some moment of it.
CallInv ==
    /\ Recall!PromotedIn(recallStatus) \subseteq promotedOnce
    /\ Claims \ Recall!DisputedIn(recallOpen) \subseteq clearOnce
    /\ CallOK(call, promotedOnce, clearOnce)

RecallInv ==
    /\ recallStatus \in [Claims -> Statuses]
    /\ call = Recall!Idle \/ CallInv

LEMMA RecallInitOK == ReadersInit => RecallInv
BY DEF ReadersInit, Recall!Init, RecallInv, Statuses

LEMMA LedgerOK ==
    ASSUME RecallInv, Recall!Ledger
    PROVE  RecallInv'
<1>1. recallStatus' \in [Claims -> Statuses] /\ Recall!Moment /\ call' = call
  <2>1. ASSUME NEW c \in Claims, Recall!File(c) \/ Recall!Refile(c) \/ Recall!Promote(c) \/ Recall!Reject(c)
        PROVE  recallStatus' \in [Claims -> Statuses] /\ Recall!Moment /\ call' = call
    BY <2>1 DEF RecallInv, Recall!File, Recall!Refile, Recall!Promote, Recall!Reject, Recall!Writer,
                Statuses
  <2>2. ASSUME NEW c \in Claims, NEW d \in Claims, Recall!Supersede(c, d)
        PROVE  recallStatus' \in [Claims -> Statuses] /\ Recall!Moment /\ call' = call
    BY <2>2 DEF RecallInv, Recall!Supersede, Recall!Writer, Statuses
  <2>3. ASSUME NEW pair \in recallOpen, Recall!Resolve(pair)
        PROVE  recallStatus' \in [Claims -> Statuses] /\ Recall!Moment /\ call' = call
    BY <2>3 DEF RecallInv, Recall!Resolve, Recall!Writer
  <2> QED BY <2>1, <2>2, <2>3 DEF Recall!Ledger
<1>2. CASE call = Recall!Idle
  BY <1>1, <1>2 DEF RecallInv, Recall!Idle
<1>3. CASE CallInv
  <2>1. /\ promotedOnce \subseteq promotedOnce' /\ Recall!PromotedIn(recallStatus') \subseteq promotedOnce'
        /\ clearOnce \subseteq clearOnce' /\ Claims \ Recall!DisputedIn(recallOpen') \subseteq clearOnce'
    BY <1>1 DEF Recall!Moment
  <2>2. CallOK(call, promotedOnce', clearOnce')
    BY <1>3, <2>1, CallGrows DEF CallInv
  <2> QED BY <1>1, <2>1, <2>2 DEF RecallInv, CallInv
<1> QED BY <1>2, <1>3 DEF RecallInv

\* A step of the call keeps the ledger and the history: what remains is the call.
LEMMA StepOK ==
    ASSUME RecallInv, NEW new, Recall!Step(new), call # Recall!Idle,
           CallOK(new, promotedOnce, clearOnce)
    PROVE  RecallInv'
<1>1. /\ call' = new /\ recallStatus' = recallStatus /\ recallOpen' = recallOpen
      /\ promotedOnce' = promotedOnce /\ clearOnce' = clearOnce
  BY DEF Recall!Step, Recall!ledger, Recall!history
<1> QED BY <1>1 DEF RecallInv, CallInv

LEMMA SearchOK ==
    ASSUME RecallInv, NEW req \in Recalls, Recall!Search(req)
    PROVE  RecallInv'
<1> DEFINE matched == {c \in Claims : IF Recall!Allowed(req) = {"promoted"}
                                      THEN recallStatus[c] = "promoted"
                                      ELSE recallStatus[c] # "absent"}
<1>1. \E found \in SUBSET matched : \E ids \in Recall!SetToSeqs(found) :
         call' = [at |-> IF ids = <<>> THEN "scanned" ELSE "nominated", req |-> req,
                  ids |-> ids, items |-> <<>>, warned |-> {}]
  BY DEF Recall!Search
<1>2. matched \subseteq Claims
  OBVIOUS
<1> HIDE DEF matched
<1>3. PICK found \in SUBSET matched : \E ids \in Recall!SetToSeqs(found) :
         call' = [at |-> IF ids = <<>> THEN "scanned" ELSE "nominated", req |-> req,
                  ids |-> ids, items |-> <<>>, warned |-> {}]
  BY <1>1
<1>4. PICK ids \in Recall!SetToSeqs(found) :
         call' = [at |-> IF ids = <<>> THEN "scanned" ELSE "nominated", req |-> req,
                  ids |-> ids, items |-> <<>>, warned |-> {}]
  BY <1>3
<1>5. ids \in Seq(Claims)
  <2>1. Recall!IsFiniteSet(Claims)
    BY ReadersAssumption DEF Recall!RecallGiven
  <2>2. ids \in Seq(found)
    BY <1>2, <2>1, OrdersAre
  <2> QED BY <1>2, <2>2
<1>6. CallOK(call', promotedOnce', clearOnce')
  <2>1. call'.items \in Seq(ItemSet)
    BY <1>4
  <2>2. CallTyped(call')
    BY <1>4, <1>5, <2>1 DEF CallTyped
  <2>3. RowsOK(call', promotedOnce') /\ DisputesOK(call', clearOnce')
    BY <1>4 DEF RowsOK, DisputesOK
  <2>4. call'.items = <<>> /\ (call'.ids = <<>> \/ call'.at \in {"nominated", "read", "disputes"})
    BY <1>4
  <2> QED BY <2>2, <2>3, <2>4, EmptyPack
<1>7. /\ recallStatus' = recallStatus /\ recallOpen' = recallOpen
      /\ promotedOnce' = Recall!PromotedIn(recallStatus)
      /\ clearOnce' = Claims \ Recall!DisputedIn(recallOpen)
  BY DEF Recall!Search, Recall!ledger
<1> QED BY <1>6, <1>7 DEF RecallInv, CallInv

LEMMA ReadRowsOK ==
    ASSUME RecallInv, Recall!ReadRows
    PROVE  RecallInv'
<1>1. call # Recall!Idle /\ CallInv /\ call.at = "nominated"
  BY DEF RecallInv, Recall!ReadRows, Recall!Idle
<1> DEFINE S == {x \in Recall!ToSet(call.ids) : recallStatus[x] # "absent"}
           rows == [c \in S |-> recallStatus[c]]
           new == [at |-> "read", req |-> call.req, ids |-> call.ids, items |-> <<>>, warned |-> {},
                   rows |-> rows]
<1>2. Recall!Step(new)
  BY DEF Recall!ReadRows
<1>3. CallTyped(call)
  BY <1>1 DEF CallInv, CallOK
<1>4. Recall!ToSet(call.ids) \subseteq Claims
  BY <1>3, MembersOf DEF CallTyped
<1>5. RowsOK(new, promotedOnce)
  <2>1. ASSUME NEW c \in S
        PROVE  rows[c] \in Statuses /\ (rows[c] = "promoted" => c \in promotedOnce)
    BY <1>1, <1>4 DEF RecallInv, CallInv, Recall!PromotedIn
  <2> QED BY <2>1 DEF RowsOK
<1>6. CallTyped(new) /\ DisputesOK(new, clearOnce)
  <2>1. <<>> \in Seq(ItemSet)
    OBVIOUS
  <2> HIDE DEF rows
  <2> QED BY <1>1, <1>3, <2>1 DEF CallTyped, DisputesOK
<1>7. new.items = <<>> /\ new.at = "read"
  OBVIOUS
<1> HIDE DEF new
<1>8. CallOK(new, promotedOnce, clearOnce)
  BY <1>5, <1>6, <1>7, EmptyPack
<1> QED BY <1>1, <1>2, <1>8, StepOK

LEMMA ReadDisputesOK ==
    ASSUME RecallInv, Recall!ReadDisputes
    PROVE  RecallInv'
<1>1. call # Recall!Idle /\ CallInv /\ call.at = "read"
  BY DEF RecallInv, Recall!ReadDisputes, Recall!Idle
<1> DEFINE new == [at |-> "disputes", req |-> call.req, ids |-> call.ids, items |-> <<>>,
                   warned |-> {}, rows |-> call.rows,
                   disputed |-> Recall!DisputedIn(recallOpen) \cap DOMAIN call.rows]
<1>2. Recall!Step(new)
  BY DEF Recall!ReadDisputes
<1>3. CallTyped(call) /\ RowsOK(call, promotedOnce)
  BY <1>1 DEF CallInv, CallOK
<1>4. CallTyped(new) /\ RowsOK(new, promotedOnce)
  <2>1. <<>> \in Seq(ItemSet)
    OBVIOUS
  <2> QED BY <1>1, <1>3, <2>1 DEF CallTyped, RowsOK
<1>5. DisputesOK(new, clearOnce)
  <2>1. DOMAIN call.rows \subseteq Claims
    <3>1. call.ids \in Seq(Claims) /\ call.ids # <<>>
      BY <1>1, <1>3 DEF CallTyped
    <3> QED BY <1>1, <1>3, <3>1, MembersOf DEF RowsOK
  <2> QED BY <1>1, <2>1 DEF DisputesOK, CallInv
<1>6. new.items = <<>> /\ new.at = "disputes"
  OBVIOUS
<1> HIDE DEF new
<1>7. CallOK(new, promotedOnce, clearOnce)
  BY <1>4, <1>5, <1>6, EmptyPack
<1> QED BY <1>1, <1>2, <1>7, StepOK

LEMMA AssembleOK ==
    ASSUME RecallInv, Recall!Assemble
    PROVE  RecallInv'
<1>1. call # Recall!Idle /\ CallOK(call, promotedOnce, clearOnce) /\ call.at = "disputes"
  BY DEF RecallInv, CallInv, Recall!Assemble, Recall!Idle
<1> DEFINE kept == Recall!KeptOf(Recall!Examined(call), call)
           new == [at |-> "assembled", req |-> call.req, ids |-> call.ids, rows |-> call.rows,
                   items |-> [n \in DOMAIN kept |-> Recall!Item(kept[n], call)],
                   warned |-> Recall!Announced(call, Recall!ToSet(kept), replaced)]
<1>2. Recall!Step(new)
  BY DEF Recall!Assemble
<1>3. CallOK(new, promotedOnce, clearOnce)
  BY <1>1, AssembledOK
<1> HIDE DEF new
<1> QED BY <1>1, <1>2, <1>3, StepOK

LEMMA SafetyPassOK ==
    ASSUME RecallInv, Recall!SafetyPass
    PROVE  RecallInv'
<1>1. call # Recall!Idle /\ CallOK(call, promotedOnce, clearOnce) /\ call.at = "assembled"
  BY DEF RecallInv, CallInv, Recall!SafetyPass, Recall!Idle
<1>2. PICK failing \in SUBSET {i.id : i \in Recall!ToSet(call.items)} :
         Recall!Step([call EXCEPT !.at = "scanned", !.items = Recall!Safe(call.items, failing),
                                  !.warned = @ \cup Recall!Withheld(call.items, failing)])
  BY DEF Recall!SafetyPass
<1> DEFINE new == [call EXCEPT !.at = "scanned", !.items = Recall!Safe(call.items, failing),
                               !.warned = @ \cup Recall!Withheld(call.items, failing)]
<1>3. CallOK(new, promotedOnce, clearOnce)
  BY <1>1, PassedOK
<1>4. Recall!Step(new)
  BY <1>2
<1> HIDE DEF new
<1> QED BY <1>1, <1>3, <1>4, StepOK

\* A pack that is handed over as it is.
LEMMA DoneOK ==
    ASSUME NEW k, NEW p, NEW q, CallOK(k, p, q), k.at = "scanned",
           NEW new, new = [k EXCEPT !.at = "done"]
    PROVE  CallOK(new, p, q)
<1>1. /\ {"at", "req", "ids", "items", "warned"} \subseteq DOMAIN k
      /\ k.ids # <<>> => "rows" \in DOMAIN k
  BY DEF CallOK, CallTyped, RowsOK
<1>2. /\ DOMAIN new = DOMAIN k /\ new.at = "done" /\ new.req = k.req /\ new.ids = k.ids
      /\ new.items = k.items /\ new.warned = k.warned
      /\ k.ids # <<>> => new.rows = k.rows
  BY <1>1
<1>3. CallTyped(new)
  BY <1>1, <1>2 DEF CallOK, CallTyped
<1>4. RowsOK(new, p) /\ DisputesOK(new, q)
  BY <1>1, <1>2 DEF CallOK, RowsOK, DisputesOK
<1>5. ItemsOK(new, p, q)
  BY <1>2 DEF CallOK, ItemsOK
<1>6. OmissionsOK(new)
  BY <1>1, <1>2 DEF CallOK, OmissionsOK
<1>7. Len(new.items) <= new.req.max /\ \A n \in 1 .. Len(new.items) : Unexposed(new.items[n])
  BY <1>2 DEF CallOK
<1> QED BY <1>3, <1>4, <1>5, <1>6, <1>7 DEF CallOK

LEMMA FederateOK ==
    ASSUME RecallInv, Recall!Federate
    PROVE  RecallInv'
<1>1. call # Recall!Idle /\ CallOK(call, promotedOnce, clearOnce) /\ call.at = "scanned"
  <2>1. call.at = "scanned"
    BY DEF Recall!Federate
  <2> QED BY <2>1 DEF RecallInv, CallInv, Recall!Idle
<1>2. CASE Recall!Admits(call.req) /\ decima' = "on" /\ Len(call.items) < call.req.max
  <2>0. PICK read \in SUBSET Items : \E ranked \in Recall!Rankings(read) :
           \E failing \in SUBSET {i.id : i \in Recall!ToSet(Recall!Offered(ranked, call))} :
              Recall!Step([call EXCEPT !.at = "done",
                              !.items = @ \o Recall!Safe(Recall!Offered(ranked, call), failing),
                              !.warned = @ \cup Recall!Withheld(Recall!Offered(ranked, call), failing)
                                           \cup {"federated" : i \in Recall!ToSet(Recall!Offered(ranked, call))}])
    BY <1>2 DEF Recall!Federate
  <2>1. PICK ranked \in Recall!Rankings(read) :
           \E failing \in SUBSET {i.id : i \in Recall!ToSet(Recall!Offered(ranked, call))} :
              Recall!Step([call EXCEPT !.at = "done",
                              !.items = @ \o Recall!Safe(Recall!Offered(ranked, call), failing),
                              !.warned = @ \cup Recall!Withheld(Recall!Offered(ranked, call), failing)
                                           \cup {"federated" : i \in Recall!ToSet(Recall!Offered(ranked, call))}])
    BY <2>0
  <2> DEFINE offered == Recall!Offered(ranked, call)
  <2>2. /\ offered \in Seq(ItemSet) /\ Len(offered) <= call.req.max - Len(call.items)
        /\ \A n \in 1 .. Len(offered) :
              offered[n].status = "federated" /\ ForeignItem(offered[n], call.req)
    BY <1>1, <1>2, OfferedOK
  <2>3. PICK failing \in SUBSET {i.id : i \in Recall!ToSet(offered)} :
           Recall!Step([call EXCEPT !.at = "done", !.items = @ \o Recall!Safe(offered, failing),
                              !.warned = @ \cup Recall!Withheld(offered, failing)
                                           \cup {"federated" : i \in Recall!ToSet(offered)}])
    BY <2>1
  <2> HIDE DEF offered
  <2> DEFINE more == Recall!Withheld(offered, failing) \cup {"federated" : i \in Recall!ToSet(offered)}
             new == [call EXCEPT !.at = "done", !.items = @ \o Recall!Safe(offered, failing),
                                 !.warned = @ \cup more]
  <2>4. Recall!Step(new)
    <3>1. (call.warned \cup Recall!Withheld(offered, failing))
             \cup {"federated" : i \in Recall!ToSet(offered)} = call.warned \cup more
      OBVIOUS
    <3> HIDE DEF more
    <3> QED BY <2>3, <3>1
  <2> HIDE DEF more
  <2>5. CallOK(new, promotedOnce, clearOnce)
    BY <1>1, <2>2, FederatedOK
  <2> HIDE DEF new
  <2> QED BY <1>1, <2>4, <2>5, StepOK
<1>3. CASE ~(Recall!Admits(call.req) /\ decima' = "on" /\ Len(call.items) < call.req.max)
  <2> DEFINE new == [call EXCEPT !.at = "done"]
  <2>1. Recall!Step(new)
    BY <1>3 DEF Recall!Federate
  <2>2. CallOK(new, promotedOnce, clearOnce)
    BY <1>1, DoneOK
  <2> HIDE DEF new
  <2> QED BY <1>1, <2>1, <2>2, StepOK
<1> QED BY <1>2, <1>3

LEMMA RecallStep == RecallInv /\ [ReadersNext]_readersVars => RecallInv'
<1> SUFFICES ASSUME RecallInv, [ReadersNext]_readersVars PROVE RecallInv'
  OBVIOUS
<1>1. CASE UNCHANGED recallVars
  BY <1>1 DEF recallVars, RecallInv, CallInv
<1>2. CASE Recall!Next
  <2>1. CASE Recall!Ledger
    BY <2>1, LedgerOK
  <2>2. ASSUME NEW req \in Recalls, Recall!Search(req) PROVE RecallInv'
    BY <2>2, SearchOK
  <2>3. CASE Recall!ReadRows
    BY <2>3, ReadRowsOK
  <2>4. CASE Recall!ReadDisputes
    BY <2>4, ReadDisputesOK
  <2>5. CASE Recall!Assemble
    BY <2>5, AssembleOK
  <2>6. CASE Recall!SafetyPass
    BY <2>6, SafetyPassOK
  <2>7. CASE Recall!Federate
    BY <2>7, FederateOK
  <2>8. CASE Recall!Return
    BY <2>8 DEF Recall!Return, Recall!Step, Recall!ledger, RecallInv
  <2> QED BY <1>2, <2>1, <2>2, <2>3, <2>4, <2>5, <2>6, <2>7, <2>8 DEF Recall!Next, Recall!Recall
<1> QED BY <1>1, <1>2 DEF ReadersNext, BundlesAlone, ScanAlone, readersVars

LEMMA RecallKept == ReadersSpec => []RecallInv
BY RecallInitOK, RecallStep, PTL DEF ReadersSpec

\* recall.py, federation.py: whatever commits while recall reads, whatever it asks for and
\* Decima offers, the pack holds what the caller may have, and keeps its bound.
THEOREM PacksAreVetted == ReadersSpec => []PackIsVetted
<1>1. RecallInv => PackIsVetted
  <2> SUFFICES ASSUME RecallInv, call.at = "done" PROVE PackIsVetted
    BY DEF PackIsVetted, Recall!PackIsVetted, Recall!NativeIsVetted, Recall!ForeignIsBounded, Recall!Native
  <2>1. CallOK(call, promotedOnce, clearOnce)
    BY DEF RecallInv, CallInv, Recall!Idle
  <2>2. ASSUME NEW i \in Recall!ToSet(call.items)
        PROVE  IF i.status = "federated" THEN ForeignItem(i, call.req)
               ELSE NativeItem(i, call.req, promotedOnce, clearOnce)
    <3>1. PICK n \in 1 .. Len(call.items) : i = call.items[n]
      BY <2>1, MembersOf DEF CallOK, CallTyped
    <3> QED BY <2>1, <3>1 DEF CallOK, ItemsOK
  <2>3. Recall!NativeIsVetted
    BY <2>2 DEF Recall!NativeIsVetted, Recall!Native, Recall!ByDefault, NativeItem
  <2>4. Recall!ForeignIsBounded
    BY <2>1, <2>2 DEF Recall!ForeignIsBounded, ForeignItem, CallOK
  <2> QED BY <2>3, <2>4 DEF PackIsVetted, Recall!PackIsVetted
<1> QED BY <1>1, RecallKept, PTL

\* recall.py, federation.py: no lure is handed over and of a secret nothing stays unmasked,
\* whoever the text comes from and whichever scan fails.
THEOREM NothingUnsafeIsGiven == ReadersSpec => []NothingUnsafeIsHandedOver
<1>1. RecallInv => NothingUnsafeIsHandedOver
  <2> SUFFICES ASSUME RecallInv, call.at = "done", NEW i \in Recall!ToSet(call.items)
               PROVE  Unexposed(i)
    BY DEF NothingUnsafeIsHandedOver, Recall!NothingUnsafeIsHandedOver, Unexposed
  <2>1. CallOK(call, promotedOnce, clearOnce)
    BY DEF RecallInv, CallInv, Recall!Idle
  <2>2. PICK n \in 1 .. Len(call.items) : i = call.items[n]
    BY <2>1, MembersOf DEF CallOK, CallTyped
  <2> QED BY <2>1, <2>2 DEF CallOK
<1> QED BY <1>1, RecallKept, PTL

\* recall.py: a promoted claim that was found and is not handed over leaves a warning, unless
\* the pack is full.
THEOREM OmissionsAreTold == ReadersSpec => []OmissionsAreAnnounced
<1>1. RecallInv => OmissionsAreAnnounced
  <2> SUFFICES ASSUME RecallInv, call.at = "done", call.ids # <<>>, NEW c \in DOMAIN call.rows,
                      call.rows[c] = "promoted", c \notin {i.id : i \in Recall!Native}
               PROVE  \/ call.warned \cap Warnings # {}
                      \/ Len(call.items) >= call.req.max
    BY DEF OmissionsAreAnnounced, Recall!OmissionsAreAnnounced, Warnings
  <2>1. CallOK(call, promotedOnce, clearOnce)
    BY DEF RecallInv, CallInv, Recall!Idle
  <2>2. \A n \in 1 .. Len(call.items) :
           call.items[n].id = c => call.items[n].status = "federated"
    <3>1. \A n \in 1 .. Len(call.items) : call.items[n] \in Recall!ToSet(call.items)
      BY <2>1, MembersOf DEF CallOK, CallTyped
    <3> QED BY <3>1 DEF Recall!Native
  <2> QED BY <2>1, <2>2 DEF CallOK, OmissionsOK
<1> QED BY <1>1, RecallKept, PTL
-----------------------------------------------------------------------------
(***************************************************************************)
(* Frontmatter: a block is read as the map it was written from (Formats)   *)
(*                                                                         *)
(* What is written is a sequence of pieces, one for an entry, each at the  *)
(* end of those before it.  A string is read character by character from   *)
(* its end to its start, a block entry by entry from its last to its       *)
(* first, and a value after all that nests less deeply in it.              *)
(***************************************************************************)

(***************************************************************************)
(* Pieces put one after the other (FlattenSeq)                             *)
(***************************************************************************)
\* Where each piece of a sequence of pieces ends.
Ends(seqs, ends) ==
    /\ ends \in [0 .. Len(seqs) -> Nat] /\ ends[0] = 0
    /\ \A i \in 1 .. Len(seqs) : ends[i] = ends[i - 1] + Len(seqs[i])

LEMMA EndsGrow ==
    ASSUME NEW S, NEW seqs \in Seq(Seq(S)), NEW ends, Ends(seqs, ends)
    PROVE  \A i \in 0 .. Len(seqs) : ends[i] <= ends[Len(seqs)]
<1> DEFINE n == Len(seqs)
           G == {m \in 0 .. n : ends[n - m] <= ends[n]}
<1>0. n \in Nat
  OBVIOUS
<1>1. 0 \in G
  BY <1>0 DEF Ends
<1>2. ASSUME NEW m \in 1 .. n, m - 1 \in G PROVE m \in G
  <2>1. PICK i \in 1 .. n : i = n - m + 1
    <3>1. m \in Int /\ 1 <= m /\ m <= n
      BY <1>0
    <3>2. n - m + 1 \in 1 .. n
      BY <1>0, <3>1
    <3> QED BY <3>2
  <2>2. i - 1 = n - m /\ n - (m - 1) = i /\ i \in 0 .. n /\ i - 1 \in 0 .. n /\ n \in 0 .. n
    BY <1>0, <2>1
  <2>3. ends[i] = ends[i - 1] + Len(seqs[i])
    BY DEF Ends
  <2>4. seqs[i] \in Seq(S)
    OBVIOUS
  <2>5. Len(seqs[i]) \in Nat
    BY <2>4
  <2>6. ends[i - 1] \in Nat /\ ends[n] \in Nat /\ ends[i] \in Nat
    BY <2>2 DEF Ends
  <2>7. ends[i] <= ends[n]
    BY <1>2, <2>2
  <2>8. ends[i - 1] <= ends[n]
    BY <2>3, <2>5, <2>6, <2>7
  <2>9. ends[n - m] <= ends[n]
    BY <2>2, <2>8
  <2> QED BY <1>0, <2>9
<1> HIDE DEF G
<1>3. \A m \in 0 .. n : m \in G
  BY <1>0, <1>1, <1>2, Upward
<1>4. ASSUME NEW i \in 0 .. n PROVE ends[i] <= ends[n]
  <2>1. n - i \in 0 .. n /\ n - (n - i) = i
    BY <1>0
  <2>2. n - i \in G
    BY <1>3, <2>1
  <2> QED BY <2>1, <2>2 DEF G
<1> QED BY <1>4

\* Each piece is found where the ones before it end.
Pieced(S, seqs, ends, all) ==
    /\ Ends(seqs, ends) /\ all \in Seq(S) /\ Len(all) = ends[Len(seqs)]
    /\ \A i \in 1 .. Len(seqs) : \A j \in 1 .. Len(seqs[i]) :
          all[ends[i - 1] + j] = seqs[i][j]

LEMMA Flattened ==
    ASSUME NEW S, NEW seqs \in Seq(Seq(S))
    PROVE  \E ends : Pieced(S, seqs, ends, FlattenSeq(seqs))
<1> DEFINE n == Len(seqs)
           add == [p \in Seq(S) \X (1 .. n) |-> p[1] \o seqs[p[2]]]
           count == [p \in Nat \X (1 .. n) |-> p[1] + Len(seqs[p[2]])]
<1>a. n \in Nat
  OBVIOUS
<1>0. n \in Nat /\ \A i \in 1 .. n : seqs[i] \in Seq(S) /\ Len(seqs[i]) \in Nat
  <2>1. \A i \in 1 .. n : seqs[i] \in Seq(S)
    OBVIOUS
  <2> QED BY <2>1
<1>1. PICK f : Looped(Seq(S), <<>>, n, add, f)
  <2>1. ASSUME NEW p \in Seq(S) \X (1 .. n) PROVE p[1] \o seqs[p[2]] \in Seq(S)
    BY <1>0, ConcatProperties
  <2>2. add \in [Seq(S) \X (1 .. n) -> Seq(S)]
    BY <2>1
  <2>3. <<>> \in Seq(S)
    OBVIOUS
  <2> HIDE DEF add
  <2> QED BY <1>0, <2>2, <2>3, Loop
<1>2. /\ f \in [0 .. n -> Seq(S)] /\ f[0] = <<>>
      /\ \A i \in 1 .. n : f[i - 1] \in Seq(S) /\ f[i] = f[i - 1] \o seqs[i]
  <2>1. f \in [0 .. n -> Seq(S)] /\ f[0] = <<>>
    BY <1>1 DEF Looped
  <2>2. ASSUME NEW i \in 1 .. n PROVE f[i - 1] \in Seq(S) /\ f[i] = f[i - 1] \o seqs[i]
    <3>1. i - 1 \in 0 .. n
      BY <1>0
    <3>2. f[i - 1] \in Seq(S)
      BY <2>1, <3>1
    <3>3. f[i] = add[<<f[i - 1], i>>]
      BY <1>1 DEF Looped
    <3> QED BY <3>2, <3>3
  <2> QED BY <2>1, <2>2
<1>3. PICK ends : Looped(Nat, 0, n, count, ends)
  <2>1. ASSUME NEW p \in Nat \X (1 .. n) PROVE p[1] + Len(seqs[p[2]]) \in Nat
    <3>1. p[1] \in Nat /\ p[2] \in 1 .. n
      OBVIOUS
    <3>2. Len(seqs[p[2]]) \in Nat
      BY <1>0, <3>1
    <3> QED BY <3>1, <3>2
  <2>2. count \in [Nat \X (1 .. n) -> Nat]
    BY <2>1
  <2> HIDE DEF count
  <2> QED BY <1>0, <2>2, Loop
<1>4. Ends(seqs, ends)
  <2>1. ends \in [0 .. n -> Nat] /\ ends[0] = 0
    BY <1>3 DEF Looped
  <2>2. ASSUME NEW i \in 1 .. n PROVE ends[i] = ends[i - 1] + Len(seqs[i])
    <3>1. i - 1 \in 0 .. n
      BY <1>0
    <3>2. ends[i - 1] \in Nat
      BY <2>1, <3>1
    <3>3. ends[i] = count[<<ends[i - 1], i>>]
      BY <1>3 DEF Looped
    <3> QED BY <3>2, <3>3
  <2> QED BY <2>1, <2>2 DEF Ends
\* What is put together so far stays as it is.
<1> DEFINE Done(k) == /\ Len(f[k]) = ends[k]
                      /\ \A i \in 1 .. k : \A j \in 1 .. Len(seqs[i]) :
                            f[k][ends[i - 1] + j] = seqs[i][j]
           G == {k \in 0 .. n : Done(k)}
<1>5. 0 \in G
  BY <1>0, <1>2, <1>4 DEF Ends
<1>6. ASSUME NEW k \in 1 .. n, k - 1 \in G PROVE k \in G
  <2>1. k - 1 \in 0 .. n /\ k \in 0 .. n
    BY <1>0
  <2>2. Done(k - 1)
    BY <1>6
  <2>3. f[k - 1] \in Seq(S) /\ f[k] = f[k - 1] \o seqs[k] /\ seqs[k] \in Seq(S)
    BY <1>0, <1>2
  <2>4. ends[k] = ends[k - 1] + Len(seqs[k]) /\ ends[k - 1] \in Nat /\ Len(seqs[k]) \in Nat
    BY <1>0, <1>4, <2>1 DEF Ends
  <2>5. /\ Len(f[k]) = Len(f[k - 1]) + Len(seqs[k])
        /\ \A m \in 1 .. Len(f[k - 1]) + Len(seqs[k]) :
              f[k][m] = IF m <= Len(f[k - 1]) THEN f[k - 1][m] ELSE seqs[k][m - Len(f[k - 1])]
    <3> DEFINE x == f[k - 1]
               y == seqs[k]
    <3>1. x \in Seq(S) /\ y \in Seq(S) /\ f[k] = x \o y
      BY <2>3
    <3> HIDE DEF x, y
    <3>2. /\ Len(x \o y) = Len(x) + Len(y)
          /\ \A m \in 1 .. Len(x) + Len(y) : (x \o y)[m] = IF m <= Len(x) THEN x[m] ELSE y[m - Len(x)]
      BY <3>1, ConcatProperties
    <3>3. /\ Len(f[k]) = Len(x) + Len(y)
          /\ \A m \in 1 .. Len(x) + Len(y) : f[k][m] = IF m <= Len(x) THEN x[m] ELSE y[m - Len(x)]
      BY <3>1, <3>2
    <3> QED BY <3>3 DEF x, y
  <2>6. Len(f[k]) = ends[k]
    BY <2>2, <2>4, <2>5
  <2>7. ASSUME NEW i \in 1 .. k, NEW j \in 1 .. Len(seqs[i])
        PROVE  f[k][ends[i - 1] + j] = seqs[i][j]
    <3>1. CASE i = k
      <4>1. ends[k - 1] + j \in 1 .. Len(f[k - 1]) + Len(seqs[k])
            /\ ~(ends[k - 1] + j <= Len(f[k - 1])) /\ ends[k - 1] + j - Len(f[k - 1]) = j
        BY <2>2, <2>4, <3>1
      <4>a. PICK m \in 1 .. Len(f[k - 1]) + Len(seqs[k]) : m = ends[k - 1] + j
        BY <4>1
      <4>b. f[k][m] = IF m <= Len(f[k - 1]) THEN f[k - 1][m] ELSE seqs[k][m - Len(f[k - 1])]
        BY <2>5
      <4>c. ~(m <= Len(f[k - 1])) /\ m - Len(f[k - 1]) = j
        BY <2>2, <2>4, <3>1, <4>a
      <4>2. f[k][m] = seqs[k][m - Len(f[k - 1])]
        BY ONLY <4>b, <4>c
      <4> QED BY <3>1, <4>a, <4>c, <4>2
    <3>2. CASE i # k
      <4>1. i \in 1 .. k - 1
        BY <3>2
      <4>2. f[k - 1][ends[i - 1] + j] = seqs[i][j]
        BY <2>2, <4>1
      <4>3. /\ i \in 1 .. n /\ i - 1 \in 0 .. n /\ i \in 0 .. n
        BY <1>0, <4>1
      <4>4. ends[i] = ends[i - 1] + Len(seqs[i]) /\ ends[i - 1] \in Nat /\ Len(seqs[i]) \in Nat
        BY <1>0, <1>4, <4>3 DEF Ends
      <4>5. ends[i] <= ends[k - 1]
        <5> DEFINE upto == SubSeq(seqs, 1, k - 1)
        <5>1. upto \in Seq(Seq(S)) /\ Len(upto) = k - 1 /\ \A m \in 1 .. k - 1 : upto[m] = seqs[m]
          <6>1. \A m \in 1 .. k - 1 : seqs[m] \in Seq(S)
            BY <1>0
          <6>2. k - 1 \in Int /\ 1 \in Int
            OBVIOUS
          <6>3. /\ SubSeq(seqs, 1, k - 1) \in Seq(Seq(S))
                /\ Len(SubSeq(seqs, 1, k - 1)) = IF 1 <= k - 1 THEN k - 1 - 1 + 1 ELSE 0
                /\ \A m \in 1 .. k - 1 - 1 + 1 : SubSeq(seqs, 1, k - 1)[m] = seqs[1 + m - 1]
            BY <6>1, <6>2, SubSeqProperties
          <6> QED BY <6>3
        <5> DEFINE some == [m \in 0 .. k - 1 |-> ends[m]]
        <5>2. Ends(upto, some)
          <6> HIDE DEF upto
          <6>0. ends \in [0 .. n -> Nat]
            BY <1>4 DEF Ends
          <6>1. \A m \in 0 .. k - 1 : m \in 0 .. n /\ ends[m] \in Nat
            <7>1. k \in Int /\ n \in Int /\ k <= n
              BY <1>a
            <7>2. \A m \in 0 .. k - 1 : m \in 0 .. n
              BY <7>1
            <7> QED BY <6>0, <7>2
          <6>2. some \in [0 .. k - 1 -> Nat] /\ some[0] = 0
            BY <1>4, <6>1 DEF Ends
          <6>3. ASSUME NEW m \in 1 .. k - 1 PROVE some[m] = some[m - 1] + Len(upto[m])
            <7>1. m \in 1 .. n /\ m \in 0 .. k - 1 /\ m - 1 \in 0 .. k - 1
              BY <1>0
            <7>2. ends[m] = ends[m - 1] + Len(seqs[m])
              BY <1>4, <7>1 DEF Ends
            <7> QED BY <5>1, <7>1, <7>2
          <6> QED BY <5>1, <6>2, <6>3 DEF Ends
        <5> HIDE DEF upto, some
        <5>3. \A m \in 0 .. Len(upto) : some[m] <= some[Len(upto)]
          BY <5>1, <5>2, EndsGrow
        <5>4. some[i] <= some[k - 1]
          BY <4>1, <5>1, <5>3
        <5> QED BY <4>1, <5>4 DEF some
      <4>6. ends[k - 1] \in Nat /\ ends[i] \in Nat
        BY <1>4, <2>1, <4>3 DEF Ends
      <4>7. ends[i - 1] + j \in 1 .. Len(f[k - 1]) + Len(seqs[k])
            /\ ends[i - 1] + j <= Len(f[k - 1])
        <5>1. j \in Nat /\ 1 <= j /\ j <= Len(seqs[i]) /\ Len(f[k - 1]) = ends[k - 1]
          BY <2>2, <4>4
        <5>2. ends[i - 1] + j <= ends[k - 1]
          BY <4>4, <4>5, <4>6, <5>1
        <5>3. ends[i - 1] + j \in Int /\ 1 <= ends[i - 1] + j
          BY <4>4, <5>1
        <5>4. Len(f[k - 1]) + Len(seqs[k]) \in Int
              /\ ends[i - 1] + j <= Len(f[k - 1]) + Len(seqs[k])
          BY <2>4, <4>6, <5>1, <5>2, <5>3
        <5> QED BY <5>1, <5>2, <5>3, <5>4
      <4> QED BY <2>5, <4>2, <4>7
    <3> QED BY <3>1, <3>2
  <2> QED BY <2>1, <2>6, <2>7
<1> HIDE DEF G
<1>7. n \in G
  <2> HIDE DEF n
  <2>1. \A k \in 1 .. n : k - 1 \in G => k \in G
    BY <1>6
  <2>2. \A k \in 0 .. n : k \in G
    BY <1>a, <1>5, <2>1, Upward
  <2> QED BY <1>a, <2>2
<1>8. Done(n)
  BY <1>7 DEF G
<1>9. FlattenSeq(seqs) = f[n]
  <2>1. CASE n = 0
    <3>1. seqs = <<>>
      BY <2>1
    <3> QED BY <1>2, <2>1, <3>1 DEF FlattenSeq
  <2>2. CASE n # 0
    <3> DEFINE flatten[i \in 1 .. n] == IF i = 1 THEN seqs[i] ELSE flatten[i - 1] \o seqs[i]
    <3>1. flatten = [i \in 1 .. n |-> IF i = 1 THEN seqs[i] ELSE flatten[i - 1] \o seqs[i]]
      <4>1. SUFFICES \E ff : ff = [i \in 1 .. n |-> IF i = 1 THEN seqs[i]
                                                    ELSE ff[i - 1] \o seqs[i]]
        OBVIOUS
      <4> DEFINE ff == [i \in 1 .. n |-> f[i]]
      <4>2. ASSUME NEW i \in 1 .. n
            PROVE  f[i] = IF i = 1 THEN seqs[i] ELSE ff[i - 1] \o seqs[i]
        <5>1. CASE i = 1
          <6>1. f[1] = <<>> \o seqs[1] /\ seqs[1] \in Seq(S)
            BY <1>0, <1>2, <5>1
          <6> QED BY <5>1, <6>1, ConcatEmptySeq
        <5>2. CASE i # 1
          <6>1. i - 1 \in 1 .. n
            BY <1>0, <5>2
          <6> QED BY <1>2, <5>2, <6>1
        <5> QED BY <5>1, <5>2
      <4>3. ff = [i \in 1 .. n |-> IF i = 1 THEN seqs[i] ELSE ff[i - 1] \o seqs[i]]
        BY <4>2
      <4> HIDE DEF ff
      <4> QED BY <4>3
    <3>2. FlattenSeq(seqs) = flatten[n]
      BY <1>0, <2>2 DEF FlattenSeq
    <3> HIDE DEF flatten
    <3> DEFINE H == {i \in 0 .. n : i # 0 => flatten[i] = f[i]}
    <3>3. 0 \in H
      BY <1>0
    <3>4. ASSUME NEW i \in 1 .. n, i - 1 \in H PROVE i \in H
      <4>1. flatten[i] = IF i = 1 THEN seqs[i] ELSE flatten[i - 1] \o seqs[i]
        BY <3>1
      <4>2. CASE i = 1
        <5>1. f[1] = <<>> \o seqs[1] /\ seqs[1] \in Seq(S)
          BY <1>0, <1>2, <4>2
        <5>2. f[1] = seqs[1]
          BY <5>1, ConcatEmptySeq
        <5> QED BY <1>0, <4>1, <4>2, <5>2
      <4>3. CASE i # 1
        <5>1. flatten[i - 1] = f[i - 1]
          BY <3>4, <4>3
        <5>2. f[i] = f[i - 1] \o seqs[i]
          BY <1>2
        <5>3. flatten[i] = f[i]
          BY <4>1, <4>3, <5>1, <5>2
        <5> QED BY <1>a, <5>3
      <4> QED BY <4>2, <4>3
    <3> HIDE DEF H
    <3>5. n \in H
      <4> HIDE DEF n
      <4>1. \A i \in 1 .. n : i - 1 \in H => i \in H
        BY <3>4
      <4>2. \A i \in 0 .. n : i \in H
        BY <1>a, <3>3, <4>1, Upward
      <4> QED BY <1>a, <4>2
    <3> QED BY <2>2, <3>2, <3>5 DEF H
  <2> QED BY <2>1, <2>2
<1>10. f[n] \in Seq(S)
  BY <1>0, <1>2
<1>11. Pieced(S, seqs, ends, FlattenSeq(seqs))
  BY <1>4, <1>8, <1>9, <1>10 DEF Pieced
<1> QED BY <1>11

-----------------------------------------------------------------------------
(***************************************************************************)
(* Strings: what is quoted is read (_quote, _parse_dquoted)                *)
(***************************************************************************)
Letters == STRING \cup {"backslash", "quote", "n", "t", "r", "x", "0", "1"}

LEMMA EscapeOK ==
    ASSUME NEW c \in STRING
    PROVE  Escape(c) \in Seq(Letters) /\ Len(Escape(c)) \in {1, 2, 4}
<1> DEFINE S == Letters
<1>1. /\ "backslash" \in S /\ "quote" \in S /\ "n" \in S /\ "t" \in S /\ "r" \in S /\ "x" \in S
      /\ "0" \in S /\ "1" \in S /\ c \in S
  BY DEF Letters
<1> HIDE DEF S
<1>2. DOMAIN Escaped = {"newline", "tab", "return", "control"}
  BY DEF Escaped
<1>3. Escape(c) \in Seq(S) /\ Len(Escape(c)) \in {1, 2, 4}
  <2>1. CASE c \in {"backslash", "quote"}
    BY <1>1, <2>1 DEF Escape
  <2>2. CASE c \notin {"backslash", "quote"} /\ c \in DOMAIN Escaped
    <3>1. Escape(c) = Escaped[c]
      BY <2>2 DEF Escape
    <3>2. Escaped[c] \in {<<"backslash", "n">>, <<"backslash", "t">>, <<"backslash", "r">>,
                         <<"backslash", "x", "0", "1">>}
      BY <1>2, <2>2 DEF Escaped
    <3>3. ASSUME NEW a \in S, NEW b \in S
          PROVE  <<a, b>> \in Seq(S) /\ Len(<<a, b>>) = 2
      OBVIOUS
    <3>4. /\ <<"backslash", "x", "0", "1">> \in Seq(S)
          /\ Len(<<"backslash", "x", "0", "1">>) = 4
      BY <1>1
    <3>5. CASE Escaped[c] = <<"backslash", "x", "0", "1">>
      BY <3>1, <3>4, <3>5
    <3>6. CASE \E b \in S : Escaped[c] = <<"backslash", b>>
      BY <1>1, <3>1, <3>3, <3>6
    <3> QED BY <1>1, <3>2, <3>5, <3>6
  <2>3. CASE c \notin {"backslash", "quote"} /\ c \notin DOMAIN Escaped
    BY <1>1, <2>3 DEF Escape
  <2> QED BY <2>1, <2>2, <2>3
<1> QED BY <1>3 DEF S

\* A character is read off as many places as it was written on.
LEMMA OneCharacter ==
    ASSUME NEW c \in STRING, NEW s, NEW i \in Nat,
           \A j \in 1 .. Len(Escape(c)) : s[i + (j - 1)] = Escape(c)[j]
    PROVE  /\ Width(s, i) = Len(Escape(c)) /\ Character(s, i) = c
           /\ s[i] = "backslash" => s[i + 1] \in {"quote", "backslash", "/"} \cup DOMAIN Unescaped
<1>1. Len(Escape(c)) \in {1, 2, 4}
  BY EscapeOK
<1>2. s[i] = Escape(c)[1]
  <2>0. PICK k \in {1, 2, 4} : k = Len(Escape(c))
    BY <1>1
  <2>1. 1 \in 1 .. Len(Escape(c))
    <3>1. 1 \in 1 .. k
      OBVIOUS
    <3> QED BY <2>0, <3>1
  <2>2. i + (1 - 1) = i
    OBVIOUS
  <2> QED BY <2>1, <2>2
<1>3. Len(Escape(c)) # 1 => s[i + 1] = Escape(c)[2]
  <2>1. SUFFICES ASSUME Len(Escape(c)) # 1 PROVE s[i + 1] = Escape(c)[2]
    OBVIOUS
  <2>0. PICK k \in {2, 4} : k = Len(Escape(c))
    BY <1>1, <2>1
  <2>2. 2 \in 1 .. Len(Escape(c))
    <3>1. 2 \in 1 .. k
      OBVIOUS
    <3> QED BY <2>0, <3>1
  <2>3. i + (2 - 1) = i + 1
    OBVIOUS
  <2> QED BY <2>2, <2>3
<1>4. PICK a, b : a = s[i] /\ b = s[i + 1]
  OBVIOUS
<1>5. /\ a = Escape(c)[1] 
      /\ Len(Escape(c)) # 1 => b = Escape(c)[2]
  BY <1>2, <1>3, <1>4
<1>6. /\ DOMAIN Escaped = {"newline", "tab", "return", "control"}
      /\ DOMAIN Unescaped = {"n", "t", "r", "x"}
  BY DEF Escaped, Unescaped
<1>7. /\ (IF a # "backslash" THEN 1 ELSE IF b = "x" THEN 4 ELSE 2) = Len(Escape(c))
      /\ (IF a # "backslash" THEN a ELSE IF b \in DOMAIN Unescaped THEN Unescaped[b] ELSE b) = c
      /\ a = "backslash" => b \in {"quote", "backslash", "/"} \cup DOMAIN Unescaped
  <2>1. CASE c \in {"backslash", "quote"}
    <3>1. Escape(c) = <<"backslash", c>>
      BY <2>1 DEF Escape
    <3> QED BY <1>5, <1>6, <2>1, <3>1
  <2>2. CASE c \in DOMAIN Escaped
    <3>1. Escape(c) = Escaped[c]
      BY <1>6, <2>2 DEF Escape
    <3>2. CASE c = "newline"
      BY <1>5, <1>6, <3>1, <3>2 DEF Escaped, Unescaped
    <3>3. CASE c = "tab"
      BY <1>5, <1>6, <3>1, <3>3 DEF Escaped, Unescaped
    <3>4. CASE c = "return"
      BY <1>5, <1>6, <3>1, <3>4 DEF Escaped, Unescaped
    <3>5. CASE c = "control"
      BY <1>5, <1>6, <3>1, <3>5 DEF Escaped, Unescaped
    <3> QED BY <1>6, <2>2, <3>2, <3>3, <3>4, <3>5
  <2>3. CASE c \notin {"backslash", "quote"} /\ c \notin DOMAIN Escaped
    <3>1. Escape(c) = <<c>>
      BY <2>3 DEF Escape
    <3> QED BY <1>5, <2>3, <3>1
  <2> QED BY <2>1, <2>2, <2>3
<1> QED BY <1>4, <1>7 DEF Width, Character

\* What is read from a place on, by what is read from the places after it.
ReadFrom(s, i, read) ==
    IF i = Len(s) THEN << <<>> >>
    ELSE IF /\ i + Width(s, i) <= Len(s)
            /\ s[i] = "backslash" => s[i + 1] \in {"quote", "backslash", "/"} \cup DOMAIN Unescaped
            /\ read[i + Width(s, i)] # <<>>
    THEN << <<Character(s, i)>> \o read[i + Width(s, i)][1] >>
    ELSE <<>>

LEMMA UnescapeIs ==
    ASSUME NEW s, Len(s) \in Nat, Len(s) >= 2, s[Len(s)] = "quote"
    PROVE  \E read : /\ \A i \in 2 .. Len(s) : read[i] = ReadFrom(s, i, read)
                     /\ Unescape(s) = read[2]
<1>0. PICK n \in Nat : n = Len(s)
  OBVIOUS
<1> DEFINE D == 2 .. n
           Right(f, m) == /\ f = [i \in D |-> f[i]]
                          /\ \A i \in D : n - i < m => f[i] = ReadFrom(s, i, f)
           G == {m \in 0 .. n : \E f : Right(f, m)}
<1>1. 0 \in G
  <2> DEFINE f == [i \in D |-> <<>>]
  <2>1. f = [i \in D |-> f[i]]
    OBVIOUS
  <2>2. \A i \in D : ~(n - i < 0)
    OBVIOUS
  <2> HIDE DEF f
  <2>3. Right(f, 0)
    BY <2>1, <2>2
  <2> HIDE DEF Right
  <2> QED BY <2>3
\* ReadFrom looks at later places only.
<1>2. ASSUME NEW f, NEW g, NEW i \in D, \A j \in D : j > i => f[j] = g[j]
      PROVE  ReadFrom(s, i, f) = ReadFrom(s, i, g)
  <2>1. Width(s, i) \in {1, 2, 4}
    BY DEF Width
  <2>2. PICK k : k = i + Width(s, i)
    OBVIOUS
  <2>3. k <= n => k \in D /\ k > i
    BY <2>1, <2>2
  <2>4. k <= n => f[k] = g[k]
    BY <1>2, <2>3
  <2>5. ASSUME ~(k <= n) PROVE ReadFrom(s, i, f) = ReadFrom(s, i, g)
    BY <1>0, <2>2, <2>5 DEF ReadFrom
  <2>6. ASSUME f[k] = g[k] PROVE ReadFrom(s, i, f) = ReadFrom(s, i, g)
    BY <2>2, <2>6 DEF ReadFrom
  <2> QED BY <2>4, <2>5, <2>6
<1>3. ASSUME NEW m \in 1 .. n, m - 1 \in G PROVE m \in G
  <2>1. PICK f : Right(f, m - 1)
    BY <1>3
  <2> DEFINE g == [i \in D |-> ReadFrom(s, i, f)]
  <2>2. g = [i \in D |-> g[i]] /\ \A i \in D : g[i] = ReadFrom(s, i, f)
    OBVIOUS
  <2> HIDE DEF g
  <2>3. ASSUME NEW i \in D, n - i < m PROVE g[i] = ReadFrom(s, i, g)
    <3>1. ASSUME NEW j \in D, j > i PROVE f[j] = g[j]
      <4>1. n - j < m - 1
        BY <2>3, <3>1
      <4> QED BY <2>1, <2>2, <4>1
    <3>2. ReadFrom(s, i, f) = ReadFrom(s, i, g)
      BY <1>2, <3>1
    <3> QED BY <2>2, <3>2
  <2>4. Right(g, m)
    BY <2>2, <2>3
  <2> HIDE DEF Right
  <2> QED BY <2>4
<1>4. n \in G
  <2> HIDE DEF G
  <2>1. \A m \in 1 .. n : m - 1 \in G => m \in G
    BY <1>3
  <2>2. \A m \in 0 .. n : m \in G
    BY <1>1, <2>1, Upward
  <2> QED BY <2>2
<1>5. PICK f : Right(f, n)
  BY <1>4
<1>6. f = [i \in D |-> ReadFrom(s, i, f)]
  <2>1. \A i \in D : n - i < n
    OBVIOUS
  <2>2. \A i \in D : f[i] = ReadFrom(s, i, f)
    BY <1>5, <2>1
  <2>3. f = [i \in D |-> f[i]]
    BY <1>5
  <2> QED BY <2>2, <2>3
<1> DEFINE read[i \in D] ==
               IF i = Len(s) THEN << <<>> >>
               ELSE IF /\ i + Width(s, i) <= Len(s)
                       /\ s[i] = "backslash" => s[i + 1] \in {"quote", "backslash", "/"} \cup DOMAIN Unescaped
                       /\ read[i + Width(s, i)] # <<>>
               THEN << <<Character(s, i)>> \o read[i + Width(s, i)][1] >>
               ELSE <<>>
<1>7. read = [i \in D |-> ReadFrom(s, i, read)]
  <2>1. \E ff : ff = [i \in D |-> ReadFrom(s, i, ff)]
    BY <1>6
  <2> QED BY <2>1 DEF ReadFrom
<1>8. Unescape(s) = read[2]
  BY <1>0 DEF Unescape
<1> HIDE DEF read
<1>9. \A i \in 2 .. Len(s) : read[i] = ReadFrom(s, i, read)
  BY <1>0, <1>7
<1> QED BY <1>8, <1>9

\* Every string is read back as it was, whatever is in it (_quote, _parse_dquoted).
THEOREM StringsSurvive ==
    ASSUME NEW chars \in Seq(STRING)
    PROVE  Unescape(Quote(chars)) = <<chars>>
<1>0. PICK n \in Nat : n = Len(chars)
  OBVIOUS
<1> DEFINE pieces == [i \in DOMAIN chars |-> Escape(chars[i])]
           glued == FlattenSeq(pieces)
           s == Quote(chars)
<1>1. DOMAIN chars = 1 .. n /\ \A i \in 1 .. n : chars[i] \in STRING
  BY <1>0
<1>2. /\ pieces \in Seq(Seq(Letters)) /\ Len(pieces) = n
      /\ \A i \in 1 .. n : pieces[i] = Escape(chars[i])
  <2>1. \A i \in 1 .. n : Escape(chars[i]) \in Seq(Letters)
    BY <1>1, EscapeOK
  <2>2. pieces = [i \in 1 .. n |-> Escape(chars[i])]
    BY <1>1
  <2> QED BY <2>1, <2>2
<1>3. PICK ends : /\ Ends(pieces, ends)
                  /\ glued \in Seq(Letters) /\ Len(glued) = ends[n]
                  /\ \A i \in 1 .. n : \A j \in 1 .. Len(pieces[i]) :
                        glued[ends[i - 1] + j] = pieces[i][j]
  <2> HIDE DEF pieces
  <2>1. PICK ends : Pieced(Letters, pieces, ends, glued)
    BY <1>2, Flattened
  <2>2. /\ Ends(pieces, ends)
        /\ glued \in Seq(Letters) /\ Len(glued) = ends[n]
        /\ \A i \in 1 .. n : \A j \in 1 .. Len(pieces[i]) :
              glued[ends[i - 1] + j] = pieces[i][j]
    BY <1>2, <2>1 DEF Pieced
  <2> QED BY <2>2
<1>4. /\ ends \in [0 .. n -> Nat] /\ ends[0] = 0
      /\ \A i \in 1 .. n : ends[i] = ends[i - 1] + Len(Escape(chars[i]))
      /\ \A i \in 0 .. n : ends[i] <= ends[n]
  <2> HIDE DEF pieces
  <2>1. \A i \in 0 .. n : ends[i] <= ends[n]
    BY <1>2, <1>3, EndsGrow
  <2>2. /\ ends \in [0 .. n -> Nat] /\ ends[0] = 0
        /\ \A i \in 1 .. n : ends[i] = ends[i - 1] + Len(pieces[i])
    BY <1>2, <1>3 DEF Ends
  <2> QED BY <1>2, <2>1, <2>2
<1>5. \A i \in 1 .. n : \A j \in 1 .. Len(Escape(chars[i])) :
         glued[ends[i - 1] + j] = Escape(chars[i])[j]
  BY <1>2, <1>3
<1>6. PICK m \in Nat : m = ends[n]
  BY <1>4
\* The glued stands between two quotes.
<1>7. /\ Len(s) = m + 2 /\ s[m + 2] = "quote"
      /\ \A k \in 1 .. m : s[k + 1] = glued[k]
  <2>1. glued \in Seq(Letters) /\ Len(glued) = m /\ s = <<"quote">> \o glued \o <<"quote">>
    BY <1>3, <1>6 DEF Quote
  <2>2. <<"quote">> \in Seq(Letters) /\ Len(<<"quote">>) = 1 /\ <<"quote">>[1] = "quote"
    BY DEF Letters
  <2> HIDE DEF glued, s
  <2>3. /\ <<"quote">> \o glued \in Seq(Letters) /\ Len(<<"quote">> \o glued) = 1 + m
        /\ \A k \in 1 .. 1 + m : (<<"quote">> \o glued)[k] =
               IF k <= 1 THEN <<"quote">>[k] ELSE glued[k - 1]
    BY <2>1, <2>2, ConcatProperties
  <2>4. /\ Len(s) = m + 2
        /\ \A k \in 1 .. 1 + m + 1 : s[k] =
               IF k <= 1 + m THEN (<<"quote">> \o glued)[k] ELSE <<"quote">>[k - (1 + m)]
    <3>1. PICK q : q = <<"quote">> \o glued
      OBVIOUS
    <3>2. q \in Seq(Letters) /\ Len(q) = 1 + m /\ s = q \o <<"quote">>
      BY <2>1, <2>3, <3>1
    <3>3. /\ Len(q \o <<"quote">>) = 1 + m + 1
          /\ \A k \in 1 .. 1 + m + 1 : (q \o <<"quote">>)[k] =
                 IF k <= 1 + m THEN q[k] ELSE <<"quote">>[k - (1 + m)]
      BY <2>2, <3>2, ConcatProperties
    <3> QED BY <3>1, <3>2, <3>3
  <2>5. s[m + 2] = "quote"
    <3>1. m + 2 \in 1 .. 1 + m + 1 /\ ~(m + 2 <= 1 + m) /\ m + 2 - (1 + m) = 1
      OBVIOUS
    <3> QED BY <2>2, <2>4, <3>1
  <2>6. ASSUME NEW k \in 1 .. m PROVE s[k + 1] = glued[k]
    <3>1. /\ k + 1 \in 1 .. 1 + m + 1 /\ k + 1 <= 1 + m /\ k + 1 \in 1 .. 1 + m
          /\ ~(k + 1 <= 1) /\ (k + 1) - 1 = k
      OBVIOUS
    <3> QED BY <2>3, <2>4, <3>1
  <2> QED BY <2>4, <2>5, <2>6
<1>8. PICK read : /\ \A i \in 2 .. m + 2 : read[i] = ReadFrom(s, i, read)
                  /\ Unescape(s) = read[2]
  <2>1. Len(s) \in Nat /\ Len(s) >= 2 /\ s[Len(s)] = "quote"
    BY <1>7
  <2> HIDE DEF s
  <2>2. \E read : /\ \A i \in 2 .. Len(s) : read[i] = ReadFrom(s, i, read)
                  /\ Unescape(s) = read[2]
    BY <2>1, UnescapeIs
  <2> QED BY <1>7, <2>2
<1> HIDE DEF pieces, glued, s
\* From the end on, character by character.
<1> DEFINE G == {k \in 0 .. n : read[ends[n - k] + 2] = <<SubSeq(chars, n - k + 1, n)>>}
<1>9. 0 \in G
  <2>1. read[m + 2] = << <<>> >>
    <3>1. m + 2 \in 2 .. m + 2
      OBVIOUS
    <3> QED BY <1>7, <1>8, <3>1 DEF ReadFrom
  <2>2. SubSeq(chars, n + 1, n) = <<>>
    BY SubSeqEmpty
  <2>3. n - 0 = n
    OBVIOUS
  <2>4. read[ends[n - 0] + 2] = <<SubSeq(chars, n - 0 + 1, n)>>
    BY <1>6, <2>1, <2>2, <2>3
  <2> QED BY <2>4
<1>10. ASSUME NEW k \in 1 .. n, k - 1 \in G PROVE k \in G
  <2>1. PICK i \in 1 .. n : i = n - k + 1
    OBVIOUS
  <2>2. n - (k - 1) = i /\ n - k = i - 1 /\ n - (k - 1) + 1 = i + 1 /\ i - 1 \in 0 .. n /\ i \in 0 .. n
    BY <2>1
  <2>3. read[ends[i] + 2] = <<SubSeq(chars, i + 1, n)>>
    BY <1>10, <2>2
  <2>4. PICK c \in STRING : c = chars[i]
    BY <1>1
  <2>5. PICK at \in Nat : at = ends[i - 1] + 2
    BY <1>4, <2>2
  <2>6. PICK len \in {1, 2, 4} : len = Len(Escape(c))
    BY EscapeOK
  <2>7. ends[i] = ends[i - 1] + len /\ ends[i - 1] \in Nat /\ ends[i] \in Nat /\ ends[i] <= m
    BY <1>4, <1>6, <2>2, <2>4, <2>6
  <2>8. ASSUME NEW j \in 1 .. Len(Escape(c)) PROVE s[at + (j - 1)] = Escape(c)[j]
    <3>0. j \in 1 .. len
      BY <2>6
    <3>1. PICK x \in Nat : x = ends[i - 1] + j
      BY <2>7, <3>0
    <3>2. x \in 1 .. m /\ at + (j - 1) = x + 1
      <4>1. PICK a \in Nat, b \in Nat : a = ends[i - 1] /\ b = ends[i]
        BY <2>7
      <4>2. b = a + len /\ b <= m /\ x = a + j /\ at = a + 2
        BY <2>5, <2>7, <3>1, <4>1
      <4> QED BY <3>0, <4>2
    <3>3. glued[x] = Escape(c)[j]
      BY <1>5, <2>4, <3>1
    <3> QED BY <1>7, <3>2, <3>3
  <2>9. /\ Width(s, at) = len /\ Character(s, at) = c
        /\ s[at] = "backslash" => s[at + 1] \in {"quote", "backslash", "/"} \cup DOMAIN Unescaped
    BY <2>6, <2>8, OneCharacter
  <2>10. /\ at \in 2 .. m + 2 /\ at # m + 2 /\ at + len <= m + 2 /\ at + len = ends[i] + 2
    BY <2>5, <2>7
  <2>11. read[at] = ReadFrom(s, at, read)
    BY <1>8, <2>10
  <2>12. read[at] = << <<c>> \o read[at + len][1] >>
    <3>1. read[at + len] = <<SubSeq(chars, i + 1, n)>>
      BY <2>3, <2>10
    <3>2. read[at + len] # <<>>
      BY <3>1
    <3> QED BY <1>7, <2>9, <2>10, <2>11, <3>2 DEF ReadFrom
  <2>13. <<c>> \o SubSeq(chars, i + 1, n) = SubSeq(chars, i, n)
    BY <1>0, <2>4, SubSeqRecursiveFirst
  <2>14. read[at] = <<SubSeq(chars, i, n)>>
    <3>1. read[at + len][1] = SubSeq(chars, i + 1, n)
      BY <2>3, <2>10
    <3> QED BY <2>12, <2>13, <3>1
  <2> QED BY <2>1, <2>2, <2>5, <2>14
<1> HIDE DEF G
<1>11. n \in G
  <2>1. \A k \in 1 .. n : k - 1 \in G => k \in G
    BY <1>10
  <2>2. \A k \in 0 .. n : k \in G
    BY <1>9, <2>1, Upward
  <2> QED BY <2>2
<1>12. read[2] = <<chars>>
  <2>1. n - n = 0 /\ 0 + 1 = 1 /\ 0 + 2 = 2
    OBVIOUS
  <2>2. read[2] = <<SubSeq(chars, 1, n)>>
    BY <1>4, <1>11, <2>1 DEF G
  <2>3. SubSeq(chars, 1, n) = chars
    BY <1>0, SubSeqFull
  <2> QED BY <2>2, <2>3
<1> QED BY <1>8, <1>12 DEF s

-----------------------------------------------------------------------------
(***************************************************************************)
(* The lines of a value (_emit_map, _emit_list)                            *)
(***************************************************************************)
LinesBy(a, f) == IF a[1].type = "map" THEN EmitMap(a[1].pairs, a[2], f)
                 ELSE EmitList(a[1].items, a[2], f)

\* A value is written by way of what nests less deeply in it.
LEMMA LinesLookInside ==
    ASSUME NEW a \in Containers \X Nat, NEW f, NEW g,
           \A b \in Containers \X Nat : Nesting[b[1]] < Nesting[a[1]] => f[b] = g[b]
    PROVE  LinesBy(a, f) = LinesBy(a, g)
<1>1. PICK v \in Containers, d \in Nat : a = <<v, d>>
  OBVIOUS
<1>2. v \in Values /\ v.type \in {"map", "list"} /\ Writable(v)
  BY ValuesAssumption DEF Containers
<1>3. ASSUME NEW w \in Values, Opens(w), Nesting[w] < Nesting[v], NEW e \in Nat
      PROVE  f[<<w, e>>] = g[<<w, e>>]
  <2>1. w \in Containers
    BY <1>3 DEF Opens, Containers
  <2>2. <<w, e>> \in Containers \X Nat /\ <<w, e>>[1] = w /\ a[1] = v
    BY <1>1, <2>1
  <2> QED BY <1>3, <2>2
<1>4. CASE v.type = "map"
  <2>1. /\ v.pairs \in Seq(STRING \X Values)
        /\ \A i \in DOMAIN v.pairs : Nesting[v.pairs[i][2]] < Nesting[v]
    BY <1>2, <1>4 DEF Writable
  <2>2. ASSUME NEW i \in DOMAIN v.pairs, Opens(v.pairs[i][2]), NEW e \in Nat
        PROVE  f[<<v.pairs[i][2], e>>] = g[<<v.pairs[i][2], e>>]
    <3>1. v.pairs[i] \in STRING \X Values
      BY <2>1
    <3>2. v.pairs[i][2] \in Values
      BY <3>1
    <3> QED BY <1>3, <2>1, <2>2, <3>2
  <2>3. d \in Nat /\ d + 1 \in Nat
    OBVIOUS
  <2>4. EmitMap(v.pairs, d, f) = EmitMap(v.pairs, d, g)
    <3> DEFINE E(i, h) ==
            IF Opens(v.pairs[i][2])
            THEN <<Line(2 * d, FALSE, v.pairs[i][1], Nothing)>>
                 \o h[<<v.pairs[i][2], IF v.pairs[i][2].type = "map" THEN d + 1 ELSE d>>]
            ELSE <<Line(2 * d, FALSE, v.pairs[i][1], Scalar(v.pairs[i][2]))>>
    <3>1. ASSUME NEW i \in DOMAIN v.pairs PROVE E(i, f) = E(i, g)
      <4>1. CASE Opens(v.pairs[i][2])
        <5>1. PICK e \in Nat : e = IF v.pairs[i][2].type = "map" THEN d + 1 ELSE d
          BY <2>3
        <5>2. f[<<v.pairs[i][2], e>>] = g[<<v.pairs[i][2], e>>]
          BY <2>2, <4>1
        <5> QED BY <5>1, <5>2
      <4>2. CASE ~Opens(v.pairs[i][2])
        BY <4>2
      <4> QED BY <4>1, <4>2
    <3>2. [i \in DOMAIN v.pairs |-> E(i, f)] = [i \in DOMAIN v.pairs |-> E(i, g)]
      <4> HIDE DEF E
      <4> QED BY <3>1
    <3>3. /\ EmitMap(v.pairs, d, f) = FlattenSeq([i \in DOMAIN v.pairs |-> E(i, f)])
          /\ EmitMap(v.pairs, d, g) = FlattenSeq([i \in DOMAIN v.pairs |-> E(i, g)])
      BY DEF EmitMap
    <3> HIDE DEF E
    <3> QED BY <3>2, <3>3
  <2> QED BY <1>1, <1>4, <2>4 DEF LinesBy
<1>5. CASE v.type = "list"
  <2>1. /\ v.items \in Seq(Values)
        /\ \A i \in DOMAIN v.items : Nesting[v.items[i]] < Nesting[v]
    BY <1>2, <1>5 DEF Writable
  <2>2. ASSUME NEW i \in DOMAIN v.items, Opens(v.items[i])
        PROVE  f[<<v.items[i], d + 1>>] = g[<<v.items[i], d + 1>>]
    <3>1. v.items[i] \in Values /\ d + 1 \in Nat
      BY <2>1
    <3> QED BY <1>3, <2>1, <2>2, <3>1
  <2>3. EmitList(v.items, d, f) = EmitList(v.items, d, g)
    <3> DEFINE E(i, h) ==
            IF Opens(v.items[i])
            THEN LET inner == h[<<v.items[i], d + 1>>]
                 IN <<[inner[1] EXCEPT !.indent = 2 * d, !.item = TRUE]>> \o Tail(inner)
            ELSE <<Line(2 * d, TRUE, NoKey, Scalar(v.items[i]))>>
    <3>1. ASSUME NEW i \in DOMAIN v.items PROVE E(i, f) = E(i, g)
      <4>1. CASE Opens(v.items[i])
        BY <2>2, <4>1
      <4>2. CASE ~Opens(v.items[i])
        BY <4>2
      <4> QED BY <4>1, <4>2
    <3>2. [i \in DOMAIN v.items |-> E(i, f)] = [i \in DOMAIN v.items |-> E(i, g)]
      <4> HIDE DEF E
      <4> QED BY <3>1
    <3>3. /\ EmitList(v.items, d, f) = FlattenSeq([i \in DOMAIN v.items |-> E(i, f)])
          /\ EmitList(v.items, d, g) = FlattenSeq([i \in DOMAIN v.items |-> E(i, g)])
      BY DEF EmitList
    <3> HIDE DEF E
    <3> QED BY <3>2, <3>3
  <2> QED BY <1>1, <1>5, <2>3 DEF LinesBy
<1> QED BY <1>2, <1>4, <1>5

LEMMA LinesAre == \A a \in Containers \X Nat : Lines[a] = LinesBy(a, Lines)
<1> DEFINE D == Containers \X Nat
           Right(f, m) == \A a \in D : Nesting[a[1]] < m => f[a] = LinesBy(a, f)
<1>1. \A a \in D : Nesting[a[1]] \in Nat
  BY ValuesAssumption DEF Containers
<1>2. ASSUME NEW k \in Nat PROVE \E f : Right(f, k)
  <2> DEFINE G == {m \in 0 .. k : \E f : Right(f, m)}
  <2>1. 0 \in G
    <3> DEFINE f == [a \in D |-> 0]
    <3>1. Right(f, 0)
      BY <1>1
    <3> HIDE DEF Right, f
    <3> QED BY <3>1
  <2>2. ASSUME NEW m \in 1 .. k, m - 1 \in G PROVE m \in G
    <3>1. PICK f : Right(f, m - 1)
      BY <2>2
    <3> DEFINE g == [a \in D |-> LinesBy(a, f)]
    <3>2. ASSUME NEW a \in D, Nesting[a[1]] < m PROVE g[a] = LinesBy(a, g)
      <4>1. ASSUME NEW b \in D, Nesting[b[1]] < Nesting[a[1]] PROVE f[b] = g[b]
        <5>1. Nesting[b[1]] < m - 1
          BY <1>1, <3>2, <4>1
        <5> QED BY <3>1, <5>1
      <4> HIDE DEF g
      <4>2. LinesBy(a, f) = LinesBy(a, g)
        BY <4>1, LinesLookInside
      <4> QED BY <4>2 DEF g
    <3>3. Right(g, m)
      BY <3>2
    <3> HIDE DEF Right, g
    <3> QED BY <3>3
  <2> HIDE DEF G
  <2>3. \A m \in 1 .. k : m - 1 \in G => m \in G
    BY <2>2
  <2>4. k \in G
    BY <2>1, <2>3, Upward
  <2> QED BY <2>4 DEF G
<1>3. ASSUME NEW f, NEW g, NEW m \in Nat, NEW n \in Nat, Right(f, m), Right(g, n),
             NEW a \in D, Nesting[a[1]] < m, Nesting[a[1]] < n
      PROVE  f[a] = g[a]
  <2> DEFINE Wrong == {k \in Nat : \E b \in D : /\ Nesting[b[1]] = k /\ k < m /\ k < n
                                              /\ f[b] # g[b]}
  <2>1. SUFFICES ASSUME Wrong # {} PROVE FALSE
    BY <1>1, <1>3
  <2>2. PICK k \in Wrong : \A j \in Wrong : k <= j
    <3> HIDE DEF Wrong
    <3>1. Wrong \in SUBSET Nat
      BY DEF Wrong
    <3> QED BY <2>1, <3>1, Least
  <2>3. PICK b \in D : Nesting[b[1]] = k /\ k < m /\ k < n /\ f[b] # g[b]
    BY <2>2
  <2>4. ASSUME NEW c \in D, Nesting[c[1]] < Nesting[b[1]] PROVE f[c] = g[c]
    <3>1. Nesting[c[1]] \in Nat /\ ~(k <= Nesting[c[1]]) /\ Nesting[c[1]] < m /\ Nesting[c[1]] < n
      BY <1>1, <2>3, <2>4
    <3>2. Nesting[c[1]] \notin Wrong
      BY <2>2, <3>1
    <3> QED BY <3>1, <3>2
  <2>5. LinesBy(b, f) = LinesBy(b, g)
    BY <2>4, LinesLookInside
  <2>6. f[b] = LinesBy(b, f) /\ g[b] = LinesBy(b, g)
    BY <1>3, <2>3
  <2> QED BY <2>3, <2>5, <2>6
<1> DEFINE F(m) == CHOOSE f : Right(f, m)
           h == [a \in D |-> F(Nesting[a[1]] + 1)[a]]
<1>4. ASSUME NEW m \in Nat PROVE Right(F(m), m)
  <2>1. \E f : Right(f, m)
    BY <1>2
  <2> HIDE DEF Right
  <2> QED BY <2>1
<1>5. ASSUME NEW a \in D PROVE h[a] = LinesBy(a, h)
  <2>1. PICK k \in Nat : k = Nesting[a[1]] + 1
    BY <1>1
  <2>2. h[a] = F(k)[a]
    BY <2>1
  <2>3. F(k)[a] = LinesBy(a, F(k))
    <3>1. Right(F(k), k)
      BY <1>4
    <3>2. Nesting[a[1]] < k
      BY <1>1, <2>1
    <3> HIDE DEF F
    <3> QED BY <3>1, <3>2
  <2>4. ASSUME NEW b \in D, Nesting[b[1]] < Nesting[a[1]] PROVE F(k)[b] = h[b]
    <3>1. PICK j \in Nat : j = Nesting[b[1]] + 1
      BY <1>1
    <3>2. h[b] = F(j)[b]
      BY <3>1
    <3>3. Right(F(k), k) /\ Right(F(j), j)
      BY <1>4
    <3>4. Nesting[b[1]] < k /\ Nesting[b[1]] < j
      BY <1>1, <2>1, <2>4, <3>1
    <3> HIDE DEF F, h, Right
    <3>5. F(k)[b] = F(j)[b]
      BY <1>3, <3>3, <3>4
    <3> QED BY <3>2, <3>5
  <2> HIDE DEF F, h
  <2>5. LinesBy(a, F(k)) = LinesBy(a, h)
    BY <2>4, LinesLookInside
  <2> QED BY <2>2, <2>3, <2>5
<1>6. h = [a \in D |-> LinesBy(a, h)]
  <2> HIDE DEF F
  <2>1. h = [a \in D |-> h[a]]
    OBVIOUS
  <2> HIDE DEF h
  <2> QED BY <1>5, <2>1
<1>7. \E ff : ff = [a \in D |-> LinesBy(a, ff)]
  <2> HIDE DEF h
  <2> QED BY <1>6
<1>8. Lines = [a \in D |-> LinesBy(a, Lines)]
  BY <1>7 DEF Lines, LinesBy
<1> QED BY <1>8

-----------------------------------------------------------------------------
(***************************************************************************)
(* The calls of the parser (_map, _list)                                   *)
(***************************************************************************)
RestSet == Values \cup {Nothing, Bare("[]"), Bare("{}")} \cup {Scalar(v) : v \in Values}
LineSet == [indent : Nat, item : BOOLEAN, key : STRING \cup {NoKey}, rest : RestSet]

ReadBy(lines, c, read) == IF c.of = "map" THEN ReadMap(lines, c, read)
                          ELSE ReadList(lines, c, read)

\* A call reads from its line on; the map of an item reads its first line at least.
Fits(lines, c, r) ==
    r.ok => /\ r.next \in c.at .. Len(lines) + 1
            /\ c.of = "map" /\ c.spliced /\ c.at <= Len(lines) => r.next # c.at

\* What is left to be read in a call; a list calls for the map on its own line.
Dash(of) == IF of = "list" THEN 1 ELSE 0
Left(lines, c) == 2 * (Len(lines) + 1 - c.at) + Dash(c.of)

\* The two readers know the same of what is left after c.
Agree(lines, c, f, g) ==
    \A b \in Calls(lines) : Left(lines, b) < Left(lines, c) => f[b] = g[b] /\ Fits(lines, b, f[b])

LEMMA LaterCall ==
    ASSUME NEW lines \in Seq(LineSet), NEW c \in Calls(lines), NEW f, NEW g, Agree(lines, c, f, g),
           NEW b \in Calls(lines), b.at > c.at
    PROVE  f[b] = g[b] /\ (f[b].ok => f[b].next \in b.at .. Len(lines) + 1)
<1>1. PICK n \in Nat : n = Len(lines)
  OBVIOUS
<1>2. c.at \in 1 .. n + 1 /\ b.at \in 1 .. n + 1
  BY <1>1 DEF Calls
<1>3. /\ Left(lines, c) = 2 * (n + 1 - c.at) + Dash(c.of)
      /\ Left(lines, b) = 2 * (n + 1 - b.at) + Dash(b.of)
  BY <1>1 DEF Left
<1>4. Left(lines, b) < Left(lines, c)
  <2>1. Dash(b.of) \in {0, 1} /\ Dash(c.of) \in {0, 1}
    BY DEF Dash
  <2>2. PICK i \in Int, j \in Int : i = c.at /\ j = b.at /\ j > i
    BY <1>2
  <2>3. PICK p \in {0, 1}, q \in {0, 1} : p = Dash(b.of) /\ q = Dash(c.of)
    BY <2>1
  <2>4. 2 * (n + 1 - j) + p < 2 * (n + 1 - i) + q
    <3>1. i + 1 <= j
      BY <2>2
    <3>2. 2 * (n + 1 - j) + 2 <= 2 * (n + 1 - i)
      BY <3>1
    <3>3. p < 2 + q
      OBVIOUS
    <3>4. 2 * (n + 1 - j) \in Int /\ 2 * (n + 1 - i) \in Int /\ p \in Int /\ q \in Int
      OBVIOUS
    <3> QED BY <3>2, <3>3, <3>4
  <2>5. Left(lines, c) = 2 * (n + 1 - i) + q /\ Left(lines, b) = 2 * (n + 1 - j) + p
    BY <1>3, <2>2, <2>3
  <2> QED BY <2>4, <2>5
<1>5. f[b] = g[b] /\ Fits(lines, b, f[b])
  BY <1>4 DEF Agree
<1> QED BY <1>5 DEF Fits

LEMMA ScalarNext ==
    ASSUME NEW v, NEW next
    PROVE  ParseScalar(v, next).ok => ParseScalar(v, next).next = next
  BY DEF ParseScalar, Read, Malformed

LEMMA ValueLooksAhead ==
    ASSUME NEW lines \in Seq(LineSet), NEW c \in Calls(lines), c.at <= Len(lines), NEW f, NEW g,
           Agree(lines, c, f, g), NEW rest
    PROVE  /\ Value(lines, c, rest, f) = Value(lines, c, rest, g)
           /\ Value(lines, c, rest, f).ok =>
                 Value(lines, c, rest, f).next \in c.at + 1 .. Len(lines) + 1
<1>1. PICK n \in Nat : n = Len(lines)
  OBVIOUS
<1>2. PICK next : next = c.at + 1
  OBVIOUS
<1>3. /\ c.at \in 1 .. n /\ next \in c.at + 1 .. n + 1 /\ next \in Int
      /\ c.indent \in Nat /\ c.depth - 1 \in Int
  BY <1>1, <1>2 DEF Calls
<1>4. CASE rest = Nothing
  <2>1. CASE next > n
    <3>1. /\ Value(lines, c, rest, f) = Read(Bare("null"), next)
          /\ Value(lines, c, rest, g) = Read(Bare("null"), next)
      BY <1>1, <1>2, <1>4, <2>1 DEF Value
    <3> QED BY <1>1, <1>3, <3>1 DEF Read
  <2>2. CASE ~(next > n) /\ lines[next].item /\ lines[next].indent = c.indent
    <3>1. PICK b : b = Call("list", next, c.indent, c.depth - 1, FALSE)
      OBVIOUS
    <3>2. Value(lines, c, rest, f) = f[b] /\ Value(lines, c, rest, g) = g[b]
      BY <1>1, <1>2, <1>4, <2>2, <3>1 DEF Value
    <3>3. b \in Calls(lines) /\ b.at = next
      BY <1>1, <1>2, <1>3, <3>1 DEF Call, Calls
    <3>4. f[b] = g[b] /\ (f[b].ok => f[b].next \in b.at .. Len(lines) + 1)
      BY <1>2, <1>3, <3>3, LaterCall
    <3> QED BY <1>2, <3>2, <3>3, <3>4
  <2>3. CASE /\ ~(next > n) /\ ~(lines[next].item /\ lines[next].indent = c.indent)
             /\ lines[next].indent > c.indent
    <3>1. /\ Value(lines, c, rest, f) = Block(lines, next, c.depth - 1, f)
          /\ Value(lines, c, rest, g) = Block(lines, next, c.depth - 1, g)
      BY <1>1, <1>2, <1>4, <2>3 DEF Value
    <3>2. CASE c.depth - 1 < 0
      BY <3>1, <3>2 DEF Block, Malformed
    <3>3. CASE ~(c.depth - 1 < 0)
      <4>1. PICK of \in {"map", "list"} : of = IF lines[next].item THEN "list" ELSE "map"
        OBVIOUS
      <4>2. lines[next].indent \in Nat
        <5>1. next \in 1 .. Len(lines)
          BY <1>1, <1>3, <2>3
        <5>2. lines[next] \in LineSet
          BY <5>1
        <5> QED BY <5>2 DEF LineSet
      <4>3. PICK b : b = Call(of, next, lines[next].indent, c.depth - 1, FALSE)
        OBVIOUS
      <4>4. Value(lines, c, rest, f) = f[b] /\ Value(lines, c, rest, g) = g[b]
        BY <3>1, <3>3, <4>1, <4>3 DEF Block
      <4>5. b \in Calls(lines) /\ b.at = next
        BY <1>1, <1>2, <1>3, <4>2, <4>3 DEF Call, Calls
      <4>6. f[b] = g[b] /\ (f[b].ok => f[b].next \in b.at .. Len(lines) + 1)
        BY <1>2, <1>3, <4>5, LaterCall
      <4> QED BY <1>2, <4>4, <4>5, <4>6
    <3> QED BY <3>2, <3>3
  <2>4. CASE /\ ~(next > n) /\ ~(lines[next].item /\ lines[next].indent = c.indent)
             /\ ~(lines[next].indent > c.indent)
    <3>1. /\ Value(lines, c, rest, f) = Read(Bare("null"), next)
          /\ Value(lines, c, rest, g) = Read(Bare("null"), next)
      BY <1>1, <1>2, <1>4, <2>4 DEF Value
    <3> QED BY <1>1, <1>3, <3>1 DEF Read
  <2> QED BY <2>1, <2>2, <2>3, <2>4
<1>5. CASE rest # Nothing
  <2>1. Value(lines, c, rest, f) = Value(lines, c, rest, g)
    BY <1>5 DEF Value
  <2>2. Value(lines, c, rest, f) \in
          {Read(List(<<>>), next), Read(Map(<<>>), next), ParseScalar(rest, next)}
    BY <1>2, <1>5 DEF Value
  <2>3. Value(lines, c, rest, f).ok => Value(lines, c, rest, f).next = next
    BY <2>2, ScalarNext DEF Read
  <2> QED BY <1>1, <1>3, <2>1, <2>3
<1> QED BY <1>4, <1>5

LEMMA MapLooksAhead ==
    ASSUME NEW lines \in Seq(LineSet), NEW c \in Calls(lines), c.of = "map", NEW f, NEW g,
           Agree(lines, c, f, g)
    PROVE  /\ ReadMap(lines, c, f) = ReadMap(lines, c, g)
           /\ Fits(lines, c, ReadMap(lines, c, f))
<1>1. PICK n \in Nat : n = Len(lines)
  OBVIOUS
<1>2. c.at \in 1 .. n + 1 /\ c.indent \in Nat /\ c.depth \in Int /\ c.spliced \in BOOLEAN
  BY <1>1 DEF Calls
<1>3. PICK l : l = IF c.spliced THEN [lines[c.at] EXCEPT !.indent = c.indent, !.item = FALSE]
                   ELSE lines[c.at]
  OBVIOUS
<1> DEFINE v(h) == Value(lines, c, l.rest, h)
           o(h) == h[Call("map", v(h).next, c.indent, c.depth, FALSE)]
           done == Read(Map(<<>>), c.at)
           all(h) == IF l.key = NoKey \/ ~v(h).ok \/ ~o(h).ok THEN Malformed
                     ELSE Read(Map(<< <<l.key, v(h).v>> >> \o o(h).v.pairs), o(h).next)
<1>4. \A h \in {f, g} :
        ReadMap(lines, c, h) = IF c.at > n \/ l.indent # c.indent \/ l.item THEN done ELSE all(h)
  BY <1>1, <1>3 DEF ReadMap
<1>5. CASE c.at > n \/ l.indent # c.indent \/ l.item
  <2>1. ReadMap(lines, c, f) = done /\ ReadMap(lines, c, g) = done
    BY <1>4, <1>5
  <2>2. c.spliced /\ c.at <= n => FALSE
    <3>1. SUFFICES ASSUME c.spliced, c.at <= n PROVE FALSE
      OBVIOUS
    <3>2. lines[c.at] \in LineSet
      BY <1>1, <1>2, <3>1
    <3>3. l.indent = c.indent /\ l.item = FALSE
      BY <1>3, <3>1, <3>2 DEF LineSet
    <3> QED BY <1>2, <1>5, <3>1, <3>3
  <2>3. done.next = c.at
    BY DEF Read
  <2>4. Fits(lines, c, done)
    BY <1>1, <1>2, <2>2, <2>3 DEF Fits
  <2> QED BY <2>1, <2>4
<1>6. CASE ~(c.at > n \/ l.indent # c.indent \/ l.item)
  <2>1. ReadMap(lines, c, f) = all(f) /\ ReadMap(lines, c, g) = all(g)
    BY <1>4, <1>6
  <2>2. c.at <= n
    BY <1>2, <1>6
  <2>3. v(f) = v(g) /\ (v(f).ok => v(f).next \in c.at + 1 .. n + 1)
    BY <1>1, <2>2, ValueLooksAhead
  <2>4. PICK w : w = v(f)
    OBVIOUS
  <2> HIDE DEF v
  <2>5. CASE ~w.ok
    <3>1. all(f) = Malformed /\ all(g) = Malformed
      BY <2>3, <2>4, <2>5
    <3> HIDE DEF all
    <3> QED BY <2>1, <3>1 DEF Fits, Malformed
  <2>6. CASE w.ok
    <3>1. w.next \in c.at + 1 .. n + 1
      BY <2>3, <2>4, <2>6
    <3>0. PICK b : b = Call("map", w.next, c.indent, c.depth, FALSE)
      OBVIOUS
    <3>2. f[b] = g[b] /\ (f[b].ok => f[b].next \in w.next .. n + 1)
      <4>1. b \in Calls(lines) /\ b.at = w.next
        BY <1>1, <1>2, <3>0, <3>1 DEF Call, Calls
      <4>2. b.at > c.at
        BY <1>2, <3>1, <4>1
      <4>3. f[b] = g[b] /\ (f[b].ok => f[b].next \in b.at .. Len(lines) + 1)
        BY <4>1, <4>2, LaterCall
      <4> QED BY <1>1, <4>1, <4>3
    <3>3. o(f) = f[b] /\ o(g) = g[b]
      BY <2>3, <2>4, <3>0
    <3> HIDE DEF o
    <3>4. all(f) = all(g)
      BY <2>3, <3>2, <3>3
    <3>5. Fits(lines, c, all(f))
      <4>1. CASE l.key = NoKey \/ ~v(f).ok \/ ~o(f).ok
        <5>1. all(f) = Malformed
          BY <4>1
        <5> HIDE DEF all
        <5> QED BY <5>1 DEF Fits, Malformed
      <4>2. CASE ~(l.key = NoKey \/ ~v(f).ok \/ ~o(f).ok)
        <5>1. all(f).next = o(f).next
          BY <4>2 DEF Read
        <5>2. o(f).next \in w.next .. n + 1
          BY <3>2, <3>3, <4>2
        <5>3. o(f).next \in c.at .. n + 1 /\ o(f).next # c.at
          BY <1>2, <3>1, <5>2
        <5> HIDE DEF all
        <5> QED BY <1>1, <5>1, <5>3 DEF Fits
      <4> QED BY <4>1, <4>2
    <3> HIDE DEF all
    <3> QED BY <2>1, <3>4, <3>5
  <2> QED BY <2>5, <2>6
<1> QED BY <1>5, <1>6

LEMMA ListLooksAhead ==
    ASSUME NEW lines \in Seq(LineSet), NEW c \in Calls(lines), c.of = "list", NEW f, NEW g,
           Agree(lines, c, f, g)
    PROVE  /\ ReadList(lines, c, f) = ReadList(lines, c, g)
           /\ Fits(lines, c, ReadList(lines, c, f))
<1>1. PICK n \in Nat : n = Len(lines)
  OBVIOUS
<1>2. c.at \in 1 .. n + 1 /\ c.indent \in Nat /\ c.depth \in Int
  BY <1>1 DEF Calls
<1>3. PICK l : l = lines[c.at]
  OBVIOUS
<1> DEFINE v(h) == IF l.key # NoKey THEN h[Call("map", c.at, c.indent + 2, c.depth - 1, TRUE)]
                   ELSE ParseScalar(l.rest, c.at + 1)
           o(h) == h[Call("list", v(h).next, c.indent, c.depth, FALSE)]
           done == Read(List(<<>>), c.at)
           all(h) == IF ~v(h).ok \/ ~o(h).ok THEN Malformed
                     ELSE Read(List(<<v(h).v>> \o o(h).v.items), o(h).next)
<1>4. \A h \in {f, g} :
        ReadList(lines, c, h) = IF c.at > n \/ l.indent # c.indent \/ ~l.item THEN done ELSE all(h)
  BY <1>1, <1>3 DEF ReadList
<1>5. CASE c.at > n \/ l.indent # c.indent \/ ~l.item
  <2>1. ReadList(lines, c, f) = done /\ ReadList(lines, c, g) = done
    BY <1>4, <1>5
  <2>2. done.next = c.at
    BY DEF Read
  <2>3. Fits(lines, c, done)
    BY <1>1, <1>2, <2>2 DEF Fits
  <2> QED BY <2>1, <2>3
<1>6. CASE ~(c.at > n \/ l.indent # c.indent \/ ~l.item)
  <2>1. ReadList(lines, c, f) = all(f) /\ ReadList(lines, c, g) = all(g)
    BY <1>4, <1>6
  <2>2. c.at \in 1 .. n
    BY <1>2, <1>6
  <2>3. v(f) = v(g) /\ (v(f).ok => v(f).next \in c.at + 1 .. n + 1)
    <3>1. CASE l.key # NoKey
      <4>1. PICK b : b = Call("map", c.at, c.indent + 2, c.depth - 1, TRUE)
        OBVIOUS
      <4>2. /\ b \in Calls(lines) /\ b.at = c.at /\ b.of = "map" /\ b.spliced = TRUE
            /\ Left(lines, b) = 2 * (n + 1 - c.at) + Dash("map")
        <5>1. c.indent + 2 \in Nat /\ c.depth - 1 \in Int /\ c.at \in 1 .. Len(lines) + 1
          BY <1>1, <1>2
        <5>2. b \in Calls(lines) /\ b.at = c.at /\ b.of = "map" /\ b.spliced = TRUE
          BY <4>1, <5>1 DEF Call, Calls
        <5> QED BY <1>1, <5>2 DEF Left
      <4>3. Left(lines, c) = 2 * (n + 1 - c.at) + Dash("list")
        BY <1>1 DEF Left
      <4>4. Left(lines, b) < Left(lines, c)
        <5>1. Dash("map") = 0 /\ Dash("list") = 1
          BY DEF Dash
        <5>2. PICK i \in Int : i = 2 * (n + 1 - c.at)
          BY <2>2
        <5> QED BY <4>2, <4>3, <5>1, <5>2
      <4>5. v(f) = f[b] /\ v(g) = g[b]
        BY <3>1, <4>1
      <4> HIDE DEF v
      <4>6. f[b] = g[b] /\ Fits(lines, b, f[b])
        BY <4>2, <4>4 DEF Agree
      <4>7. f[b].ok => f[b].next \in c.at .. n + 1 /\ f[b].next # c.at
        BY <1>1, <2>2, <4>2, <4>6 DEF Fits
      <4> QED BY <2>2, <4>5, <4>6, <4>7
    <3>2. CASE l.key = NoKey
      <4>1. v(f) = ParseScalar(l.rest, c.at + 1) /\ v(g) = ParseScalar(l.rest, c.at + 1)
        BY <3>2
      <4>2. v(f).ok => v(f).next = c.at + 1
        BY <4>1, ScalarNext
      <4>3. c.at + 1 \in c.at + 1 .. n + 1
        BY <2>2
      <4>4. v(f) = v(g)
        BY <4>1
      <4> HIDE DEF v
      <4> QED BY <4>2, <4>3, <4>4
    <3> QED BY <3>1, <3>2
  <2>4. PICK w : w = v(f)
    OBVIOUS
  <2> HIDE DEF v
  <2>5. CASE ~w.ok
    <3>1. all(f) = Malformed /\ all(g) = Malformed
      BY <2>3, <2>4, <2>5
    <3> HIDE DEF all
    <3> QED BY <2>1, <3>1 DEF Fits, Malformed
  <2>6. CASE w.ok
    <3>1. w.next \in c.at + 1 .. n + 1
      BY <2>3, <2>4, <2>6
    <3>0. PICK b : b = Call("list", w.next, c.indent, c.depth, FALSE)
      OBVIOUS
    <3>2. f[b] = g[b] /\ (f[b].ok => f[b].next \in w.next .. n + 1)
      <4>1. b \in Calls(lines) /\ b.at = w.next
        BY <1>1, <1>2, <3>0, <3>1 DEF Call, Calls
      <4>2. b.at > c.at
        BY <1>2, <3>1, <4>1
      <4>3. f[b] = g[b] /\ (f[b].ok => f[b].next \in b.at .. Len(lines) + 1)
        BY <4>1, <4>2, LaterCall
      <4> QED BY <1>1, <4>1, <4>3
    <3>3. o(f) = f[b] /\ o(g) = g[b]
      BY <2>3, <2>4, <3>0
    <3> HIDE DEF o
    <3>4. all(f) = all(g)
      BY <2>3, <3>2, <3>3
    <3>5. Fits(lines, c, all(f))
      <4>1. CASE ~v(f).ok \/ ~o(f).ok
        <5>1. all(f) = Malformed
          BY <4>1
        <5> HIDE DEF all
        <5> QED BY <5>1 DEF Fits, Malformed
      <4>2. CASE ~(~v(f).ok \/ ~o(f).ok)
        <5>1. all(f).next = o(f).next
          BY <4>2 DEF Read
        <5>2. o(f).next \in w.next .. n + 1
          BY <3>2, <3>3, <4>2
        <5>3. o(f).next \in c.at .. n + 1
          BY <1>2, <3>1, <5>2
        <5> HIDE DEF all
        <5> QED BY <1>1, <5>1, <5>3 DEF Fits
      <4> QED BY <4>1, <4>2
    <3> HIDE DEF all
    <3> QED BY <2>1, <3>4, <3>5
  <2> QED BY <2>5, <2>6
<1> QED BY <1>5, <1>6

LEMMA CallLooksAhead ==
    ASSUME NEW lines \in Seq(LineSet), NEW c \in Calls(lines), NEW f, NEW g, Agree(lines, c, f, g)
    PROVE  ReadBy(lines, c, f) = ReadBy(lines, c, g) /\ Fits(lines, c, ReadBy(lines, c, f))
<1>1. c.of \in {"map", "list"}
  BY DEF Calls
<1>2. CASE c.of = "map"
  BY <1>2, MapLooksAhead DEF ReadBy
<1>3. CASE c.of # "map"
  BY <1>1, <1>3, ListLooksAhead DEF ReadBy
<1> QED BY <1>2, <1>3

\* The parser is one function of its calls, each by way of later ones.
LEMMA ReaderIs ==
    ASSUME NEW lines \in Seq(LineSet)
    PROVE  \A c \in Calls(lines) : Reader(lines)[c] = ReadBy(lines, c, Reader(lines))
<1> DEFINE D == Calls(lines)
           Right(f, m) == \A c \in D : Left(lines, c) < m => /\ f[c] = ReadBy(lines, c, f)
                                                           /\ Fits(lines, c, f[c])
<1>1. PICK top \in Nat : \A c \in D : Left(lines, c) \in Nat /\ Left(lines, c) < top
  <2>1. PICK n \in Nat : n = Len(lines)
    OBVIOUS
  <2>2. ASSUME NEW c \in D PROVE Left(lines, c) \in Nat /\ Left(lines, c) < 2 * n + 2
    <3>1. PICK i \in 1 .. n + 1 : i = c.at
      BY <2>1 DEF Calls
    <3>2. PICK q \in {0, 1} : q = Dash(c.of)
      BY DEF Dash
    <3>3. Left(lines, c) = 2 * (n + 1 - i) + q
      BY <2>1, <3>1, <3>2 DEF Left
    <3>4. 2 * (n + 1 - i) + q \in Nat /\ 2 * (n + 1 - i) + q < 2 * n + 2
      OBVIOUS
    <3> QED BY <3>3, <3>4
  <2>3. 2 * n + 2 \in Nat
    OBVIOUS
  <2> HIDE DEF D
  <2> QED BY <2>2, <2>3
<1>2. \E f : Right(f, top)
  <2> DEFINE G == {m \in 0 .. top : \E f : Right(f, m)}
  <2>1. 0 \in G
    <3> DEFINE f == [c \in D |-> 0]
    <3>1. Right(f, 0)
      BY <1>1
    <3> HIDE DEF Right, f
    <3> QED BY <3>1
  <2>2. ASSUME NEW m \in 1 .. top, m - 1 \in G PROVE m \in G
    <3>1. PICK f : Right(f, m - 1)
      BY <2>2
    <3> DEFINE g == [c \in D |-> ReadBy(lines, c, f)]
    <3>2. ASSUME NEW c \in D, Left(lines, c) < m
          PROVE  g[c] = ReadBy(lines, c, g) /\ Fits(lines, c, g[c])
      <4>1. ASSUME NEW b \in D, Left(lines, b) < Left(lines, c)
            PROVE  f[b] = g[b] /\ Fits(lines, b, f[b])
        <5>1. Left(lines, b) < m - 1
          BY <1>1, <3>2, <4>1
        <5> QED BY <3>1, <5>1
      <4>2. g[c] = ReadBy(lines, c, f)
        OBVIOUS
      <4> HIDE DEF g
      <4>3. Agree(lines, c, f, g)
        BY <4>1 DEF Agree
      <4>4. ReadBy(lines, c, f) = ReadBy(lines, c, g) /\ Fits(lines, c, ReadBy(lines, c, f))
        BY <4>3, CallLooksAhead
      <4> QED BY <4>2, <4>4
    <3> HIDE DEF g
    <3>3. Right(g, m)
      BY <3>2
    <3> HIDE DEF Right
    <3> QED BY <3>3
  <2> HIDE DEF G
  <2>3. \A m \in 1 .. top : m - 1 \in G => m \in G
    BY <2>2
  <2>4. top \in G
    BY <2>1, <2>3, Upward
  <2> QED BY <2>4 DEF G
<1>3. PICK f : Right(f, top)
  BY <1>2
<1> DEFINE h == [c \in D |-> f[c]]
<1>4. ASSUME NEW c \in D PROVE h[c] = ReadBy(lines, c, h)
  <2>1. f[c] = ReadBy(lines, c, f)
    BY <1>1, <1>3
  <2>2. ASSUME NEW b \in D PROVE f[b] = h[b] /\ Fits(lines, b, f[b])
    BY <1>1, <1>3
  <2>3. h[c] = f[c]
    OBVIOUS
  <2> HIDE DEF h
  <2>4. Agree(lines, c, f, h)
    BY <2>2 DEF Agree
  <2>5. ReadBy(lines, c, f) = ReadBy(lines, c, h)
    BY <2>4, CallLooksAhead
  <2> QED BY <2>1, <2>3, <2>5
<1>5. h = [c \in D |-> ReadBy(lines, c, h)]
  <2>1. h = [c \in D |-> h[c]]
    OBVIOUS
  <2> HIDE DEF h
  <2> QED BY <1>4, <2>1
<1>6. \E ff : ff = [c \in D |-> ReadBy(lines, c, ff)]
  <2> HIDE DEF h
  <2> QED BY <1>5
<1>7. Reader(lines) = [c \in D |-> ReadBy(lines, c, Reader(lines))]
  BY <1>6 DEF Reader, ReadBy
<1> QED BY <1>7

-----------------------------------------------------------------------------
(***************************************************************************)
(* What a map or a list is written as, entry by entry                      *)
(***************************************************************************)
Entries(w) == IF w.type = "map" THEN w.pairs ELSE w.items
Nested(w, i) == IF w.type = "map" THEN w.pairs[i][2] ELSE w.items[i]

MapPiece(k, v, d) ==
    IF Opens(v)
    THEN <<Line(2 * d, FALSE, k, Nothing)>> \o Lines[<<v, IF v.type = "map" THEN d + 1 ELSE d>>]
    ELSE <<Line(2 * d, FALSE, k, Scalar(v))>>

ListPiece(v, d) ==
    IF Opens(v)
    THEN <<[Lines[<<v, d + 1>>][1] EXCEPT !.indent = 2 * d, !.item = TRUE]>>
         \o Tail(Lines[<<v, d + 1>>])
    ELSE <<Line(2 * d, TRUE, NoKey, Scalar(v))>>

Piece(w, d, i) == IF w.type = "map" THEN MapPiece(w.pairs[i][1], w.pairs[i][2], d)
                  ELSE ListPiece(w.items[i], d)

LEMMA EntriesOK ==
    ASSUME NEW w \in Containers
    PROVE  /\ w \in Values /\ Writable(w) /\ w.type \in {"map", "list"} /\ Nesting[w] \in Nat
           /\ Len(Entries(w)) \in Nat /\ DOMAIN Entries(w) = 1 .. Len(Entries(w))
           /\ Opens(w) <=> Entries(w) # <<>>
           /\ Opens(w) <=> Len(Entries(w)) >= 1
           /\ \A i \in 1 .. Len(Entries(w)) :
                 /\ Nested(w, i) \in Values /\ Writable(Nested(w, i))
                 /\ Nesting[Nested(w, i)] < Nesting[w] /\ Nesting[Nested(w, i)] \in Nat
                 /\ w.type = "map" => /\ w.pairs[i] = <<w.pairs[i][1], w.pairs[i][2]>>
                                      /\ w.pairs[i][1] \in STRING /\ w.pairs[i][1] # NoKey
                                      /\ w.pairs[i][2] = Nested(w, i)
                 /\ w.type = "list" => /\ Nested(w, i).type # "list" /\ Nested(w, i) # Map(<<>>)
                                       /\ w.items[i] = Nested(w, i)
<1>1. w \in Values /\ Writable(w) /\ w.type \in {"map", "list"} /\ Nesting[w] \in Nat
  BY ValuesAssumption DEF Containers
<1>2. CASE w.type = "map"
  <2>1. Entries(w) = w.pairs /\ \A i : Nested(w, i) = w.pairs[i][2]
    BY <1>2 DEF Entries, Nested
  <2>2. /\ w.pairs \in Seq(STRING \X Values)
        /\ \A i \in DOMAIN w.pairs : w.pairs[i][1] # NoKey /\ Nesting[w.pairs[i][2]] < Nesting[w]
    BY <1>1, <1>2 DEF Writable
  <2>3. ASSUME NEW i \in 1 .. Len(w.pairs)
        PROVE  /\ w.pairs[i] = <<w.pairs[i][1], w.pairs[i][2]>>
               /\ w.pairs[i][1] \in STRING /\ w.pairs[i][2] \in Values
    <3>1. w.pairs[i] \in STRING \X Values
      BY <2>2
    <3> QED BY <3>1
  <2>4. (Opens(w) <=> w.pairs # <<>>) /\ (w.pairs # <<>> <=> Len(w.pairs) >= 1)
    BY <1>2, <2>2 DEF Opens
  <2>5. Len(w.pairs) \in Nat /\ DOMAIN w.pairs = 1 .. Len(w.pairs)
    BY <2>2
  <2>6. \A i \in 1 .. Len(w.pairs) : Writable(w.pairs[i][2]) /\ Nesting[w.pairs[i][2]] \in Nat
    BY <2>3, ValuesAssumption
  <2> QED BY <1>1, <1>2, <2>1, <2>2, <2>3, <2>4, <2>5, <2>6
<1>3. CASE w.type = "list"
  <2>1. Entries(w) = w.items /\ \A i : Nested(w, i) = w.items[i]
    BY <1>3 DEF Entries, Nested
  <2>2. /\ w.items \in Seq(Values)
        /\ \A i \in DOMAIN w.items : /\ w.items[i].type # "list" /\ w.items[i] # Map(<<>>)
                                     /\ Nesting[w.items[i]] < Nesting[w]
    BY <1>1, <1>3 DEF Writable
  <2>3. (Opens(w) <=> w.items # <<>>) /\ (w.items # <<>> <=> Len(w.items) >= 1)
    BY <1>3, <2>2 DEF Opens
  <2>4. Len(w.items) \in Nat /\ DOMAIN w.items = 1 .. Len(w.items)
    BY <2>2
  <2>5. \A i \in 1 .. Len(w.items) : /\ w.items[i] \in Values /\ Writable(w.items[i])
                                     /\ Nesting[w.items[i]] \in Nat
    BY <2>2, ValuesAssumption
  <2> QED BY <1>1, <1>3, <2>1, <2>2, <2>3, <2>4, <2>5
<1> QED BY <1>1, <1>2, <1>3

LEMMA LinesInPieces ==
    ASSUME NEW w \in Containers, NEW d \in Nat
    PROVE  Lines[<<w, d>>] = FlattenSeq([i \in 1 .. Len(Entries(w)) |-> Piece(w, d, i)])
<1>1. Lines[<<w, d>>] = LinesBy(<<w, d>>, Lines)
  BY LinesAre
<1>2. CASE w.type = "map"
  <2>1. Lines[<<w, d>>] = EmitMap(w.pairs, d, Lines)
    BY <1>1, <1>2 DEF LinesBy
  <2>2. DOMAIN w.pairs = 1 .. Len(Entries(w))
    BY <1>2, EntriesOK DEF Entries
  <2>3. EmitMap(w.pairs, d, Lines) =
            FlattenSeq([i \in DOMAIN w.pairs |-> MapPiece(w.pairs[i][1], w.pairs[i][2], d)])
    BY DEF EmitMap, MapPiece
  <2>4. [i \in DOMAIN w.pairs |-> MapPiece(w.pairs[i][1], w.pairs[i][2], d)] =
        [i \in 1 .. Len(Entries(w)) |-> Piece(w, d, i)]
    BY <1>2, <2>2 DEF Piece
  <2> QED BY <2>1, <2>3, <2>4
<1>3. CASE w.type # "map"
  <2>1. Lines[<<w, d>>] = EmitList(w.items, d, Lines)
    BY <1>1, <1>3 DEF LinesBy
  <2>2. DOMAIN w.items = 1 .. Len(Entries(w))
    BY <1>3, EntriesOK DEF Entries
  <2>3. EmitList(w.items, d, Lines) = FlattenSeq([i \in DOMAIN w.items |-> ListPiece(w.items[i], d)])
    BY DEF EmitList, ListPiece
  <2>4. [i \in DOMAIN w.items |-> ListPiece(w.items[i], d)] =
        [i \in 1 .. Len(Entries(w)) |-> Piece(w, d, i)]
    BY <1>3, <2>2 DEF Piece
  <2> QED BY <2>1, <2>3, <2>4
<1> QED BY <1>2, <1>3

\* What holds of a map or a list when it holds of what nests less deeply holds of each.
LEMMA ByNesting ==
    ASSUME NEW G,
           \A w \in Containers :
              (\A u \in Containers : Nesting[u] < Nesting[w] => u \in G) => w \in G
    PROVE  \A w \in Containers : w \in G
<1> DEFINE bad == {Nesting[w] : w \in {u \in Containers : u \notin G}}
<1>1. \A w \in Containers : Nesting[w] \in Nat
  BY EntriesOK
<1>2. SUFFICES ASSUME NEW w \in Containers, w \notin G PROVE FALSE
  OBVIOUS
<1>3. bad \in SUBSET Nat /\ bad # {}
  BY <1>1, <1>2
<1>4. PICK n \in bad : \A m \in bad : n <= m
  <2> HIDE DEF bad
  <2> QED BY <1>3, Least
<1>5. PICK u \in Containers : u \notin G /\ n = Nesting[u]
  BY <1>4
<1>6. ASSUME NEW x \in Containers, Nesting[x] < Nesting[u], x \notin G PROVE FALSE
  <2>1. PICK m \in Nat : m = Nesting[x] /\ m < n
    BY <1>1, <1>5, <1>6
  <2>2. m \in bad
    BY <1>6, <2>1
  <2>3. n <= m /\ n \in Nat
    BY <1>3, <1>4, <2>2
  <2> QED BY <2>1, <2>3
<1> QED BY <1>5, <1>6

\* The first line of a map is its first entry's, that of a list opens an item.
Starts(w, d, l) == /\ l \in LineSet /\ l.indent = 2 * d
                   /\ w.type = "map" => ~l.item /\ l.key # NoKey
                   /\ w.type = "list" => l.item

Typed(w) == \A d \in Nat : /\ Lines[<<w, d>>] \in Seq(LineSet)
                           /\ Opens(w) => Lines[<<w, d>>] # <<>> /\ Starts(w, d, Lines[<<w, d>>][1])

LEMMA PieceOK ==
    ASSUME NEW w \in Containers, NEW d \in Nat, NEW i \in 1 .. Len(Entries(w)),
           Opens(Nested(w, i)) => Typed(Nested(w, i))
    PROVE  /\ Piece(w, d, i) \in Seq(LineSet) /\ Len(Piece(w, d, i)) >= 1
           /\ Starts(w, d, Piece(w, d, i)[1])
<1> DEFINE v == Nested(w, i)
<1>1. /\ w.type \in {"map", "list"} /\ v \in Values
      /\ w.type = "map" => /\ w.pairs[i][1] \in STRING /\ w.pairs[i][1] # NoKey
                           /\ w.pairs[i][2] = v
      /\ w.type = "list" => w.items[i] = v
  BY EntriesOK
<1>2. Nothing \in RestSet /\ Scalar(v) \in RestSet
  BY <1>1 DEF RestSet
<1>3. 2 * d \in Nat
  OBVIOUS
<1> HIDE DEF v
<1>4. CASE w.type = "map"
  <2>1. PICK k \in STRING : k = w.pairs[i][1] /\ k # NoKey
    BY <1>1, <1>4
  <2>2. Piece(w, d, i) = MapPiece(k, v, d)
    BY <1>1, <1>4, <2>1 DEF Piece
  <2>3. ASSUME NEW rest \in RestSet
        PROVE  LET l == Line(2 * d, FALSE, k, rest) IN l \in LineSet /\ Starts(w, d, l)
    BY <1>3, <1>4, <2>1 DEF Line, LineSet, Starts
  <2>4. CASE Opens(v)
    <3>1. PICK e \in Nat : e = IF v.type = "map" THEN d + 1 ELSE d
      OBVIOUS
    <3>2. PICK inner \in Seq(LineSet) : inner = Lines[<<v, e>>]
      BY <2>4 DEF Typed, v
    <3>3. PICK l \in LineSet : l = Line(2 * d, FALSE, k, Nothing) /\ Starts(w, d, l)
      BY <1>2, <2>3
    <3>4. MapPiece(k, v, d) = <<l>> \o inner
      BY <2>4, <3>1, <3>2, <3>3 DEF MapPiece
    <3>5. <<l>> \o inner \in Seq(LineSet) /\ Len(<<l>> \o inner) >= 1 /\ (<<l>> \o inner)[1] = l
      OBVIOUS
    <3> QED BY <2>2, <3>3, <3>4, <3>5
  <2>5. CASE ~Opens(v)
    <3>1. PICK l \in LineSet : l = Line(2 * d, FALSE, k, Scalar(v)) /\ Starts(w, d, l)
      BY <1>2, <2>3
    <3>2. MapPiece(k, v, d) = <<l>>
      BY <2>5, <3>1 DEF MapPiece
    <3>3. <<l>> \in Seq(LineSet) /\ Len(<<l>>) >= 1 /\ <<l>>[1] = l
      OBVIOUS
    <3> QED BY <2>2, <3>1, <3>2, <3>3
  <2> QED BY <2>4, <2>5
<1>5. CASE w.type = "list"
  <2>1. Piece(w, d, i) = ListPiece(v, d)
    BY <1>1, <1>5 DEF Piece
  <2>2. CASE Opens(v)
    <3>1. PICK inner \in Seq(LineSet) : inner = Lines[<<v, d + 1>>] /\ inner # <<>>
      BY <2>2 DEF Typed, v
    <3>2. inner[1] \in LineSet /\ Tail(inner) \in Seq(LineSet)
      BY <3>1
    <3>3. PICK l \in LineSet : /\ l = [inner[1] EXCEPT !.indent = 2 * d, !.item = TRUE]
                               /\ l.indent = 2 * d /\ l.item
      <4>1. PICK h \in LineSet : h = inner[1]
        BY <3>2
      <4>2. PICK l : l = [h EXCEPT !.indent = 2 * d, !.item = TRUE]
        OBVIOUS
      <4>3. l = [indent |-> 2 * d, item |-> TRUE, key |-> h.key, rest |-> h.rest]
        BY <4>2 DEF LineSet
      <4>4. h.key \in STRING \cup {NoKey} /\ h.rest \in RestSet
        BY DEF LineSet
      <4>5. l \in LineSet /\ l.indent = 2 * d /\ l.item
        BY <1>3, <4>3, <4>4 DEF LineSet
      <4> QED BY <4>1, <4>2, <4>5
    <3>4. ListPiece(v, d) = <<l>> \o Tail(inner)
      BY <2>2, <3>1, <3>3 DEF ListPiece
    <3>5. /\ <<l>> \o Tail(inner) \in Seq(LineSet) /\ Len(<<l>> \o Tail(inner)) >= 1
          /\ (<<l>> \o Tail(inner))[1] = l
      BY <3>2
    <3>6. Starts(w, d, l)
      BY <1>5, <3>3 DEF Starts
    <3> QED BY <2>1, <3>4, <3>5, <3>6
  <2>3. CASE ~Opens(v)
    <3>1. PICK l : l = Line(2 * d, TRUE, NoKey, Scalar(v))
      OBVIOUS
    <3>2. l \in LineSet /\ l.indent = 2 * d /\ l.item
      BY <1>2, <1>3, <3>1 DEF Line, LineSet
    <3>3. Starts(w, d, l)
      BY <1>5, <3>2 DEF Starts
    <3>4. ListPiece(v, d) = <<l>>
      BY <2>3, <3>1 DEF ListPiece
    <3>5. <<l>> \in Seq(LineSet) /\ Len(<<l>>) >= 1 /\ <<l>>[1] = l
      BY <3>2
    <3> QED BY <2>1, <3>3, <3>4, <3>5
  <2> QED BY <2>2, <2>3
<1> QED BY <1>1, <1>4, <1>5

LEMMA PiecesOK ==
    ASSUME NEW w \in Containers, NEW d \in Nat, NEW k \in Nat, k = Len(Entries(w)),
           \A u \in Containers : Nesting[u] < Nesting[w] => Typed(u)
    PROVE  \E pieces \in Seq(Seq(LineSet)) : \E ends :
              /\ Len(pieces) = k /\ Pieced(LineSet, pieces, ends, Lines[<<w, d>>])
              /\ \A i \in 1 .. k : /\ pieces[i] = Piece(w, d, i) /\ Len(pieces[i]) >= 1
                                   /\ Starts(w, d, pieces[i][1])
<1> DEFINE pieces == [i \in 1 .. k |-> Piece(w, d, i)]
<1>1. ASSUME NEW i \in 1 .. k
      PROVE  /\ Piece(w, d, i) \in Seq(LineSet) /\ Len(Piece(w, d, i)) >= 1
             /\ Starts(w, d, Piece(w, d, i)[1])
  <2>1. Nested(w, i) \in Values /\ Nesting[Nested(w, i)] < Nesting[w]
    BY EntriesOK
  <2>2. ASSUME Opens(Nested(w, i)) PROVE Typed(Nested(w, i))
    <3>1. Nested(w, i) \in Containers
      BY <2>1, <2>2 DEF Opens, Containers
    <3> QED BY <2>1, <3>1
  <2> QED BY <2>2, PieceOK
<1>2. pieces \in Seq(Seq(LineSet)) /\ Len(pieces) = k /\ \A i \in 1 .. k : pieces[i] = Piece(w, d, i)
  BY <1>1
<1>3. Lines[<<w, d>>] = FlattenSeq(pieces)
  BY LinesInPieces
<1> HIDE DEF pieces
<1>4. PICK ends : Pieced(LineSet, pieces, ends, Lines[<<w, d>>])
  BY <1>2, <1>3, Flattened
<1> QED BY <1>1, <1>2, <1>4

LEMMA LinesTyped == \A w \in Containers : Typed(w)
<1> DEFINE G == {w \in Containers : Typed(w)}
<1>1. ASSUME NEW w \in Containers, \A u \in Containers : Nesting[u] < Nesting[w] => u \in G
      PROVE  w \in G
  <2>1. ASSUME NEW d \in Nat
        PROVE  /\ Lines[<<w, d>>] \in Seq(LineSet)
               /\ Opens(w) => Lines[<<w, d>>] # <<>> /\ Starts(w, d, Lines[<<w, d>>][1])
    <3>0. PICK k \in Nat : k = Len(Entries(w)) /\ (Opens(w) => k >= 1)
      BY EntriesOK
    <3>1. \A u \in Containers : Nesting[u] < Nesting[w] => Typed(u)
      BY <1>1
    <3>a. PICK pieces \in Seq(Seq(LineSet)) : \E ends :
              /\ Len(pieces) = k /\ Pieced(LineSet, pieces, ends, Lines[<<w, d>>])
              /\ \A i \in 1 .. k : /\ pieces[i] = Piece(w, d, i) /\ Len(pieces[i]) >= 1
                                   /\ Starts(w, d, pieces[i][1])
      BY <3>0, <3>1, PiecesOK
    <3>2. PICK ends :
              /\ Len(pieces) = k /\ Pieced(LineSet, pieces, ends, Lines[<<w, d>>])
              /\ \A i \in 1 .. k : /\ pieces[i] = Piece(w, d, i) /\ Len(pieces[i]) >= 1
                                   /\ Starts(w, d, pieces[i][1])
      BY <3>a
    <3> DEFINE block == Lines[<<w, d>>]
    <3>3. block \in Seq(LineSet)
      BY <3>2 DEF Pieced
    <3>4. ASSUME Opens(w) PROVE block # <<>> /\ Starts(w, d, block[1])
      <4>1. 1 \in 1 .. k /\ 1 - 1 = 0
        BY <3>0, <3>4
      <4>2. Len(pieces[1]) >= 1 /\ Starts(w, d, pieces[1][1]) /\ Len(pieces[1]) \in Nat
        <5>1. pieces[1] \in Seq(LineSet)
          BY <3>2, <4>1
        <5> QED BY <3>2, <4>1, <5>1
      <4>3. /\ ends[0] = 0 /\ ends[1] = ends[0] + Len(pieces[1])
            /\ \A j \in 1 .. Len(pieces[1]) : block[ends[0] + j] = pieces[1][j]
        BY <3>2, <4>1 DEF Pieced, Ends
      <4>4. block[1] = pieces[1][1]
        <5>1. 1 \in 1 .. Len(pieces[1]) /\ 0 + 1 = 1
          BY <4>2
        <5> QED BY <4>3, <5>1
      <4>5. ends[1] <= ends[k]
        <5>1. Ends(pieces, ends) /\ 1 \in 0 .. Len(pieces)
          BY <3>2, <4>1 DEF Pieced
        <5> QED BY <3>2, <5>1, EndsGrow
      <4>6. Len(block) = ends[k] /\ ends[k] \in Nat /\ ends[1] \in Nat
        <5>1. k \in 0 .. k /\ 1 \in 0 .. k
          BY <4>1
        <5> QED BY <3>2, <5>1 DEF Pieced, Ends
      <4>7. Len(block) >= 1
        BY <4>2, <4>3, <4>5, <4>6
      <4> QED BY <3>3, <4>2, <4>4, <4>7
    <3> QED BY <3>3, <3>4
  <2>2. Typed(w)
    BY <2>1 DEF Typed
  <2> QED BY <2>2
<1> HIDE DEF G
<1>2. \A w \in Containers : w \in G
  BY <1>1, ByNesting
<1> QED BY <1>2 DEF G

-----------------------------------------------------------------------------
(***************************************************************************)
(* A map or a list is read where it was written                            *)
(***************************************************************************)
\* The first line of an item's map, without its dash.
Seen(lines, c) == IF c.of = "map" /\ c.spliced
                  THEN [lines[c.at] EXCEPT !.indent = c.indent, !.item = FALSE] ELSE lines[c.at]

\* The block is what a call has before it.
Stands(lines, c, block) ==
    /\ c.at + Len(block) <= Len(lines) + 1
    /\ \A j \in 1 .. Len(block) :
          block[j] = IF j = 1 THEN Seen(lines, c) ELSE lines[c.at + (j - 1)]

\* Nothing at next belongs to what of stands at indent.
Ended(lines, next, indent, of) ==
    \/ next > Len(lines)
    \/ lines[next].indent < indent
    \/ of = "list" /\ lines[next].indent = indent /\ ~lines[next].item

ReadsAt(w, lines, c, d) ==
    LET block == Lines[<<w, d>>] next == c.at + Len(block) IN
    /\ c.of = w.type /\ c.indent = 2 * d /\ Nesting[w] <= c.depth + 1
    /\ Stands(lines, c, block) /\ Ended(lines, next, c.indent, c.of)
    => Reader(lines)[c] = Read(w, next)

Reads(w) == \A lines \in Seq(LineSet) : \A c \in Calls(lines), d \in Nat : ReadsAt(w, lines, c, d)

\* What is quoted, or a word the parser knows, is read as it was.
LEMMA ScalarReads ==
    ASSUME NEW v \in Values, ~Opens(v), NEW next
    PROVE  /\ v.type \in {"str", "bare"} => ParseScalar(Scalar(v), next) = Read(v, next)
           /\ v.type \in {"str", "bare"} => Scalar(v) \notin {Nothing, Bare("[]"), Bare("{}")}
           /\ v.type = "map" => Scalar(v) = Bare("{}") /\ v = Map(<<>>)
           /\ v.type = "list" => Scalar(v) = Bare("[]") /\ v = List(<<>>)
           /\ v.type \in {"str", "bare", "map", "list"}
<1>1. Writable(v)
  BY ValuesAssumption
<1>2. CASE v.type = "str"
  <2>1. v = Str(v.chars) /\ v.chars \in Seq(STRING)
    BY <1>1, <1>2 DEF Writable
  <2>2. Scalar(v) = [type |-> "quoted", chars |-> Quote(v.chars)]
    BY <1>2 DEF Scalar
  <2>3. Unescape(Quote(v.chars)) = <<v.chars>>
    BY <2>1, StringsSurvive
  <2>4. <<v.chars>> # <<>> /\ <<v.chars>>[1] = v.chars
    OBVIOUS
  <2>5. Scalar(v).type = "quoted" /\ Scalar(v).chars = Quote(v.chars)
    BY <2>2
  <2>6. ParseScalar(Scalar(v), next) = Read(Str(v.chars), next)
    <3>1. PICK s : s = Unescape(Scalar(v).chars)
      OBVIOUS
    <3>2. s # <<>> /\ s[1] = v.chars
      BY <2>3, <2>4, <2>5, <3>1
    <3> QED BY <2>5, <3>1, <3>2 DEF ParseScalar
  <2>7. Scalar(v) \notin {Nothing, Bare("[]"), Bare("{}")}
    <3>1. Nothing.type = "bare" /\ Bare("[]").type = "bare" /\ Bare("{}").type = "bare"
      BY DEF Nothing, Bare
    <3>2. "bare" # "quoted"
      OBVIOUS
    <3> QED BY <2>5, <3>1, <3>2
  <2> QED BY <1>2, <2>1, <2>6, <2>7
<1>3. CASE v.type = "bare"
  <2>1. v = Bare(v.word) /\ v \notin {Nothing, Bare("[]"), Bare("{}")}
    BY <1>1, <1>3 DEF Writable
  <2>2. Scalar(v) = v
    BY <1>3 DEF Scalar
  <2>3. ParseScalar(v, next) = Read(v, next)
    BY <1>3 DEF ParseScalar
  <2> QED BY <1>3, <2>1, <2>2, <2>3
<1>4. CASE v.type = "map"
  <2>1. v = Map(v.pairs) /\ v.pairs = <<>>
    BY <1>1, <1>4 DEF Writable, Opens
  <2> QED BY <1>4, <2>1 DEF Scalar
<1>5. CASE v.type = "list"
  <2>1. v = List(v.items) /\ v.items = <<>>
    BY <1>1, <1>5 DEF Writable, Opens
  <2> QED BY <1>5, <2>1 DEF Scalar
<1> QED BY <1>1, <1>2, <1>3, <1>4, <1>5 DEF Writable

\* What opens has something in it.
LEMMA OpensNests ==
    ASSUME NEW v \in Values, Opens(v)
    PROVE  /\ v \in Containers /\ Nesting[v] \in Nat /\ Nesting[v] >= 1
           /\ \A d \in Nat : /\ Lines[<<v, d>>] \in Seq(LineSet) /\ Lines[<<v, d>>] # <<>>
                             /\ Starts(v, d, Lines[<<v, d>>][1])
<1>1. v \in Containers
  BY DEF Opens, Containers
<1>2. PICK n \in Nat : n = Nesting[v]
  BY <1>1, EntriesOK
<1>3. 1 \in 1 .. Len(Entries(v))
  BY <1>1, EntriesOK
<1>4. PICK m \in Nat : m = Nesting[Nested(v, 1)] /\ m < n
  BY <1>1, <1>2, <1>3, EntriesOK
<1>5. n >= 1
  BY <1>4
<1>6. Typed(v)
  BY <1>1, LinesTyped
<1> QED BY <1>1, <1>2, <1>5, <1>6 DEF Typed

\* The value of a map's entry.
LEMMA ValueReads ==
    ASSUME NEW lines \in Seq(LineSet), NEW c \in Calls(lines), NEW d \in Nat, c.indent = 2 * d,
           NEW k, NEW v \in Values, Opens(v) => Reads(v) /\ Nesting[v] <= c.depth,
           Stands(lines, c, MapPiece(k, v, d)),
           NEW next, next = c.at + Len(MapPiece(k, v, d)),
           Ended(lines, next, 2 * d, "list")
    PROVE  LET l == MapPiece(k, v, d)[1] IN
           /\ Value(lines, c, l.rest, Reader(lines)) = Read(v, next)
           /\ l.key = k /\ ~l.item /\ l.indent = 2 * d
<1> DEFINE R == Reader(lines)
<1>1. PICK n \in Nat : n = Len(lines)
  OBVIOUS
<1>2. PICK at \in 1 .. n + 1 : at = c.at
  BY <1>1 DEF Calls
<1>3. c.depth \in Int /\ 2 * d \in Nat
  BY DEF Calls
<1>4. CASE ~Opens(v)
  <2>1. PICK l : l = Line(2 * d, FALSE, k, Scalar(v))
    OBVIOUS
  <2>2. MapPiece(k, v, d) = <<l>>
    BY <1>4, <2>1 DEF MapPiece
  <2>3. l.rest = Scalar(v) /\ l.key = k /\ ~l.item /\ l.indent = 2 * d
    BY <2>1 DEF Line
  <2>4. Len(<<l>>) = 1 /\ <<l>>[1] = l
    OBVIOUS
  <2>5. next = c.at + 1
    BY <2>2, <2>4
  <2>6. Value(lines, c, Scalar(v), R) = Read(v, next)
    <3>1. CASE v.type \in {"str", "bare"}
      <4>1. /\ ParseScalar(Scalar(v), next) = Read(v, next)
            /\ Scalar(v) \notin {Nothing, Bare("[]"), Bare("{}")}
        BY <1>4, <3>1, ScalarReads
      <4>2. Value(lines, c, Scalar(v), R) = ParseScalar(Scalar(v), c.at + 1)
        BY <4>1 DEF Value
      <4> QED BY <2>5, <4>1, <4>2
    <3>2. CASE v.type = "map"
      <4>1. Scalar(v) = Bare("{}") /\ v = Map(<<>>)
        BY <1>4, <3>2, ScalarReads
      <4>2. Bare("{}") # Nothing /\ Bare("{}") # Bare("[]")
        BY DEF Bare, Nothing
      <4> QED BY <2>5, <4>1, <4>2 DEF Value
    <3>3. CASE v.type = "list"
      <4>1. Scalar(v) = Bare("[]") /\ v = List(<<>>)
        BY <1>4, <3>3, ScalarReads
      <4>2. Bare("[]") # Nothing
        BY DEF Bare, Nothing
      <4> QED BY <2>5, <4>1, <4>2 DEF Value
    <3> QED BY <1>4, <3>1, <3>2, <3>3, ScalarReads
  <2> QED BY <2>2, <2>3, <2>4, <2>6
<1>5. CASE Opens(v)
  <2>1. /\ v \in Containers /\ Nesting[v] \in Nat /\ Nesting[v] >= 1
        /\ \A e \in Nat : /\ Lines[<<v, e>>] \in Seq(LineSet) /\ Lines[<<v, e>>] # <<>>
                          /\ Starts(v, e, Lines[<<v, e>>][1])
    BY <1>5, OpensNests
  <2>2. v.type \in {"map", "list"}
    BY <2>1 DEF Containers
  <2>3. PICK e \in Nat : e = IF v.type = "map" THEN d + 1 ELSE d
    OBVIOUS
  <2>4. PICK inner \in Seq(LineSet) : /\ inner = Lines[<<v, e>>] /\ inner # <<>>
                                      /\ Starts(v, e, inner[1])
    BY <2>1
  <2>5. PICK l : l = Line(2 * d, FALSE, k, Nothing)
    OBVIOUS
  <2>6. l.rest = Nothing /\ l.key = k /\ ~l.item /\ l.indent = 2 * d
    BY <2>5 DEF Line
  <2>7. PICK piece : piece = MapPiece(k, v, d) /\ piece = <<l>> \o inner
    BY <1>5, <2>3, <2>4, <2>5 DEF MapPiece
  <2>8. PICK m \in Nat : m = Len(inner) /\ m >= 1
    <3>1. inner # <<>>
      BY <2>4
    <3>2. Len(inner) \in Nat \ {0}
      BY <3>1, EmptySeq
    <3>3. PICK m \in Nat \ {0} : m = Len(inner)
      BY <3>2
    <3>4. m \in Nat /\ m >= 1
      OBVIOUS
    <3> QED BY <3>3, <3>4
  <2>9. Len(piece) = m + 1 /\ piece[1] = l /\ \A j \in 1 .. m : piece[j + 1] = inner[j]
    <3>1. l \in {l} \cup LineSet /\ inner \in Seq({l} \cup LineSet)
      BY <2>4
    <3>2. <<l>> \in Seq({l} \cup LineSet) /\ Len(<<l>>) = 1 /\ <<l>>[1] = l
      OBVIOUS
    <3>3. /\ Len(piece) = 1 + m
          /\ \A i \in 1 .. 1 + m : piece[i] = IF i <= 1 THEN <<l>>[i] ELSE inner[i - 1]
      BY <2>7, <2>8, <3>1, <3>2, ConcatProperties
    <3>4. \A j \in 1 .. m : j + 1 \in 1 .. 1 + m /\ ~(j + 1 <= 1) /\ (j + 1) - 1 = j
      OBVIOUS
    <3>5. piece[1] = <<l>>[1]
      BY <3>3
    <3> QED BY <3>2, <3>3, <3>4, <3>5
  <2>10. next = at + 1 + m /\ at + 1 + m <= n + 1
    <3>1. next = at + (m + 1) /\ at + (m + 1) = at + 1 + m
      BY <1>2, <2>7, <2>9
    <3>2. at + (m + 1) <= n + 1
      BY <1>1, <1>2, <2>7, <2>9 DEF Stands
    <3> QED BY <3>1, <3>2
  <2>11. \A j \in 1 .. m : inner[j] = lines[at + j]
    <3>1. ASSUME NEW j \in 1 .. m PROVE inner[j] = lines[at + j]
      <4>1. j + 1 \in 1 .. m + 1 /\ j + 1 # 1 /\ at + ((j + 1) - 1) = at + j
        OBVIOUS
      <4>2. piece[j + 1] = lines[c.at + ((j + 1) - 1)]
        BY <2>7, <2>9, <4>1 DEF Stands
      <4> QED BY <1>2, <2>9, <4>1, <4>2
    <3> QED BY <3>1
  <2>12. PICK f \in LineSet : f = lines[at + 1] /\ f = inner[1] /\ Starts(v, e, f)
    <3>1. 1 \in 1 .. m
      BY <2>8
    <3>2. inner[1] = lines[at + 1]
      BY <2>11, <3>1
    <3> QED BY <2>4, <3>2 DEF Starts
  <2>13. at + 1 \in 1 .. n + 1 /\ ~(at + 1 > n)
    BY <2>8, <2>10
  <2>14. PICK b : b = Call(v.type, at + 1, 2 * e, c.depth - 1, FALSE)
    OBVIOUS
  <2>15. /\ b \in Calls(lines) /\ b.of = v.type /\ b.at = at + 1 /\ b.indent = 2 * e
         /\ b.depth = c.depth - 1 /\ ~b.spliced
    <3>1. 2 * e \in Nat /\ c.depth - 1 \in Int
      BY <1>3
    <3> QED BY <1>1, <2>2, <2>13, <2>14, <3>1 DEF Call, Calls
  <2>16. Value(lines, c, Nothing, R) = R[b]
    <3> HIDE DEF R
    <3>1. CASE v.type = "list"
      <4>1. f.item /\ f.indent = c.indent /\ 2 * e = c.indent
        BY <2>3, <2>12, <3>1 DEF Starts
      <4>2. Value(lines, c, Nothing, R) = R[Call("list", at + 1, c.indent, c.depth - 1, FALSE)]
        BY <1>1, <1>2, <2>12, <2>13, <4>1 DEF Value
      <4> QED BY <2>14, <3>1, <4>1, <4>2
    <3>2. CASE v.type = "map"
      <4>1. ~f.item /\ f.indent = 2 * e /\ f.indent > c.indent
        BY <2>3, <2>12, <3>2 DEF Starts
      <4>2. Value(lines, c, Nothing, R) = Block(lines, at + 1, c.depth - 1, R)
        BY <1>1, <1>2, <2>12, <2>13, <4>1 DEF Value
      <4>3. ~(c.depth - 1 < 0)
        BY <1>3, <1>5, <2>1
      <4>4. Block(lines, at + 1, c.depth - 1, R) =
              R[Call("map", at + 1, f.indent, c.depth - 1, FALSE)]
        BY <2>12, <4>1, <4>3 DEF Block
      <4> QED BY <2>14, <3>2, <4>1, <4>2, <4>4
    <3> QED BY <2>2, <3>1, <3>2
  <2>17. R[b] = Read(v, next)
    <3> HIDE DEF R
    <3>1. b.at + Len(inner) = next
      BY <2>8, <2>10, <2>15
    <3>2. Nesting[v] <= b.depth + 1
      BY <1>3, <1>5, <2>1, <2>15
    <3>3. Stands(lines, b, inner)
      <4>1. Seen(lines, b) = lines[at + 1]
        BY <2>15 DEF Seen
      <4>2. \A j \in 1 .. m : inner[j] = IF j = 1 THEN Seen(lines, b) ELSE lines[b.at + (j - 1)]
        <5>1. ASSUME NEW j \in 1 .. m
              PROVE  inner[j] = IF j = 1 THEN Seen(lines, b) ELSE lines[b.at + (j - 1)]
          <6>1. (at + 1) + (j - 1) = at + j
            OBVIOUS
          <6> QED BY <2>11, <2>15, <4>1, <6>1
        <5> QED BY <5>1
      <4>3. b.at + m <= n + 1
        BY <2>10, <2>15
      <4> QED BY <1>1, <2>8, <4>2, <4>3 DEF Stands
    <3>4. Ended(lines, next, b.indent, b.of)
      <4>1. CASE next > n
        BY <1>1, <4>1 DEF Ended
      <4>2. CASE ~(next > n)
        <5>1. next \in 1 .. n
          BY <2>10, <4>2
        <5>2. PICK x \in LineSet : x = lines[next]
          BY <1>1, <5>1
        <5>3. x.indent < 2 * d \/ (x.indent = 2 * d /\ ~x.item)
          BY <1>1, <4>2, <5>2 DEF Ended
        <5>4. x.indent \in Nat
          BY DEF LineSet
        <5>5. CASE v.type = "map"
          <6>1. x.indent < 2 * e
            BY <2>3, <5>3, <5>4, <5>5
          <6> QED BY <2>15, <5>2, <6>1 DEF Ended
        <5>6. CASE v.type = "list"
          BY <2>3, <2>15, <5>2, <5>3, <5>6 DEF Ended
        <5> QED BY <2>2, <5>5, <5>6
      <4> QED BY <4>1, <4>2
    <3>5. ReadsAt(v, lines, b, e)
      BY <1>5, <2>15 DEF Reads
    <3> QED BY <2>4, <2>15, <3>1, <3>2, <3>3, <3>4, <3>5 DEF ReadsAt, R
  <2> HIDE DEF R
  <2> QED BY <2>6, <2>7, <2>9, <2>16, <2>17 DEF R
<1> QED BY <1>4, <1>5

\* The call for the entries from next on.
Onward(c, next) == Call(c.of, next, c.indent, c.depth, FALSE)

\* An entry of a map stands before c, and what follows it is read from next on.
MapEntry(lines, c, d, k, v, next, rest, end, whole) ==
    /\ c.of = "map" /\ c.indent = 2 * d /\ k # NoKey
    /\ Opens(v) => Reads(v) /\ Nesting[v] <= c.depth
    /\ Stands(lines, c, MapPiece(k, v, d)) /\ Len(MapPiece(k, v, d)) \in Nat \ {0}
    /\ next = c.at + Len(MapPiece(k, v, d)) /\ Ended(lines, next, 2 * d, "list")
    /\ Reader(lines)[Onward(c, next)] = Read(Map(rest), end)
    /\ whole = << <<k, v>> >> \o rest

LEMMA MapEntryReads ==
    ASSUME NEW lines \in Seq(LineSet), NEW c \in Calls(lines), NEW d \in Nat,
           NEW k \in STRING, NEW v \in Values, NEW next, NEW rest, NEW end, NEW whole,
           MapEntry(lines, c, d, k, v, next, rest, end, whole)
    PROVE  Reader(lines)[c] = Read(Map(whole), end)
<1>0. /\ c.of = "map" /\ c.indent = 2 * d /\ k # NoKey
      /\ Opens(v) => Reads(v) /\ Nesting[v] <= c.depth
      /\ Stands(lines, c, MapPiece(k, v, d)) /\ Len(MapPiece(k, v, d)) \in Nat \ {0}
      /\ next = c.at + Len(MapPiece(k, v, d)) /\ Ended(lines, next, 2 * d, "list")
      /\ Reader(lines)[Onward(c, next)] = Read(Map(rest), end)
      /\ whole = << <<k, v>> >> \o rest
  BY DEF MapEntry
<1> USE <1>0
<1> DEFINE R == Reader(lines)
<1>1. PICK l : l = MapPiece(k, v, d)[1]
  OBVIOUS
<1>2. /\ Value(lines, c, l.rest, R) = Read(v, next)
      /\ l.key = k /\ ~l.item /\ l.indent = 2 * d
  BY <1>1, ValueReads
<1>3. l = IF c.spliced THEN [lines[c.at] EXCEPT !.indent = c.indent, !.item = FALSE]
          ELSE lines[c.at]
  <2>1. 1 \in 1 .. Len(MapPiece(k, v, d))
    OBVIOUS
  <2>2. l = Seen(lines, c)
    BY <1>1, <2>1 DEF Stands
  <2> QED BY <2>2 DEF Seen
<1>4. ~(c.at > Len(lines))
  <2>1. PICK n \in Nat, at \in Nat : n = Len(lines) /\ at = c.at
    BY DEF Calls
  <2>2. PICK m \in Nat : m = Len(MapPiece(k, v, d)) /\ m >= 1
    OBVIOUS
  <2>3. at + m <= n + 1
    BY <2>1, <2>2 DEF Stands
  <2> QED BY <2>1, <2>2, <2>3
<1>5. R[c] = ReadMap(lines, c, R)
  <2>1. R[c] = ReadBy(lines, c, R)
    BY ReaderIs
  <2> QED BY <2>1 DEF ReadBy
<1> DEFINE value == Value(lines, c, l.rest, R)
           others == R[Call("map", value.next, c.indent, c.depth, FALSE)]
<1>6. value.ok /\ value.v = v /\ value.next = next
  BY <1>2 DEF Read
<1>7. others = Read(Map(rest), end)
  BY <1>6 DEF Onward
<1>8. others.ok /\ others.v.pairs = rest /\ others.next = end
  BY <1>7 DEF Read, Map
<1> HIDE DEF R
<1>9. ReadMap(lines, c, R) =
        IF c.at > Len(lines) \/ l.indent # c.indent \/ l.item THEN Read(Map(<<>>), c.at)
        ELSE IF l.key = NoKey \/ ~value.ok \/ ~others.ok THEN Malformed
        ELSE Read(Map(<< <<l.key, value.v>> >> \o others.v.pairs), others.next)
  BY <1>3 DEF ReadMap
<1> HIDE DEF value, others
<1>10. ReadMap(lines, c, R) = Read(Map(<< <<l.key, value.v>> >> \o others.v.pairs), others.next)
  BY <1>2, <1>4, <1>6, <1>8, <1>9
<1>11. ReadMap(lines, c, R) = Read(Map(whole), end)
  BY <1>2, <1>6, <1>8, <1>10
<1> QED BY <1>5, <1>11 DEF R

\* The same of an item of a list.
ListEntry(lines, c, d, v, next, rest, end, whole) ==
    /\ c.of = "list" /\ c.indent = 2 * d /\ v.type # "list" /\ v # Map(<<>>)
    /\ Opens(v) => Reads(v) /\ Nesting[v] <= c.depth
    /\ Stands(lines, c, ListPiece(v, d)) /\ Len(ListPiece(v, d)) \in Nat \ {0}
    /\ next = c.at + Len(ListPiece(v, d))
    /\ next > Len(lines) \/ lines[next].indent <= 2 * d
    /\ Reader(lines)[Onward(c, next)] = Read(List(rest), end)
    /\ whole = <<v>> \o rest

LEMMA ListEntryReads ==
    ASSUME NEW lines \in Seq(LineSet), NEW c \in Calls(lines), NEW d \in Nat,
           NEW v \in Values, NEW next, NEW rest, NEW end, NEW whole,
           ListEntry(lines, c, d, v, next, rest, end, whole)
    PROVE  Reader(lines)[c] = Read(List(whole), end)
<1>a. /\ c.of = "list" /\ c.indent = 2 * d /\ v.type # "list" /\ v # Map(<<>>)
      /\ Opens(v) => Reads(v) /\ Nesting[v] <= c.depth
      /\ Stands(lines, c, ListPiece(v, d)) /\ Len(ListPiece(v, d)) \in Nat \ {0}
      /\ next = c.at + Len(ListPiece(v, d))
      /\ next > Len(lines) \/ lines[next].indent <= 2 * d
      /\ Reader(lines)[Onward(c, next)] = Read(List(rest), end)
      /\ whole = <<v>> \o rest
  BY DEF ListEntry
<1> USE <1>a
<1> DEFINE R == Reader(lines)
<1>0. PICK n \in Nat : n = Len(lines)
  OBVIOUS
<1>1. PICK l : l = lines[c.at]
  OBVIOUS
<1>2. l = ListPiece(v, d)[1]
  <2>1. 1 \in 1 .. Len(ListPiece(v, d))
    OBVIOUS
  <2>2. ListPiece(v, d)[1] = Seen(lines, c)
    BY <2>1 DEF Stands
  <2> QED BY <1>1, <2>2 DEF Seen
<1>3. PICK at \in 1 .. n : at = c.at
  <2>1. PICK at \in Nat : at = c.at /\ at >= 1
    BY DEF Calls
  <2>2. PICK m \in Nat : m = Len(ListPiece(v, d)) /\ m >= 1
    OBVIOUS
  <2>3. at + m <= n + 1
    BY <1>0, <2>1, <2>2 DEF Stands
  <2> QED BY <2>1, <2>2, <2>3
<1>4. R[c] = ReadList(lines, c, R)
  <2>1. R[c] = ReadBy(lines, c, R)
    BY ReaderIs
  <2> QED BY <2>1 DEF ReadBy
<1>5. /\ l.indent = c.indent /\ l.item
      /\ Read(v, next) = IF l.key # NoKey
                         THEN R[Call("map", c.at, c.indent + 2, c.depth - 1, TRUE)]
                         ELSE ParseScalar(l.rest, c.at + 1)
  <2>1. CASE ~Opens(v)
    <3>1. PICK x : x = Line(2 * d, TRUE, NoKey, Scalar(v))
      OBVIOUS
    <3>2. x.rest = Scalar(v) /\ x.key = NoKey /\ x.item /\ x.indent = 2 * d
      BY <3>1 DEF Line
    <3>3. ListPiece(v, d) = <<x>> /\ <<x>>[1] = x /\ Len(<<x>>) = 1
      BY <2>1, <3>1 DEF ListPiece
    <3>4. l = x /\ next = c.at + 1
      BY <1>2, <3>3
    <3>5. v.type \in {"str", "bare"} /\ ParseScalar(Scalar(v), next) = Read(v, next)
      BY <2>1, ScalarReads
    <3> QED BY <3>2, <3>4, <3>5
  <2>2. CASE Opens(v)
    <3>1. /\ v \in Containers /\ Nesting[v] \in Nat /\ Nesting[v] >= 1
          /\ \A e \in Nat : /\ Lines[<<v, e>>] \in Seq(LineSet) /\ Lines[<<v, e>>] # <<>>
                            /\ Starts(v, e, Lines[<<v, e>>][1])
      BY <2>2, OpensNests
    <3>2. v.type = "map"
      BY <3>1 DEF Containers
    <3>3. PICK inner \in Seq(LineSet) : /\ inner = Lines[<<v, d + 1>>] /\ inner # <<>>
                                        /\ Starts(v, d + 1, inner[1])
      BY <3>1
    <3>4. PICK m \in Nat : m = Len(inner) /\ m >= 1
      <4>1. inner # <<>>
        BY <3>3
      <4>2. Len(inner) \in Nat \ {0}
        BY <4>1, EmptySeq
      <4>3. PICK m \in Nat \ {0} : m = Len(inner)
        BY <4>2
      <4>4. m \in Nat /\ m >= 1
        OBVIOUS
      <4> QED BY <4>3, <4>4
    <3>5. PICK h \in LineSet : h = inner[1] /\ ~h.item /\ h.indent = 2 * d + 2 /\ h.key # NoKey
      BY <3>2, <3>3 DEF Starts
    <3>6. h = [indent |-> 2 * d + 2, item |-> FALSE, key |-> h.key, rest |-> h.rest]
      BY <3>5 DEF LineSet
    <3>7. PICK x : x = [h EXCEPT !.indent = 2 * d, !.item = TRUE]
      OBVIOUS
    <3>8. x = [indent |-> 2 * d, item |-> TRUE, key |-> h.key, rest |-> h.rest]
      BY <3>7 DEF LineSet
    <3>9. x.indent = 2 * d /\ x.item /\ x.key # NoKey
      BY <3>5, <3>8
    <3>10. PICK piece : piece = ListPiece(v, d) /\ piece = <<x>> \o Tail(inner)
      BY <2>2, <3>3, <3>5, <3>7 DEF ListPiece
    <3>11. Len(piece) = m /\ piece[1] = x /\ \A j \in 2 .. m : piece[j] = inner[j]
      <4>1. Tail(inner) \in Seq({x} \cup LineSet) /\ Len(Tail(inner)) = m - 1
        BY <3>3, <3>4
      <4>2. <<x>> \in Seq({x} \cup LineSet) /\ Len(<<x>>) = 1 /\ <<x>>[1] = x
        OBVIOUS
      <4>3. /\ Len(piece) = 1 + (m - 1)
            /\ \A j \in 1 .. 1 + (m - 1) :
                  piece[j] = IF j <= 1 THEN <<x>>[j] ELSE Tail(inner)[j - 1]
        BY <3>10, <4>1, <4>2, ConcatProperties
      <4>4. ASSUME NEW j \in 2 .. m PROVE piece[j] = inner[j]
        <5>1. j \in 1 .. 1 + (m - 1) /\ ~(j <= 1) /\ j - 1 \in 1 .. m - 1 /\ (j - 1) + 1 = j
          BY <3>4
        <5>2. Tail(inner)[j - 1] = inner[(j - 1) + 1]
          BY <3>4, <5>1
        <5> QED BY <4>3, <5>1, <5>2
      <4>5. piece[1] = x
        BY <3>4, <4>2, <4>3
      <4>6. Len(piece) = m
        BY <3>4, <4>3
      <4> QED BY <4>4, <4>5, <4>6
    <3>12. l = x
      BY <1>2, <3>10, <3>11
    <3>13. next = at + m /\ at + m <= n + 1
      <4>1. next = at + m
        BY <1>3, <3>10, <3>11
      <4>2. at + m <= n + 1
        BY <1>0, <1>3, <3>10, <3>11 DEF Stands
      <4> QED BY <4>1, <4>2
    <3>14. PICK b : b = Call("map", c.at, c.indent + 2, c.depth - 1, TRUE)
      OBVIOUS
    <3>15. /\ b \in Calls(lines) /\ b.of = "map" /\ b.at = at /\ b.indent = 2 * d + 2
           /\ b.depth = c.depth - 1 /\ b.spliced
      <4>1. c.indent + 2 \in Nat /\ c.depth - 1 \in Int /\ at \in 1 .. n + 1
        BY DEF Calls
      <4> QED BY <1>0, <1>3, <3>14, <4>1 DEF Call, Calls
    <3>16. Stands(lines, b, inner)
      <4>1. Seen(lines, b) = h
        <5>1. Seen(lines, b) = [x EXCEPT !.indent = 2 * d + 2, !.item = FALSE]
          BY <1>1, <1>3, <3>12, <3>15 DEF Seen
        <5>2. PICK y \in LineSet : y = x /\ y.key = h.key /\ y.rest = h.rest
          <6>1. h.key \in STRING \cup {NoKey} /\ h.rest \in RestSet /\ 2 * d \in Nat
            BY DEF LineSet
          <6>2. x \in LineSet
            BY <3>8, <6>1 DEF LineSet
          <6> QED BY <3>8, <6>2
        <5>3. PICK z : z = [y EXCEPT !.indent = 2 * d + 2, !.item = FALSE]
          OBVIOUS
        <5>4. z = [indent |-> 2 * d + 2, item |-> FALSE, key |-> y.key, rest |-> y.rest]
          BY <5>3 DEF LineSet
        <5> QED BY <3>6, <5>1, <5>2, <5>3, <5>4
      <4>2. ASSUME NEW j \in 1 .. m
            PROVE  inner[j] = IF j = 1 THEN Seen(lines, b) ELSE lines[b.at + (j - 1)]
        <5>1. CASE j = 1
          BY <3>5, <4>1, <5>1
        <5>2. CASE j # 1
          <6>1. j \in 2 .. m
            BY <5>2
          <6>2. piece[j] = lines[c.at + (j - 1)]
            BY <3>10, <3>11, <5>2 DEF Stands
          <6> QED BY <1>3, <3>11, <3>15, <5>2, <6>1, <6>2
        <5> QED BY <5>1, <5>2
      <4>3. b.at + m <= n + 1
        BY <3>13, <3>15
      <4> QED BY <1>0, <3>4, <4>2, <4>3 DEF Stands
    <3>17. Ended(lines, next, b.indent, b.of)
      <4>1. CASE next > n
        BY <1>0, <4>1 DEF Ended
      <4>2. CASE ~(next > n)
        <5>1. next \in 1 .. n
          BY <1>3, <3>13, <4>2
        <5>2. PICK y \in LineSet : y = lines[next]
          BY <1>0, <5>1
        <5>3. y.indent \in Nat /\ y.indent <= 2 * d
          BY <1>0, <4>2, <5>2 DEF LineSet
        <5>4. y.indent < 2 * d + 2
          BY <5>3
        <5> QED BY <3>15, <5>2, <5>4 DEF Ended
      <4> QED BY <4>1, <4>2
    <3>18. R[b] = Read(v, next)
      <4>1. ReadsAt(v, lines, b, d + 1)
        BY <2>2, <3>15 DEF Reads
      <4>2. Nesting[v] <= b.depth + 1
        BY <2>2, <3>1, <3>15 DEF Calls
      <4>3. b.at + Len(inner) = next /\ b.indent = 2 * (d + 1)
        BY <3>4, <3>13, <3>15
      <4> HIDE DEF R
      <4> QED BY <3>2, <3>3, <3>15, <3>16, <3>17, <4>1, <4>2, <4>3 DEF ReadsAt, R
    <3> HIDE DEF R
    <3> QED BY <3>9, <3>12, <3>14, <3>18
  <2> QED BY <2>1, <2>2
<1> DEFINE value == IF l.key # NoKey
                    THEN R[Call("map", c.at, c.indent + 2, c.depth - 1, TRUE)]
                    ELSE ParseScalar(l.rest, c.at + 1)
           others == R[Call("list", value.next, c.indent, c.depth, FALSE)]
<1>6. value.ok /\ value.v = v /\ value.next = next
  <2>1. value = Read(v, next)
    <3> HIDE DEF R
    <3> QED BY <1>5
  <2> HIDE DEF value
  <2> QED BY <2>1 DEF Read
<1>7. others = Read(List(rest), end)
  <2> HIDE DEF value
  <2> QED BY <1>6 DEF Onward
<1>8. others.ok /\ others.v.items = rest /\ others.next = end
  <2> HIDE DEF others
  <2> QED BY <1>7 DEF Read, List
<1> HIDE DEF R
<1>9. ReadList(lines, c, R) =
        IF c.at > Len(lines) \/ l.indent # c.indent \/ ~l.item THEN Read(List(<<>>), c.at)
        ELSE IF ~value.ok \/ ~others.ok THEN Malformed
        ELSE Read(List(<<value.v>> \o others.v.items), others.next)
  BY <1>1 DEF ReadList
<1> HIDE DEF value, others
<1>10. ~(c.at > Len(lines)) /\ l.indent = c.indent /\ l.item
  BY <1>0, <1>3, <1>5
<1>11. ReadList(lines, c, R) = Read(List(<<value.v>> \o others.v.items), others.next)
  BY <1>6, <1>8, <1>9, <1>10
<1>12. ReadList(lines, c, R) = Read(List(whole), end)
  BY <1>6, <1>8, <1>11
<1> QED BY <1>4, <1>12 DEF R

-----------------------------------------------------------------------------
\* The calls that read a block's entries one after the other.
Steps(lines, c, ends, k, cs) ==
    /\ cs \in [1 .. k + 1 -> Calls(lines)] /\ cs[1] = c
    /\ \A i \in 2 .. k + 1 : cs[i] = Onward(c, c.at + ends[i - 1])

\* Each of these calls has its entry before it, and then the next one.
Standing(lines, c, pieces, ends, k, cs, i) ==
    /\ cs[i].of = c.of /\ cs[i].indent = c.indent /\ cs[i].depth = c.depth
    /\ Stands(lines, cs[i], pieces[i])
    /\ cs[i].at + Len(pieces[i]) = c.at + ends[i]
    /\ cs[i + 1] = Onward(c, c.at + ends[i])
    /\ i < k => lines[c.at + ends[i]] = pieces[i + 1][1] /\ c.at + ends[i] <= Len(lines)

LEMMA StepsStand ==
    ASSUME NEW lines \in Seq(LineSet), NEW c \in Calls(lines), NEW block, Stands(lines, c, block),
           NEW k \in Nat, k >= 1, NEW pieces \in Seq(Seq(LineSet)), Len(pieces) = k,
           \A i \in 1 .. k : Len(pieces[i]) >= 1, NEW ends, Pieced(LineSet, pieces, ends, block)
    PROVE  \E cs : /\ Steps(lines, c, ends, k, cs)
                   /\ \A i \in 1 .. k : Standing(lines, c, pieces, ends, k, cs, i)
<1>1. PICK n \in Nat : n = Len(lines)
  OBVIOUS
<1>2. PICK at \in 1 .. n + 1 : at = c.at
  BY <1>1 DEF Calls
<1>3. /\ ends \in [0 .. k -> Nat] /\ ends[0] = 0
      /\ \A i \in 1 .. k : ends[i] = ends[i - 1] + Len(pieces[i])
      /\ Ends(pieces, ends) /\ Len(block) = ends[k]
      /\ \A i \in 1 .. k : \A j \in 1 .. Len(pieces[i]) : block[ends[i - 1] + j] = pieces[i][j]
  BY DEF Pieced, Ends
<1>4. \A i \in 1 .. k : Len(pieces[i]) \in Nat \ {0}
  <2>1. \A i \in 1 .. k : pieces[i] \in Seq(LineSet)
    OBVIOUS
  <2>2. \A i \in 1 .. k : Len(pieces[i]) \in Nat
    BY <2>1
  <2> QED BY <2>2
<1>5. \A i \in 0 .. k : ends[i] <= ends[k] /\ ends[i] \in Nat
  BY <1>3, EndsGrow
<1>6. PICK all \in Nat : all = ends[k] /\ at + all <= n + 1
  <2>1. ends[k] \in Nat
    BY <1>5
  <2>2. at + ends[k] <= n + 1
    BY <1>1, <1>2, <1>3 DEF Stands
  <2> QED BY <2>1, <2>2
<1> DEFINE cs == [i \in 1 .. k + 1 |->
                    IF i = 1 THEN c ELSE Onward(c, c.at + ends[i - 1])]
<1>7. ASSUME NEW i \in 2 .. k + 1
      PROVE  LET b == Onward(c, c.at + ends[i - 1]) IN
             /\ b \in Calls(lines) /\ b.of = c.of /\ b.at = at + ends[i - 1]
             /\ b.indent = c.indent /\ b.depth = c.depth /\ ~b.spliced
  <2>1. PICK e \in Nat : e = ends[i - 1] /\ e <= all
    <3>1. i - 1 \in 0 .. k
      OBVIOUS
    <3> QED BY <1>5, <1>6, <3>1
  <2>2. at + e \in 1 .. n + 1
    BY <1>6, <2>1
  <2>3. c.of \in {"map", "list"} /\ c.indent \in Nat /\ c.depth \in Int
    BY DEF Calls
  <2> QED BY <1>1, <1>2, <2>1, <2>2, <2>3 DEF Onward, Call, Calls
<1>8. Steps(lines, c, ends, k, cs)
  <2>1. ASSUME NEW i \in 1 .. k + 1 PROVE cs[i] \in Calls(lines)
    <3>1. CASE i = 1
      BY <3>1
    <3>2. CASE i # 1
      <4>1. i \in 2 .. k + 1
        BY <3>2
      <4> QED BY <1>7, <3>2, <4>1
    <3> QED BY <3>1, <3>2
  <2>2. cs \in [1 .. k + 1 -> Calls(lines)]
    BY <2>1
  <2>3. 1 \in 1 .. k + 1 /\ \A i \in 2 .. k + 1 : i \in 1 .. k + 1 /\ i # 1
    OBVIOUS
  <2>4. cs[1] = c
    BY <2>3
  <2>5. \A i \in 2 .. k + 1 : cs[i] = Onward(c, c.at + ends[i - 1])
    BY <2>3
  <2> HIDE DEF cs
  <2> QED BY <2>2, <2>4, <2>5 DEF Steps
<1>9. cs[1] = c
  BY <1>8 DEF Steps
<1>10. \A i \in 2 .. k + 1 : /\ cs[i].of = c.of /\ cs[i].at = at + ends[i - 1] /\ ~cs[i].spliced
                             /\ cs[i].indent = c.indent /\ cs[i].depth = c.depth
  <2>1. \A i \in 2 .. k + 1 : cs[i] = Onward(c, c.at + ends[i - 1])
    BY <1>8 DEF Steps
  <2> HIDE DEF cs
  <2> QED BY <1>7, <2>1
<1> HIDE DEF cs
<1>11. ASSUME NEW i \in 1 .. k PROVE Standing(lines, c, pieces, ends, k, cs, i)
  <2>1. PICK e \in Nat, f \in Nat, m \in Nat :
           e = ends[i - 1] /\ f = ends[i] /\ m = Len(pieces[i]) /\ f = e + m /\ m >= 1 /\ f <= all
    <3>1. i - 1 \in 0 .. k /\ i \in 0 .. k
      OBVIOUS
    <3> QED BY <1>3, <1>4, <1>5, <1>6, <3>1
  <2>2. cs[i].of = c.of /\ cs[i].indent = c.indent /\ cs[i].depth = c.depth /\ cs[i].at = at + e
    <3>1. CASE i = 1
      <4>1. e = 0 /\ at + 0 = at
        BY <1>3, <2>1, <3>1
      <4> QED BY <1>2, <1>9, <3>1, <4>1
    <3>2. CASE i # 1
      <4>1. i \in 2 .. k + 1
        BY <3>2
      <4> QED BY <1>10, <2>1, <4>1
    <3> QED BY <3>1, <3>2
  <2>3. cs[i].at + Len(pieces[i]) = c.at + ends[i]
    BY <1>2, <2>1, <2>2
  <2>4. ASSUME NEW j \in 1 .. m
        PROVE  pieces[i][j] = IF j = 1 THEN Seen(lines, cs[i]) ELSE lines[cs[i].at + (j - 1)]
    <3>1. PICK g \in 1 .. all : g = e + j
      BY <2>1
    <3>2. pieces[i][j] = block[g]
      BY <1>3, <2>1, <3>1
    <3>3. block[g] = IF g = 1 THEN Seen(lines, c) ELSE lines[at + (g - 1)]
      BY <1>2, <1>3, <1>6 DEF Stands
    <3>4. CASE i = 1
      <4>1. e = 0 /\ g = j
        BY <1>3, <2>1, <3>1, <3>4
      <4> QED BY <1>2, <1>9, <3>2, <3>3, <3>4, <4>1
    <3>5. CASE i # 1
      <4>1. i \in 2 .. k + 1 /\ i - 1 \in 1 .. k /\ (i - 1) - 1 \in 0 .. k
        BY <3>5
      <4>2. e >= 1
        <5>1. PICK x \in Nat, y \in Nat : x = ends[(i - 1) - 1] /\ y = Len(pieces[i - 1]) /\ y # 0
          BY <1>4, <1>5, <4>1
        <5>2. e = x + y
          BY <1>3, <2>1, <4>1, <5>1
        <5> QED BY <5>1, <5>2
      <4>3. g # 1 /\ at + (g - 1) = (at + e) + (j - 1)
        BY <3>1, <4>2
      <4>4. pieces[i][j] = lines[cs[i].at + (j - 1)]
        BY <2>2, <3>2, <3>3, <4>3
      <4>5. Seen(lines, cs[i]) = lines[cs[i].at]
        BY <1>10, <4>1 DEF Seen
      <4>6. j = 1 => cs[i].at + (j - 1) = cs[i].at
        BY <2>2
      <4> QED BY <4>4, <4>5, <4>6
    <3> QED BY <3>4, <3>5
  <2>5. Stands(lines, cs[i], pieces[i])
    <3>1. (at + e) + m = at + f
      BY <2>1
    <3>2. at + f <= n + 1
      <4>1. f <= all /\ at + all <= n + 1
        BY <1>6, <2>1
      <4>2. at \in Int /\ n \in Int
        OBVIOUS
      <4>3. at + f <= at + all
        BY <4>1, <4>2
      <4> QED BY <4>1, <4>2, <4>3
    <3>3. cs[i].at + m <= n + 1
      BY <2>2, <3>1, <3>2
    <3> QED BY <1>1, <2>1, <2>4, <3>3 DEF Stands
  <2>6. cs[i + 1] = Onward(c, c.at + ends[i])
    <3>1. i + 1 \in 2 .. k + 1 /\ (i + 1) - 1 = i
      OBVIOUS
    <3> QED BY <1>8, <3>1 DEF Steps
  <2>7. ASSUME i < k
        PROVE  lines[c.at + ends[i]] = pieces[i + 1][1] /\ c.at + ends[i] <= Len(lines)
    <3>1. i + 1 \in 1 .. k /\ (i + 1) - 1 = i
      BY <2>7
    <3>2. PICK y \in Nat, z \in Nat : /\ y = Len(pieces[i + 1]) /\ y >= 1
                                      /\ z = ends[i + 1] /\ z = f + y /\ z <= all
      <4>1. Len(pieces[i + 1]) \in Nat /\ Len(pieces[i + 1]) >= 1
        BY <1>4, <3>1
      <4>2. ends[i + 1] = ends[i] + Len(pieces[i + 1])
        BY <1>3, <3>1
      <4>3. i + 1 \in 0 .. k
        BY <3>1
      <4> QED BY <1>5, <1>6, <2>1, <4>1, <4>2, <4>3
    <3>3. 1 \in 1 .. y /\ f + 1 \in 1 .. all /\ f + 1 # 1 /\ at + ((f + 1) - 1) = at + f
      <4>1. f >= 1
        BY <2>1
      <4>2. f + 1 <= all
        BY <3>2
      <4>3. 1 \in 1 .. y
        BY <3>2
      <4> QED BY <4>1, <4>2, <4>3
    <3>4. block[f + 1] = pieces[i + 1][1]
      <4>1. \A j \in 1 .. Len(pieces[i + 1]) : block[ends[(i + 1) - 1] + j] = pieces[i + 1][j]
        BY <1>3, <3>1
      <4>2. 1 \in 1 .. Len(pieces[i + 1]) /\ ends[(i + 1) - 1] = f
        BY <2>1, <3>1, <3>2, <3>3
      <4> QED BY <4>1, <4>2
    <3>5. block[f + 1] = lines[at + f]
      BY <1>2, <1>3, <1>6, <3>3 DEF Stands
    <3>6. at + f <= n
      BY <1>6, <3>2
    <3> QED BY <1>1, <1>2, <2>1, <3>4, <3>5, <3>6
  <2> QED BY <2>2, <2>3, <2>5, <2>6, <2>7 DEF Standing
<1> QED BY <1>8, <1>11

LEMMA MapReads ==
    ASSUME NEW w \in Containers, w.type = "map", Opens(w),
           \A u \in Containers : Nesting[u] < Nesting[w] /\ Opens(u) => Reads(u)
    PROVE  Reads(w)
<1>1. PICK k \in Nat : k = Len(w.pairs) /\ k = Len(Entries(w)) /\ k >= 1
  BY EntriesOK DEF Entries
<1>2. /\ w.pairs \in Seq(STRING \X Values) /\ w = Map(w.pairs)
      /\ Nesting[w] \in Nat
  BY EntriesOK DEF Writable
<1>3. ASSUME NEW lines \in Seq(LineSet), NEW c \in Calls(lines), NEW d \in Nat,
             c.of = "map", c.indent = 2 * d, Nesting[w] <= c.depth + 1,
             Stands(lines, c, Lines[<<w, d>>]),
             Ended(lines, c.at + Len(Lines[<<w, d>>]), c.indent, c.of)
      PROVE  Reader(lines)[c] = Read(w, c.at + Len(Lines[<<w, d>>]))
  <2> DEFINE block == Lines[<<w, d>>]
             R == Reader(lines)
             rest(i) == SubSeq(w.pairs, i, k)
  <2>1. \A u \in Containers : Nesting[u] < Nesting[w] => Typed(u)
    BY LinesTyped
  <2>2. PICK pieces \in Seq(Seq(LineSet)) : \E ends :
            /\ Len(pieces) = k /\ Pieced(LineSet, pieces, ends, block)
            /\ \A i \in 1 .. k : /\ pieces[i] = Piece(w, d, i) /\ Len(pieces[i]) >= 1
                                 /\ Starts(w, d, pieces[i][1])
    BY <1>1, <2>1, PiecesOK
  <2>3. PICK ends :
            /\ Len(pieces) = k /\ Pieced(LineSet, pieces, ends, block)
            /\ \A i \in 1 .. k : /\ pieces[i] = Piece(w, d, i) /\ Len(pieces[i]) >= 1
                                 /\ Starts(w, d, pieces[i][1])
    BY <2>2
  <2>a. Stands(lines, c, block)
    BY <1>3
  <2> HIDE DEF block, R, rest
  <2>b. PICK cs : /\ Steps(lines, c, ends, k, cs)
                  /\ \A i \in 1 .. k : Standing(lines, c, pieces, ends, k, cs, i)
    <3>1. \A i \in 1 .. k : Len(pieces[i]) >= 1
      BY <2>3
    <3>2. Len(pieces) = k /\ Pieced(LineSet, pieces, ends, block) /\ k >= 1
      BY <1>1, <2>3
    <3> QED BY <2>a, <3>1, <3>2, StepsStand
  <2>4. /\ \A i \in 1 .. k :
             /\ cs[i].of = c.of /\ cs[i].indent = c.indent /\ cs[i].depth = c.depth
             /\ Stands(lines, cs[i], pieces[i])
             /\ cs[i].at + Len(pieces[i]) = c.at + ends[i]
             /\ cs[i + 1] = Onward(c, c.at + ends[i])
             /\ i < k => lines[c.at + ends[i]] = pieces[i + 1][1]
        /\ Len(block) = ends[k]
    BY <2>3, <2>b DEF Standing, Pieced
  <2>5. PICK end : end = c.at + ends[k]
    OBVIOUS
  <2>6. cs \in [1 .. k + 1 -> Calls(lines)] /\ cs[1] = c
    BY <2>b DEF Steps
  <2> DEFINE G == {m \in 0 .. k : R[cs[k + 1 - m]] = Read(Map(rest(k + 1 - m)), end)}
  <2>7. 0 \in G
    <3>1. k + 1 - 0 = k + 1 /\ k \in 1 .. k /\ k + 1 \in 1 .. k + 1
      BY <1>1
    <3>2. PICK b \in Calls(lines) : b = cs[k + 1]
      BY <2>6, <3>1
    <3>3. b = Onward(c, end)
      BY <2>4, <2>5, <3>1, <3>2
    <3>4. b.of = "map" /\ b.at = end /\ b.indent = 2 * d /\ ~b.spliced
      BY <1>3, <3>3 DEF Onward, Call
    <3>5. R[b] = ReadMap(lines, b, R)
      <4>1. Reader(lines)[b] = ReadBy(lines, b, Reader(lines))
        BY ReaderIs
      <4> QED BY <3>4, <4>1 DEF ReadBy, R
    <3>6. ReadMap(lines, b, R) = Read(Map(<<>>), end)
      <4>1. Ended(lines, end, 2 * d, "map")
        BY <1>3, <2>4, <2>5 DEF block
      <4>2. end > Len(lines) \/ lines[end].indent # 2 * d
        <5>1. CASE end > Len(lines)
          BY <5>1
        <5>2. CASE ~(end > Len(lines))
          <6>1. lines[end].indent < 2 * d
            BY <4>1, <5>2 DEF Ended
          <6>2. end \in 1 .. Len(lines)
            <7>1. end \in 1 .. Len(lines) + 1
              BY <3>4 DEF Calls
            <7> QED BY <5>2, <7>1
          <6>3. lines[end] \in LineSet
            BY <6>2
          <6>4. lines[end].indent \in Nat
            BY <6>3 DEF LineSet
          <6> QED BY <6>1, <6>4
        <5> QED BY <5>1, <5>2
      <4> QED BY <3>4, <4>2 DEF ReadMap
    <3>7. rest(k + 1) = <<>>
      <4>1. k + 1 > k
        OBVIOUS
      <4> QED BY <1>2, <4>1, SubSeqEmpty DEF rest
    <3> QED BY <3>1, <3>2, <3>5, <3>6, <3>7
  <2>8. ASSUME NEW m \in 1 .. k, m - 1 \in G PROVE m \in G
    <3>1. PICK i \in 1 .. k : i = k + 1 - m /\ i + 1 = k + 1 - (m - 1)
      <4>1. k + 1 - m \in 1 .. k /\ (k + 1 - m) + 1 = k + 1 - (m - 1)
        OBVIOUS
      <4> QED BY <4>1
    <3>2. R[cs[i + 1]] = Read(Map(rest(i + 1)), end)
      BY <2>8, <3>1
    <3>3. PICK b \in Calls(lines) : b = cs[i]
      BY <2>6
    <3>4. PICK next : next = c.at + ends[i]
      OBVIOUS
    <3>5. /\ b.of = "map" /\ b.indent = 2 * d /\ b.depth = c.depth
          /\ Stands(lines, b, pieces[i]) /\ b.at + Len(pieces[i]) = next
          /\ cs[i + 1] = Onward(b, next)
      <4>1. cs[i + 1] = Onward(c, next) /\ b.of = c.of /\ b.indent = c.indent /\ b.depth = c.depth
        BY <2>4, <3>3, <3>4
      <4>2. cs[i + 1] = Onward(b, next)
        BY <4>1 DEF Onward
      <4> QED BY <1>3, <2>4, <3>3, <3>4, <4>1, <4>2
    <3>6. PICK key \in STRING, v \in Values :
            /\ w.pairs[i] = <<key, v>> /\ key # NoKey /\ v = Nested(w, i)
            /\ Nesting[v] < Nesting[w] /\ Nesting[v] \in Nat
      <4>1. /\ Nested(w, i) \in Values /\ Nesting[Nested(w, i)] < Nesting[w]
            /\ Nesting[Nested(w, i)] \in Nat
            /\ w.pairs[i] = <<w.pairs[i][1], w.pairs[i][2]>>
            /\ w.pairs[i][1] \in STRING /\ w.pairs[i][1] # NoKey
            /\ w.pairs[i][2] = Nested(w, i)
        BY <1>1, EntriesOK
      <4>2. PICK key \in STRING, v \in Values : key = w.pairs[i][1] /\ v = w.pairs[i][2]
        BY <4>1
      <4> QED BY <4>1, <4>2
    <3>7. pieces[i] = MapPiece(key, v, d)
      <4>1. w.pairs[i][1] = key /\ w.pairs[i][2] = v
        BY <3>6
      <4>2. Piece(w, d, i) = MapPiece(w.pairs[i][1], w.pairs[i][2], d)
        BY DEF Piece
      <4> QED BY <2>3, <4>1, <4>2
    <3>8. Opens(v) => Reads(v) /\ Nesting[v] <= b.depth
      <4>1. SUFFICES ASSUME Opens(v) PROVE Reads(v) /\ Nesting[v] <= b.depth
        OBVIOUS
      <4>2. v \in Containers
        BY <4>1 DEF Opens, Containers
      <4>3. c.depth \in Int
        BY DEF Calls
      <4>4. PICK x \in Nat, y \in Nat, z \in Int : x = Nesting[v] /\ y = Nesting[w] /\ z = c.depth
        BY <1>2, <3>6, <4>3
      <4>5. x <= z
        BY <1>3, <3>6, <4>4
      <4>6. Reads(v)
        BY <3>6, <4>1, <4>2
      <4> QED BY <3>5, <4>4, <4>5, <4>6
    <3>9. Ended(lines, next, 2 * d, "list")
      <4>1. CASE i = k
        <5>1. Ended(lines, next, 2 * d, "map")
          BY <1>3, <2>4, <3>4, <4>1 DEF block
        <5> QED BY <5>1 DEF Ended
      <4>2. CASE i # k
        <5>1. i < k /\ i + 1 \in 1 .. k
          BY <4>2
        <5>2. lines[next] = pieces[i + 1][1] /\ Starts(w, d, pieces[i + 1][1])
          BY <2>3, <2>4, <3>4, <5>1
        <5>3. lines[next].indent = 2 * d /\ ~lines[next].item
          BY <5>2 DEF Starts
        <5> QED BY <5>3 DEF Ended
      <4> QED BY <4>1, <4>2
    <3>10. Len(pieces[i]) \in Nat \ {0}
      <4>1. pieces[i] \in Seq(LineSet)
        BY <2>3
      <4>2. Len(pieces[i]) >= 1 /\ Len(pieces[i]) \in Nat
        BY <2>3, <4>1
      <4> QED BY <4>2
    <3>11. rest(i) = << <<key, v>> >> \o rest(i + 1)
      <4>1. i \in 1 .. Len(w.pairs) /\ k \in 1 .. Len(w.pairs) /\ i <= k
        BY <1>1
      <4>2. SubSeq(w.pairs, i, k) = <<w.pairs[i]>> \o SubSeq(w.pairs, i + 1, k)
        BY <1>1, <1>2, <4>1, SubSeqRecursiveFirst
      <4> QED BY <3>6, <4>2 DEF rest
    <3>12. R[b] = Read(Map(rest(i)), end)
      <4>1. PICK r : r = rest(i + 1)
        OBVIOUS
      <4>2. Reader(lines)[Onward(b, next)] = Read(Map(r), end)
        BY <3>2, <3>5, <4>1 DEF R
      <4>3. /\ Stands(lines, b, MapPiece(key, v, d)) /\ Len(MapPiece(key, v, d)) \in Nat \ {0}
            /\ next = b.at + Len(MapPiece(key, v, d))
        BY <3>5, <3>7, <3>10
      <4>4. b.of = "map" /\ b.indent = 2 * d /\ key # NoKey
        BY <3>5, <3>6
      <4>5. PICK whole : whole = rest(i) /\ whole = << <<key, v>> >> \o r
        BY <3>11, <4>1
      <4>6. MapEntry(lines, b, d, key, v, next, r, end, whole)
        BY <3>8, <3>9, <4>2, <4>3, <4>4, <4>5 DEF MapEntry
      <4>7. Reader(lines)[b] = Read(Map(whole), end)
        BY <4>6, MapEntryReads
      <4> QED BY <4>5, <4>7 DEF R
    <3>13. R[cs[k + 1 - m]] = Read(Map(rest(k + 1 - m)), end)
      BY <3>1, <3>3, <3>12
    <3> QED BY <3>13
  <2> HIDE DEF G
  <2>9. k \in G
    <3>1. \A m \in 1 .. k : m - 1 \in G => m \in G
      BY <2>8
    <3>2. \A m \in 0 .. k : m \in G
      BY <2>7, <3>1, Upward
    <3> QED BY <3>2
  <2>10. R[c] = Read(Map(rest(1)), end)
    <3>1. k + 1 - k = 1
      OBVIOUS
    <3> QED BY <2>6, <2>9, <3>1 DEF G
  <2>11. rest(1) = w.pairs
    BY <1>1, <1>2, SubSeqFull DEF rest
  <2> QED BY <1>2, <2>4, <2>5, <2>10, <2>11 DEF R, block
<1>4. ASSUME NEW lines \in Seq(LineSet), NEW c \in Calls(lines), NEW d \in Nat
      PROVE  ReadsAt(w, lines, c, d)
  BY <1>3 DEF ReadsAt
<1> QED BY <1>4 DEF Reads

LEMMA ListReads ==
    ASSUME NEW w \in Containers, w.type = "list", Opens(w),
           \A u \in Containers : Nesting[u] < Nesting[w] /\ Opens(u) => Reads(u)
    PROVE  Reads(w)
<1>1. PICK k \in Nat : k = Len(w.items) /\ k = Len(Entries(w)) /\ k >= 1
  BY EntriesOK DEF Entries
<1>2. /\ w.items \in Seq(Values) /\ w = List(w.items)
      /\ Nesting[w] \in Nat
  BY EntriesOK DEF Writable
<1>3. ASSUME NEW lines \in Seq(LineSet), NEW c \in Calls(lines), NEW d \in Nat,
             c.of = "list", c.indent = 2 * d, Nesting[w] <= c.depth + 1,
             Stands(lines, c, Lines[<<w, d>>]),
             Ended(lines, c.at + Len(Lines[<<w, d>>]), c.indent, c.of)
      PROVE  Reader(lines)[c] = Read(w, c.at + Len(Lines[<<w, d>>]))
  <2> DEFINE block == Lines[<<w, d>>]
             R == Reader(lines)
             rest(i) == SubSeq(w.items, i, k)
  <2>1. \A u \in Containers : Nesting[u] < Nesting[w] => Typed(u)
    BY LinesTyped
  <2>2. PICK pieces \in Seq(Seq(LineSet)) : \E ends :
            /\ Len(pieces) = k /\ Pieced(LineSet, pieces, ends, block)
            /\ \A i \in 1 .. k : /\ pieces[i] = Piece(w, d, i) /\ Len(pieces[i]) >= 1
                                 /\ Starts(w, d, pieces[i][1])
    BY <1>1, <2>1, PiecesOK
  <2>3. PICK ends :
            /\ Len(pieces) = k /\ Pieced(LineSet, pieces, ends, block)
            /\ \A i \in 1 .. k : /\ pieces[i] = Piece(w, d, i) /\ Len(pieces[i]) >= 1
                                 /\ Starts(w, d, pieces[i][1])
    BY <2>2
  <2>a. Stands(lines, c, block)
    BY <1>3
  <2> HIDE DEF block, R, rest
  <2>b. PICK cs : /\ Steps(lines, c, ends, k, cs)
                  /\ \A i \in 1 .. k : Standing(lines, c, pieces, ends, k, cs, i)
    <3>1. \A i \in 1 .. k : Len(pieces[i]) >= 1
      BY <2>3
    <3>2. Len(pieces) = k /\ Pieced(LineSet, pieces, ends, block) /\ k >= 1
      BY <1>1, <2>3
    <3> QED BY <2>a, <3>1, <3>2, StepsStand
  <2>4. /\ \A i \in 1 .. k :
             /\ cs[i].of = c.of /\ cs[i].indent = c.indent /\ cs[i].depth = c.depth
             /\ Stands(lines, cs[i], pieces[i])
             /\ cs[i].at + Len(pieces[i]) = c.at + ends[i]
             /\ cs[i + 1] = Onward(c, c.at + ends[i])
             /\ i < k => lines[c.at + ends[i]] = pieces[i + 1][1]
        /\ Len(block) = ends[k]
    BY <2>3, <2>b DEF Standing, Pieced
  <2>5. PICK end : end = c.at + ends[k]
    OBVIOUS
  <2>6. cs \in [1 .. k + 1 -> Calls(lines)] /\ cs[1] = c
    BY <2>b DEF Steps
  <2> DEFINE G == {m \in 0 .. k : R[cs[k + 1 - m]] = Read(List(rest(k + 1 - m)), end)}
  <2>7. 0 \in G
    <3>1. k + 1 - 0 = k + 1 /\ k \in 1 .. k /\ k + 1 \in 1 .. k + 1
      BY <1>1
    <3>2. PICK b \in Calls(lines) : b = cs[k + 1]
      BY <2>6, <3>1
    <3>3. b = Onward(c, end)
      BY <2>4, <2>5, <3>1, <3>2
    <3>4. b.of = "list" /\ b.at = end /\ b.indent = 2 * d /\ ~b.spliced
      BY <1>3, <3>3 DEF Onward, Call
    <3>5. R[b] = ReadList(lines, b, R)
      <4>1. Reader(lines)[b] = ReadBy(lines, b, Reader(lines))
        BY ReaderIs
      <4> QED BY <3>4, <4>1 DEF ReadBy, R
    <3>6. ReadList(lines, b, R) = Read(List(<<>>), end)
      <4>1. Ended(lines, end, 2 * d, "list")
        BY <1>3, <2>4, <2>5 DEF block
      <4>2. end > Len(lines) \/ lines[end].indent # 2 * d \/ ~lines[end].item
        <5>1. CASE end > Len(lines)
          BY <5>1
        <5>2. CASE ~(end > Len(lines)) /\ lines[end].indent < 2 * d
          <6>1. end \in 1 .. Len(lines)
            <7>1. end \in 1 .. Len(lines) + 1
              BY <3>4 DEF Calls
            <7> QED BY <5>2, <7>1
          <6>2. lines[end] \in LineSet
            BY <6>1
          <6>3. lines[end].indent \in Nat
            BY <6>2 DEF LineSet
          <6> QED BY <5>2, <6>3
        <5>3. CASE ~lines[end].item
          BY <5>3
        <5> QED BY <4>1, <5>1, <5>2, <5>3 DEF Ended
      <4> QED BY <3>4, <4>2 DEF ReadList
    <3>7. rest(k + 1) = <<>>
      <4>1. k + 1 > k
        OBVIOUS
      <4> QED BY <1>2, <4>1, SubSeqEmpty DEF rest
    <3> QED BY <3>1, <3>2, <3>5, <3>6, <3>7
  <2>8. ASSUME NEW m \in 1 .. k, m - 1 \in G PROVE m \in G
    <3>1. PICK i \in 1 .. k : i = k + 1 - m /\ i + 1 = k + 1 - (m - 1)
      <4>1. k + 1 - m \in 1 .. k /\ (k + 1 - m) + 1 = k + 1 - (m - 1)
        OBVIOUS
      <4> QED BY <4>1
    <3>2. R[cs[i + 1]] = Read(List(rest(i + 1)), end)
      BY <2>8, <3>1
    <3>3. PICK b \in Calls(lines) : b = cs[i]
      BY <2>6
    <3>4. PICK next : next = c.at + ends[i]
      OBVIOUS
    <3>5. /\ b.of = "list" /\ b.indent = 2 * d /\ b.depth = c.depth
          /\ Stands(lines, b, pieces[i]) /\ b.at + Len(pieces[i]) = next
          /\ cs[i + 1] = Onward(b, next)
      <4>1. cs[i + 1] = Onward(c, next) /\ b.of = c.of /\ b.indent = c.indent /\ b.depth = c.depth
        BY <2>4, <3>3, <3>4
      <4>2. cs[i + 1] = Onward(b, next)
        BY <4>1 DEF Onward
      <4> QED BY <1>3, <2>4, <3>3, <3>4, <4>1, <4>2
    <3>6. PICK v \in Values :
            /\ w.items[i] = v /\ v = Nested(w, i) /\ v.type # "list" /\ v # Map(<<>>)
            /\ Nesting[v] < Nesting[w] /\ Nesting[v] \in Nat
      BY <1>1, EntriesOK
    <3>7. pieces[i] = ListPiece(v, d)
      <4>1. w.items[i] = v /\ w.type # "map"
        BY <3>6
      <4>2. Piece(w, d, i) = ListPiece(w.items[i], d)
        BY <4>1 DEF Piece
      <4> QED BY <2>3, <4>1, <4>2
    <3>8. Opens(v) => Reads(v) /\ Nesting[v] <= b.depth
      <4>1. SUFFICES ASSUME Opens(v) PROVE Reads(v) /\ Nesting[v] <= b.depth
        OBVIOUS
      <4>2. v \in Containers
        BY <4>1 DEF Opens, Containers
      <4>3. c.depth \in Int
        BY DEF Calls
      <4>4. PICK x \in Nat, y \in Nat, z \in Int : x = Nesting[v] /\ y = Nesting[w] /\ z = c.depth
        BY <1>2, <3>6, <4>3
      <4>5. x <= z
        BY <1>3, <3>6, <4>4
      <4>6. Reads(v)
        BY <3>6, <4>1, <4>2
      <4> QED BY <3>5, <4>4, <4>5, <4>6
    <3>9. next > Len(lines) \/ lines[next].indent <= 2 * d
      <4>1. CASE i = k
        <5>1. Ended(lines, next, 2 * d, "list")
          BY <1>3, <2>4, <3>4, <4>1 DEF block
        <5>2. CASE next > Len(lines)
          BY <5>2
        <5>3. CASE ~(next > Len(lines))
          <6>1. next \in 1 .. Len(lines)
            <7>1. PICK at \in Nat, n \in Nat : at = b.at /\ at >= 1 /\ n = Len(lines)
              BY DEF Calls
            <7>2. PICK m1 \in Nat : m1 = Len(pieces[i])
              <8>1. pieces[i] \in Seq(LineSet)
                BY <2>3
              <8> QED BY <8>1
            <7>3. next = at + m1
              BY <3>5, <7>1, <7>2
            <7> QED BY <5>3, <7>1, <7>3
          <6>2. lines[next] \in LineSet
            BY <6>1
          <6>3. PICK x \in Nat : x = lines[next].indent
            BY <6>2 DEF LineSet
          <6>4. x < 2 * d \/ x = 2 * d
            BY <5>1, <5>3, <6>3 DEF Ended
          <6> QED BY <6>3, <6>4
        <5> QED BY <5>2, <5>3
      <4>2. CASE i # k
        <5>1. i < k /\ i + 1 \in 1 .. k
          BY <4>2
        <5>2. lines[next] = pieces[i + 1][1] /\ Starts(w, d, pieces[i + 1][1])
          BY <2>3, <2>4, <3>4, <5>1
        <5>3. lines[next].indent = 2 * d
          BY <5>2 DEF Starts
        <5> QED BY <5>3
      <4> QED BY <4>1, <4>2
    <3>10. Len(pieces[i]) \in Nat \ {0}
      <4>1. pieces[i] \in Seq(LineSet)
        BY <2>3
      <4>2. Len(pieces[i]) >= 1 /\ Len(pieces[i]) \in Nat
        BY <2>3, <4>1
      <4> QED BY <4>2
    <3>11. rest(i) = <<v>> \o rest(i + 1)
      <4>1. i \in 1 .. Len(w.items) /\ k \in 1 .. Len(w.items) /\ i <= k
        BY <1>1
      <4>2. SubSeq(w.items, i, k) = <<w.items[i]>> \o SubSeq(w.items, i + 1, k)
        BY <1>1, <1>2, <4>1, SubSeqRecursiveFirst
      <4> QED BY <3>6, <4>2 DEF rest
    <3>12. R[b] = Read(List(rest(i)), end)
      <4>1. PICK r : r = rest(i + 1)
        OBVIOUS
      <4>2. Reader(lines)[Onward(b, next)] = Read(List(r), end)
        BY <3>2, <3>5, <4>1 DEF R
      <4>3. /\ Stands(lines, b, ListPiece(v, d)) /\ Len(ListPiece(v, d)) \in Nat \ {0}
            /\ next = b.at + Len(ListPiece(v, d))
        BY <3>5, <3>7, <3>10
      <4>4. b.of = "list" /\ b.indent = 2 * d 
        BY <3>5, <3>6
      <4>5. PICK whole : whole = rest(i) /\ whole = <<v>> \o r
        BY <3>11, <4>1
      <4>6. ListEntry(lines, b, d, v, next, r, end, whole)
        BY <3>6, <3>8, <3>9, <4>2, <4>3, <4>4, <4>5 DEF ListEntry
      <4>7. Reader(lines)[b] = Read(List(whole), end)
        BY <4>6, ListEntryReads
      <4> QED BY <4>5, <4>7 DEF R
    <3>13. R[cs[k + 1 - m]] = Read(List(rest(k + 1 - m)), end)
      BY <3>1, <3>3, <3>12
    <3> QED BY <3>13
  <2> HIDE DEF G
  <2>9. k \in G
    <3>1. \A m \in 1 .. k : m - 1 \in G => m \in G
      BY <2>8
    <3>2. \A m \in 0 .. k : m \in G
      BY <2>7, <3>1, Upward
    <3> QED BY <3>2
  <2>10. R[c] = Read(List(rest(1)), end)
    <3>1. k + 1 - k = 1
      OBVIOUS
    <3> QED BY <2>6, <2>9, <3>1 DEF G
  <2>11. rest(1) = w.items
    BY <1>1, <1>2, SubSeqFull DEF rest
  <2> QED BY <1>2, <2>4, <2>5, <2>10, <2>11 DEF R, block
<1>4. ASSUME NEW lines \in Seq(LineSet), NEW c \in Calls(lines), NEW d \in Nat
      PROVE  ReadsAt(w, lines, c, d)
  BY <1>3 DEF ReadsAt
<1> QED BY <1>4 DEF Reads

LEMMA AllRead == \A w \in Containers : Opens(w) => Reads(w)
<1> DEFINE G == {w \in Containers : Opens(w) => Reads(w)}
<1>1. ASSUME NEW w \in Containers, \A u \in Containers : Nesting[u] < Nesting[w] => u \in G
      PROVE  w \in G
  <2>1. SUFFICES ASSUME Opens(w) PROVE Reads(w)
    OBVIOUS
  <2>2. \A u \in Containers : Nesting[u] < Nesting[w] /\ Opens(u) => Reads(u)
    BY <1>1
  <2>3. CASE w.type = "map"
    BY <2>1, <2>2, <2>3, MapReads
  <2>4. CASE w.type = "list"
    BY <2>1, <2>2, <2>4, ListReads
  <2> QED BY <2>3, <2>4, EntriesOK
<1> HIDE DEF G
<1>2. \A w \in Containers : w \in G
  BY <1>1, ByNesting
<1> QED BY <1>2 DEF G

\* A block that the exporter writes is read as the map it was written from (_emit_map and
\* _quote of yamlfmt.py, _Frontmatter of validate.py), whatever is in it and however deep.
THEOREM BlocksSurvive ==
    ASSUME NEW m \in Values, m.type = "map", NEW depth \in Nat, Nesting[m] <= depth + 1
    PROVE  \E next : Parse(Emit(m), depth) = Read(m, next)
<1>1. m \in Containers
  BY DEF Containers
<1>2. PICK lines : lines = Emit(m) /\ lines = Lines[<<m, 0>>]
  BY DEF Emit
<1>3. CASE ~Opens(m)
  <2>1. m = Map(<<>>) /\ Len(Entries(m)) = 0
    <3>1. Writable(m) /\ ~(Len(Entries(m)) >= 1) /\ Len(Entries(m)) \in Nat
      BY <1>1, <1>3, EntriesOK
    <3>2. m = Map(m.pairs) /\ m.pairs = <<>>
      BY <1>3, <3>1 DEF Writable, Opens
    <3> QED BY <3>1, <3>2
  <2>2. lines = <<>>
    <3>1. lines = EmitMap(m.pairs, 0, Lines)
      <4>1. <<m, 0>> \in Containers \X Nat
        BY <1>1
      <4>2. Lines[<<m, 0>>] = LinesBy(<<m, 0>>, Lines)
        BY <4>1, LinesAre
      <4> QED BY <1>2, <4>2 DEF LinesBy
    <3>2. \A d \in Nat : Lines[<<m, d>>] \in Seq(LineSet)
      BY <1>1, LinesTyped DEF Typed
    <3>3. \A u \in Containers : Typed(u)
      BY LinesTyped
    <3>4. PICK pieces \in Seq(Seq(LineSet)) : \E ends :
              Len(pieces) = 0 /\ Pieced(LineSet, pieces, ends, Lines[<<m, 0>>])
      <4>1. 0 \in Nat /\ 0 = Len(Entries(m))
        BY <2>1
      <4> QED BY <1>1, <3>3, <4>1, PiecesOK
    <3>5. Len(lines) = 0 /\ lines \in Seq(LineSet)
      BY <1>2, <3>4 DEF Pieced, Ends
    <3> QED BY <3>5, EmptySeq
  <2>3. Parse(<<>>, depth) = Read(Map(<<>>), 1)
    BY DEF Parse
  <2> QED BY <1>2, <2>1, <2>2, <2>3
<1>4. CASE Opens(m)
  <2>1. /\ lines \in Seq(LineSet) /\ lines # <<>> /\ Starts(m, 0, lines[1])
    BY <1>2, <1>4, OpensNests
  <2>2. lines[1].indent = 0 /\ ~lines[1].item
    BY <2>1 DEF Starts
  <2>3. PICK n \in Nat : n = Len(lines)
    BY <2>1
  <2>4. PICK c : c = Call("map", 1, 0, depth, FALSE)
    OBVIOUS
  <2>5. /\ c \in Calls(lines) /\ c.of = "map" /\ c.at = 1 /\ c.indent = 2 * 0
        /\ c.depth = depth /\ ~c.spliced
    BY <2>3, <2>4 DEF Call, Calls
  <2>6. Stands(lines, c, lines)
    <3>1. Seen(lines, c) = lines[1]
      BY <2>5 DEF Seen
    <3>2. \A j \in 1 .. n : lines[j] = IF j = 1 THEN Seen(lines, c) ELSE lines[c.at + (j - 1)]
      <4>1. \A j \in 1 .. n : 1 + (j - 1) = j
        OBVIOUS
      <4> QED BY <2>5, <3>1, <4>1
    <3> QED BY <2>3, <2>5, <3>2 DEF Stands
  <2>7. Ended(lines, c.at + Len(lines), c.indent, c.of)
    BY <2>3, <2>5 DEF Ended
  <2>8. ReadsAt(m, lines, c, 0)
    <3>1. Reads(m)
      BY <1>1, <1>4, AllRead
    <3> QED BY <2>1, <2>5, <3>1 DEF Reads
  <2>9. Reader(lines)[c] = Read(m, 1 + n)
    BY <1>2, <2>3, <2>5, <2>6, <2>7, <2>8 DEF ReadsAt
  <2>10. Block(lines, 1, depth, Reader(lines)) = Read(m, n + 1)
    <3>1. Block(lines, 1, depth, Reader(lines)) = Reader(lines)[c]
      <4>1. ~(depth < 0)
        OBVIOUS
      <4> QED BY <2>2, <2>4, <4>1 DEF Block
    <3>2. 1 + n = n + 1
      OBVIOUS
    <3> QED BY <2>9, <3>1, <3>2
  <2>11. Parse(lines, depth) = Read(m, n + 1)
    <3>1. PICK node : node = Read(m, n + 1)
      OBVIOUS
    <3>2. node.next = n + 1
      BY <3>1 DEF Read
    <3> QED BY <2>1, <2>3, <2>10, <3>1, <3>2 DEF Parse
  <2> QED BY <1>2, <2>11
<1> QED BY <1>3, <1>4

\* Every block that is read back was read as the map that was written (ReadsBackWhatItWrote).
THEOREM BlocksReadBack == FormatsSpec => []ReadsBackWhatItWrote
<1> DEFINE Inv == written \in Fronts /\ ReadsBackWhatItWrote
<1>1. FormatsInit => Inv
  BY DEF FormatsInit, ReadsBackWhatItWrote
<1>2. Inv /\ [FormatsNext]_<<written, readBack>> => Inv'
  <2>1. SUFFICES ASSUME Inv, [FormatsNext]_<<written, readBack>> PROVE Inv'
    OBVIOUS
  <2>2. CASE RoundTrip
    <3>1. written' = written /\ readBack' = Parse(Emit(written), MaxDepth)
      BY <2>2 DEF RoundTrip
    <3>2. PICK m : m = written /\ m \in Fronts
      BY <2>1
    <3>3. m \in Values /\ m.type = "map" /\ Nesting[m] <= MaxDepth + 1 /\ MaxDepth \in Nat
      BY <3>2, FormatsAssumption
    <3>4. PICK next : Parse(Emit(m), MaxDepth) = Read(m, next)
      BY <3>3, BlocksSurvive
    <3>5. PICK r : r = Read(m, next)
      OBVIOUS
    <3>6. r.ok /\ r.v = m
      BY <3>5 DEF Read
    <3>7. readBack' = r /\ written' = m
      BY <3>1, <3>2, <3>4, <3>5
    <3> QED BY <3>2, <3>6, <3>7 DEF ReadsBackWhatItWrote
  <2>3. CASE UNCHANGED <<written, readBack>>
    BY <2>1, <2>3 DEF ReadsBackWhatItWrote
  <2> QED BY <2>1, <2>2, <2>3 DEF FormatsNext, Compared
<1>3. Inv => ReadsBackWhatItWrote
  OBVIOUS
<1> QED BY <1>1, <1>2, <1>3, PTL DEF FormatsSpec
=============================================================================
