------------------------- MODULE ClaimLedgerProofs -------------------------
(***************************************************************************)
(* For any number of sessions, sources and texts, and any bounds: the      *)
(* tables keep their shape, no row ever names a claim that is gone, and    *)
(* every superseded claim has its replacement on record, however refiles,  *)
(* gates and reviews interleave; and while they do not, a source is        *)
(* extracted once and no trusted claim is dropped.  Of the pages beside    *)
(* them: a clean page shows the truth, wherever renders and drafts die.    *)
(***************************************************************************)
EXTENDS ClaimsAndPages, TLAPS

\* What a session may have read: ids that were rows once, and nothing more.
LocalOK ==
    \A s \in Sessions :
        \/ local[s] = Idle
        \/ /\ local[s].op = "file"
           /\ local[s].source \in Sources
        \/ local[s].op = "gate"
        \/ local[s].op = "gated"
        \/ /\ local[s].op = "review"
           /\ local[s].claim \in Ids
           /\ local[s].verdict \in {"promoted", "rejected"}
        \/ /\ local[s].op = "supersede"
           /\ local[s].old \in Ids
           /\ local[s].new \in Ids

\* Sessions remember independently: `local` is a function on them.
IsFunction(f) == f = [s \in Sessions |-> f[s]]

IInv == /\ TypeOK
        /\ IsFunction(local)
        /\ LocalOK
        /\ ReferencesHold
        /\ ReplacementOnRecord

LEMMA InitIInv == Init => IInv
<1> SUFFICES ASSUME Init PROVE IInv
  OBVIOUS
<1>1. TypeOK
  BY LedgerAssumption DEF Init, TypeOK, Statuses, NoId, Ids
<1>2. ReferencesHold /\ ReplacementOnRecord
  BY DEF Init, ReferencesHold, ReplacementOnRecord, With, NoId
<1>3. IsFunction(local) /\ LocalOK
  BY DEF Init, LocalOK, IsFunction
<1> QED BY <1>1, <1>2, <1>3 DEF IInv

\* Reads change only what one session remembers.
LEMMA RememberKeeps ==
    ASSUME IInv, UNCHANGED <<db, promoter, filings>>,
           NEW s \in Sessions, NEW r, Remember(s, r),
           \/ r = Idle
           \/ r.op = "file" /\ r.source \in Sources
           \/ r.op \in {"gate", "gated"}
           \/ r.op = "review" /\ r.claim \in Ids /\ r.verdict \in {"promoted", "rejected"}
           \/ r.op = "supersede" /\ r.old \in Ids /\ r.new \in Ids
    PROVE  IInv'
<1>1. TypeOK' /\ ReferencesHold' /\ ReplacementOnRecord'
  BY DEF IInv, TypeOK, ReferencesHold, ReplacementOnRecord, Present, With, db
<1>2. local' = [local EXCEPT ![s] = r]
  BY DEF Remember
<1>3. IsFunction(local)'
  BY <1>2 DEF IInv, IsFunction
<1>4. LocalOK'
  BY <1>2 DEF IInv, LocalOK, IsFunction
<1> QED BY <1>1, <1>3, <1>4 DEF IInv

\* Every read of file_claims, the gate and the reviews.
LEMMA ReadStep ==
    ASSUME IInv, NEW s \in Sessions,
           \/ FileRead(s) \/ Abort(s) \/ ReviewRead(s) \/ SupersedeRead(s)
           \/ GateRead(s) \/ GateHold(s) \/ GatePass(s)
    PROVE  IInv'
<1>1. CASE FileRead(s)
  BY <1>1, RememberKeeps DEF FileRead
<1>2. CASE Abort(s)
  BY <1>2, RememberKeeps DEF Abort, Forget
<1>3. CASE ReviewRead(s)
  BY <1>3, RememberKeeps DEF ReviewRead, Present
<1>4. CASE SupersedeRead(s)
  BY <1>4, RememberKeeps DEF SupersedeRead, Present
<1>5. CASE GateRead(s)
  BY <1>5, RememberKeeps DEF GateRead
<1>6. CASE GateHold(s)
  <2> DEFINE rest == Rest(local[s].todo)
  <2> DEFINE r == IF DOMAIN rest = {} THEN Idle ELSE [op |-> "gate", todo |-> rest]
  <2>1. Remember(s, r) /\ UNCHANGED <<db, promoter, filings>>
    BY <1>6 DEF GateHold
  <2>2. r = Idle \/ r.op \in {"gate", "gated"}
    OBVIOUS
  <2> HIDE DEF r
  <2> QED BY <2>1, <2>2, RememberKeeps
<1>7. CASE GatePass(s)
  BY <1>7, RememberKeeps DEF GatePass
<1> QED BY <1>1, <1>2, <1>3, <1>4, <1>5, <1>6, <1>7

\* A session that is done remembers nothing, and the others what they did.
LEMMA ForgetKeeps ==
    ASSUME IInv, NEW s \in Sessions, Forget(s)
    PROVE  IsFunction(local)' /\ LocalOK'
BY DEF IInv, Forget, Remember, IsFunction, LocalOK

\* A step that moves present claims among the statuses, with neither a row nor a
\* link changed and none of them newly superseded.
LEMMA StatusKeeps ==
    ASSUME IInv,
           UNCHANGED <<row, supersededBy, supersessions, openPairs, closedPairs,
                       extracted, summarised, filings>>,
           status' \in [Ids -> Statuses \cup {"none"}],
           promoter' \in [Ids -> {"nobody", "gate", "human"}],
           \A k \in Ids : status'[k] = "none" <=> status[k] = "none",
           \A k \in Ids : status'[k] = "superseded" => status[k] = "superseded"
    PROVE  TypeOK' /\ ReferencesHold' /\ ReplacementOnRecord'
BY DEF IInv, TypeOK, ReferencesHold, ReplacementOnRecord, Present, With

LEMMA GateWriteStep ==
    ASSUME IInv, NEW s \in Sessions, GateWrite(s) PROVE IInv'
<1>1. PICK winners \in SUBSET DOMAIN local[s].todo :
        /\ status' = [k \in Ids |-> IF k \in Updated(winners) THEN "promoted"
                                   ELSE status[k]]
        /\ promoter' = [k \in Ids |-> IF status[k] # status'[k] THEN "gate"
                                     ELSE promoter[k]]
  BY DEF GateWrite
<1>2. \A k \in Updated(winners) : status[k] # "none"
  BY DEF Updated, Present
<1>3. /\ status' \in [Ids -> Statuses \cup {"none"}]
      /\ promoter' \in [Ids -> {"nobody", "gate", "human"}]
  BY <1>1 DEF IInv, TypeOK, Statuses
<1>4. \A k \in Ids : /\ status'[k] = "none" <=> status[k] = "none"
                     /\ status'[k] = "superseded" => status[k] = "superseded"
  BY <1>1, <1>2
<1>5. TypeOK' /\ ReferencesHold' /\ ReplacementOnRecord'
  BY <1>3, <1>4, StatusKeeps DEF GateWrite
<1> QED BY <1>5, ForgetKeeps DEF GateWrite, IInv

LEMMA ReviewWriteStep ==
    ASSUME IInv, NEW s \in Sessions, ReviewWrite(s) PROVE IInv'
<1> DEFINE k == local[s].claim
<1>1. k \in Ids /\ local[s].verdict \in {"promoted", "rejected"}
  BY DEF ReviewWrite, IInv, LocalOK, Idle
<1>2. status' = [status EXCEPT ![k] = local[s].verdict] /\ status[k] # "none"
  BY DEF ReviewWrite
<1>3. promoter' \in [Ids -> {"nobody", "gate", "human"}]
  BY <1>1 DEF ReviewWrite, IInv, TypeOK
<1>4. status' \in [Ids -> Statuses \cup {"none"}]
  BY <1>1, <1>2 DEF IInv, TypeOK, Statuses
<1>5. \A j \in Ids : /\ status'[j] = "none" <=> status[j] = "none"
                     /\ status'[j] = "superseded" => status[j] = "superseded"
  BY <1>1, <1>2 DEF IInv, TypeOK
<1>6. TypeOK' /\ ReferencesHold' /\ ReplacementOnRecord'
  BY <1>3, <1>4, <1>5, StatusKeeps DEF ReviewWrite
<1> QED BY <1>6, ForgetKeeps DEF ReviewWrite, IInv

LEMMA SupersedeWriteStep ==
    ASSUME IInv, NEW s \in Sessions, SupersedeWrite(s) PROVE IInv'
<1> DEFINE old == local[s].old
           new == local[s].new
           adopted == IF local[s].adopt THEN {new} ELSE {}
<1>1. old \in Present(status) /\ new \in Present(status) /\ old \in Ids /\ new \in Ids
  BY DEF SupersedeWrite, Present
<1>2. /\ status' = [k \in Ids |-> IF k = old THEN "superseded"
                                 ELSE IF k \in adopted THEN "promoted" ELSE status[k]]
      /\ promoter' = [k \in Ids |-> IF k \in adopted THEN "human" ELSE promoter[k]]
      /\ supersededBy' = [supersededBy EXCEPT ![old] = new]
      /\ supersessions' = supersessions \cup {<<old, new>>}
      /\ UNCHANGED <<row, openPairs, closedPairs, extracted, summarised, filings>>
  BY DEF SupersedeWrite, Supersession
<1>3. \A k \in adopted : k = new
  OBVIOUS
<1> HIDE DEF old, new, adopted
<1>4. Present(status') = Present(status)
  BY <1>1, <1>2, <1>3 DEF Present
<1>5. TypeOK'
  BY <1>1, <1>2, <1>3 DEF IInv, TypeOK, Statuses, Present
<1>6. ReferencesHold'
  BY <1>1, <1>2, <1>4 DEF IInv, ReferencesHold, TypeOK
<1>7. ReplacementOnRecord'
  BY <1>1, <1>2 DEF IInv, ReplacementOnRecord, TypeOK, With
<1> QED BY <1>5, <1>6, <1>7, ForgetKeeps DEF SupersedeWrite, IInv

\* A row that an insert can write is a row.
LEMMA RowsAreThere ==
    ASSUME NEW text \in Texts, NEW src \in Sources, NEW sure \in BOOLEAN,
           NEW f \in 0 .. MaxFilings
    PROVE  [text |-> text, source |-> src, sure |-> sure, filing |-> f] \in Rows \ {NoRow}
<1> DEFINE r == [text |-> text, source |-> src, sure |-> sure, filing |-> f]
<1>1. r \in Rows
  BY DEF Rows
<1>2. r.filing = f /\ NoRow.filing = MaxFilings + 1
  BY DEF NoRow
<1>3. f # MaxFilings + 1
  BY LedgerAssumption
<1> HIDE DEF r
<1>4. r \in Rows \ {NoRow}
  BY <1>1, <1>2, <1>3
<1> QED BY <1>4 DEF r

LEMMA FileCandidateStep ==
    ASSUME IInv, NEW s \in Sessions, FileCandidate(s) PROVE IInv'
<1>1. PICK new \in Ids, text \in Texts, src \in Sources :
        /\ NextId(status, new)
        /\ row' = [row EXCEPT ![new] = [text |-> text, source |-> src,
                                        sure |-> FALSE, filing |-> 0]]
        /\ status' = [status EXCEPT ![new] = "promoted"]
        /\ promoter' = [promoter EXCEPT ![new] = "human"]
  BY DEF FileCandidate
<1>2. Present(status) \subseteq Present(status')
  BY <1>1 DEF Present, IInv, TypeOK
<1>3. [text |-> text, source |-> src, sure |-> FALSE, filing |-> 0] \in Rows \ {NoRow}
  <2>1. 0 \in 0 .. MaxFilings
    BY LedgerAssumption
  <2> QED BY <2>1, RowsAreThere
<1>4. TypeOK'
  BY <1>1, <1>3 DEF FileCandidate, IInv, TypeOK, Statuses
<1>5. ReferencesHold' /\ ReplacementOnRecord'
  <2>1. UNCHANGED <<supersededBy, supersessions, openPairs, closedPairs>>
    BY DEF FileCandidate
  <2>2. ReferencesHold'
    BY <1>2, <2>1 DEF IInv, ReferencesHold
  <2>3. \A k \in Ids : status'[k] = "superseded" => status[k] = "superseded"
    BY <1>1 DEF IInv, TypeOK
  <2> QED BY <2>1, <2>2, <2>3 DEF IInv, ReplacementOnRecord, With
<1>6. LocalOK' /\ IsFunction(local)'
  BY DEF FileCandidate, IInv, LocalOK, IsFunction
<1> QED BY <1>4, <1>5, <1>6 DEF IInv

LEMMA ResolveStep ==
    ASSUME IInv, NEW s \in Sessions, Resolve(s) PROVE IInv'
BY DEF Resolve, IInv, TypeOK, LocalOK, IsFunction, ReferencesHold, ReplacementOnRecord,
       Present, With

(***************************************************************************)
(* The refile is the step that can break a reference: it deletes by ids it *)
(* read before the transaction.  What keeps the references is that it also *)
(* drops the contradictions of the deleted claims, and that the foreign    *)
(* keys stop it where a supersession names one of them.                    *)
(***************************************************************************)
LEMMA FileWriteStep ==
    ASSUME IInv, NEW s \in Sessions, FileWrite(s) PROVE IInv'
<1> DEFINE src == local[s].source
           gone == local[s].clear \cap Present(status)
           kept == [k \in Ids |-> IF k \in gone THEN "none" ELSE status[k]]
           Left(pairs) == {p \in pairs : ~Touches(p, gone)}
<1>1. src \in Sources
  BY DEF FileWrite, IInv, LocalOK, Idle
<1>2. PICK new \in Ids, text \in Texts, sure \in BOOLEAN :
        /\ status' = [kept EXCEPT ![new] = "pending"]
        /\ row' = [k \in Ids |->
                     IF k = new THEN [text |-> text, source |-> src, sure |-> sure,
                                      filing |-> filings + 1]
                     ELSE IF k \in gone THEN NoRow ELSE row[k]]
        /\ \E found \in {{}, OpposedPromoted(text, kept)} :
              openPairs' = Left(openPairs) \cup {<<k, new>> : k \in found}
  BY DEF FileWrite
<1>3. PICK found \in {{}, OpposedPromoted(text, kept)} :
        openPairs' = Left(openPairs) \cup {<<k, new>> : k \in found}
  BY <1>2
<1>4. /\ Deletable(gone)
      /\ closedPairs' = Left(closedPairs)
      /\ supersededBy' = [k \in Ids |-> IF k \in gone THEN NoId ELSE supersededBy[k]]
      /\ promoter' = [k \in Ids |-> IF k \in gone THEN "nobody" ELSE promoter[k]]
      /\ extracted' = extracted \cup {src}
      /\ summarised' \subseteq summarised \cup {src}
      /\ filings < MaxFilings /\ filings' = filings + 1
      /\ UNCHANGED supersessions
      /\ Forget(s)
  BY DEF FileWrite
<1>5. gone \subseteq Ids /\ found \subseteq Present(kept)
  <2>1. gone \subseteq Ids
    BY DEF Present
  <2>2. OpposedPromoted(text, kept) \subseteq Present(kept)
    BY DEF OpposedPromoted, With, Present
  <2> QED BY <2>1, <2>2
<1> HIDE DEF src, gone
<1>6. Present(status') = (Present(status) \ gone) \cup {new}
  BY <1>2, <1>5 DEF Present
<1>7. TypeOK'
  <2>1. filings' \in 0 .. MaxFilings /\ filings + 1 \in 0 .. MaxFilings
    BY <1>4, LedgerAssumption DEF IInv, TypeOK
  <2>2. [text |-> text, source |-> src, sure |-> sure, filing |-> filings + 1]
          \in Rows \ {NoRow}
    BY <1>1, <2>1, RowsAreThere
  <2>3. /\ row' \in [Ids -> Rows \cup {NoRow}]
        /\ \A k \in Ids : row'[k] = NoRow <=> status'[k] = "none"
    BY <1>2, <2>2 DEF IInv, TypeOK
  <2>4. status' \in [Ids -> Statuses \cup {"none"}]
    BY <1>2 DEF IInv, TypeOK, Statuses
  <2>5. supersededBy' \in [Ids -> Ids \cup {NoId}]
    BY <1>4 DEF IInv, TypeOK
  <2>6. openPairs' \subseteq Ids \X Ids
    <3>1. Left(openPairs) \subseteq Ids \X Ids
      BY DEF IInv, TypeOK
    <3>2. found \subseteq Ids
      BY <1>5 DEF Present
    <3>3. {<<k, new>> : k \in found} \subseteq Ids \X Ids
      BY <3>2
    <3> QED BY <1>3, <3>1, <3>3
  <2>7. supersessions' \subseteq Ids \X Ids /\ closedPairs' \subseteq Ids \X Ids
    BY <1>4 DEF IInv, TypeOK
  <2>8. extracted' \subseteq Sources /\ summarised' \subseteq Sources
    BY <1>1, <1>4 DEF IInv, TypeOK
  <2>9. promoter' \in [Ids -> {"nobody", "gate", "human"}]
    BY <1>4 DEF IInv, TypeOK
  <2> QED BY <2>1, <2>3, <2>4, <2>5, <2>6, <2>7, <2>8, <2>9 DEF TypeOK
<1>8. ReferencesHold'
  <2>1. ASSUME NEW p \in supersessions
        PROVE  {p[1], p[2]} \subseteq Present(status)'
    BY <1>4, <1>6 DEF IInv, ReferencesHold, Deletable, Touches
  <2>2. ASSUME NEW p \in Left(openPairs) \cup Left(closedPairs)
        PROVE  {p[1], p[2]} \subseteq Present(status)'
    BY <1>6 DEF IInv, ReferencesHold, Touches
  <2>3. \A k \in found : k \in Present(status)'
    BY <1>5, <1>6 DEF Present
  <2>4. ASSUME NEW p \in {<<k, new>> : k \in found}
        PROVE  {p[1], p[2]} \subseteq Present(status)'
    BY <1>6, <2>3
  <2>5. ASSUME NEW k \in Ids PROVE supersededBy'[k] \in Present(status)' \cup {NoId}
    BY <1>4, <1>6 DEF IInv, ReferencesHold, Deletable
  <2> QED BY <1>3, <1>4, <2>1, <2>2, <2>4, <2>5 DEF ReferencesHold
<1>9. ReplacementOnRecord'
  BY <1>2, <1>4 DEF IInv, TypeOK, ReplacementOnRecord, With
<1> QED BY <1>4, <1>7, <1>8, <1>9, ForgetKeeps DEF IInv

LEMMA StepIInv == IInv /\ [Next]_vars => IInv'
<1> SUFFICES ASSUME IInv, [Next]_vars PROVE IInv'
  OBVIOUS
<1>1. CASE UNCHANGED vars
  BY <1>1 DEF vars, db, IInv, TypeOK, LocalOK, IsFunction, ReferencesHold,
     ReplacementOnRecord, Present, With
<1>2. ASSUME NEW s \in Sessions,
             \/ FileRead(s) \/ FileWrite(s) \/ FileCandidate(s)
             \/ Gate(s) \/ Review(s) \/ Abort(s)
      PROVE  IInv'
  BY <1>2, ReadStep, FileWriteStep, FileCandidateStep, GateWriteStep, ReviewWriteStep,
     SupersedeWriteStep, ResolveStep DEF Gate, Review
<1> QED BY <1>1, <1>2 DEF Next

LEMMA InvariantIInv == Spec => []IInv
BY InitIInv, StepIInv, PTL DEF Spec

\* The tables keep their shape: a row exactly where there is a status.
THEOREM TypeCorrect == Spec => []TypeOK
<1>1. IInv => TypeOK BY DEF IInv
<1> QED BY <1>1, InvariantIInv, PTL

\* No contradiction, supersession or superseded_by pointer ever dangles.
THEOREM NoDanglingReference == Spec => []ReferencesHold
<1>1. IInv => ReferencesHold BY DEF IInv
<1> QED BY <1>1, InvariantIInv, PTL

\* Every superseded claim names a replacement, and its supersession is recorded.
THEOREM ReplacementKnown == Spec => []ReplacementOnRecord
<1>1. IInv => ReplacementOnRecord BY DEF IInv
<1> QED BY <1>1, InvariantIInv, PTL

-----------------------------------------------------------------------------
(***************************************************************************)
(* One operation at a time (module ClaimsAndPages)                         *)
(***************************************************************************)
\* What a filing under way is about to delete: everything its source had extracted, and
\* nothing that is trusted.
FilingOK(r) ==
    /\ r.clear \subseteq Present(status)
    /\ \A k \in r.clear : status[k] \notin {"promoted", "superseded"}
    /\ \A k \in Present(status) :
          row[k].source = r.source /\ row[k].filing # 0 => k \in r.clear

\* As long as operations have not overlapped, one session at most is at work.
SerialOK ==
    /\ \A k \in Present(status) : row[k].filing # 0 => row[k].source \in extracted
    /\ ~overlapped => /\ \A s, t \in Sessions : s # t => local[s] = Idle \/ local[t] = Idle
                      /\ \A s \in Sessions : local[s].op = "file" => FilingOK(local[s])

SerialInv == IInv /\ SerialOK /\ ExtractedOnce

LEMMA SerialInitOK == LedgerInit => SerialInv
<1> SUFFICES ASSUME LedgerInit PROVE SerialInv
  OBVIOUS
<1>1. Present(status) = {} /\ \A s \in Sessions : local[s] = Idle
  BY DEF LedgerInit, Init, Present
<1>2. IInv
  BY InitIInv DEF LedgerInit
<1> QED BY <1>1, <1>2 DEF SerialInv, SerialOK, ExtractedOnce, Idle

\* A session goes on by itself; it changes a status only if it was at work before.
LEMMA OwnStep ==
    ASSUME SerialInv, NEW s \in Sessions, NEW r, Remember(s, r),
           overlapped' = (overlapped \/ Overlap'),
           UNCHANGED <<row, extracted>>, Present(status') = Present(status),
           status' = status \/ local[s] # Idle,
           r.op = "file" => FilingOK(r)'
    PROVE  SerialOK' /\ ExtractedOnce'
<1>1. ~overlapped' => ~overlapped /\ ~Overlap'
  OBVIOUS
<1>2. local'[s] = r /\ \A t \in Sessions \ {s} : local'[t] = local[t]
  BY DEF SerialInv, IInv, IsFunction, Remember
<1>3. \A q : status' = status => FilingOK(q)' = FilingOK(q)
  BY DEF FilingOK, Present
<1>4. \A k \in Present(status') : row'[k].filing # 0 => row'[k].source \in extracted'
  BY DEF SerialInv, SerialOK
<1>5. ASSUME ~overlapped', NEW t \in Sessions, local'[t].op = "file", NEW q, q = local'[t]
      PROVE  FilingOK(q)'
  <2>1. CASE t = s
    BY <1>2, <1>5, <2>1
  <2>2. CASE t # s
    <3>1. q = local[t] /\ q # Idle
      BY <1>2, <1>5, <2>2 DEF Idle
    <3>2. status' = status /\ FilingOK(q)
      BY <1>1, <1>5, <2>2, <3>1 DEF SerialInv, SerialOK
    <3> QED BY <1>3, <3>2
  <2> QED BY <2>1, <2>2
<1>6. SerialOK'
  BY <1>1, <1>4, <1>5 DEF SerialOK, Overlap
<1>7. ExtractedOnce'
  BY <1>1 DEF SerialInv, ExtractedOnce
<1> QED BY <1>6, <1>7

LEMMA SerialFileRead ==
    ASSUME SerialInv, NEW s \in Sessions, FileRead(s), overlapped' = (overlapped \/ Overlap')
    PROVE  SerialOK' /\ ExtractedOnce'
<1>1. PICK src \in Sources, withSummary \in BOOLEAN :
         /\ src \in extracted => Clearable(src)
         /\ Remember(s, [op |-> "file", source |-> src, clear |-> ToClear(src),
                         summary |-> withSummary /\ src \notin summarised])
  BY DEF FileRead
<1> PICK r : r = [op |-> "file", source |-> src, clear |-> ToClear(src),
                  summary |-> withSummary /\ src \notin summarised]
  OBVIOUS
<1>2. Remember(s, r) /\ r.source = src /\ r.clear = ToClear(src)
  BY <1>1
<1>3. UNCHANGED <<row, status, extracted>>
  BY DEF FileRead, db
<1>4. FilingOK(r)
  BY <1>1, <1>2 DEF FilingOK, ToClear, ClaimsOf, Clearable, SerialInv, SerialOK
<1>5. FilingOK(r)' /\ Present(status') = Present(status)
  BY <1>3, <1>4 DEF FilingOK, Present
<1> QED BY <1>2, <1>3, <1>5, OwnStep

\* The other reads, and the end of an operation: nothing is about to be filed.
LEMMA SerialRead ==
    ASSUME SerialInv, NEW s \in Sessions, overlapped' = (overlapped \/ Overlap'),
           \/ Abort(s) \/ ReviewRead(s) \/ SupersedeRead(s)
           \/ GateRead(s) \/ GateHold(s) \/ GatePass(s)
    PROVE  SerialOK' /\ ExtractedOnce'
<1>1. UNCHANGED <<row, status, extracted>> /\ Present(status') = Present(status)
  BY DEF Abort, ReviewRead, SupersedeRead, GateRead, GateHold, GatePass, db, Present
<1>2. \E r : Remember(s, r) /\ r.op # "file"
  <2>1. CASE GateHold(s)
    <3> DEFINE rest == Rest(local[s].todo)
    <3> PICK r : r = IF DOMAIN rest = {} THEN Idle ELSE [op |-> "gate", todo |-> rest]
      OBVIOUS
    <3>1. Remember(s, r)
      BY <2>1 DEF GateHold
    <3>2. r.op # "file"
      BY DEF Idle
    <3> QED BY <3>1, <3>2
  <2>2. CASE ReviewRead(s)
    BY <2>2 DEF ReviewRead
  <2>3. CASE SupersedeRead(s)
    BY <2>3 DEF SupersedeRead
  <2>4. CASE Abort(s)
    BY <2>4 DEF Abort, Forget, Idle
  <2>5. CASE GateRead(s)
    BY <2>5 DEF GateRead
  <2>6. CASE GatePass(s)
    BY <2>6 DEF GatePass
  <2> QED BY <2>1, <2>2, <2>3, <2>4, <2>5, <2>6
<1> QED BY <1>1, <1>2, OwnStep

LEMMA SerialReview ==
    ASSUME SerialInv, NEW s \in Sessions, overlapped' = (overlapped \/ Overlap'),
           GateWrite(s) \/ ReviewWrite(s) \/ SupersedeWrite(s)
    PROVE  SerialOK' /\ ExtractedOnce'
<1>1. Remember(s, Idle) /\ UNCHANGED <<row, extracted>> /\ local[s] # Idle /\ Idle.op # "file"
  BY DEF GateWrite, ReviewWrite, SupersedeWrite, Forget, Idle
<1>2. Present(status') = Present(status)
  <2>1. CASE GateWrite(s)
    <3>1. PICK winners \in SUBSET DOMAIN local[s].todo :
             status' = [k \in Ids |-> IF k \in Updated(winners) THEN "promoted" ELSE status[k]]
      BY <2>1 DEF GateWrite
    <3> QED BY <3>1 DEF Present, Updated
  <2>2. CASE ReviewWrite(s)
    <3>1. local[s].claim \in Ids /\ local[s].verdict \in {"promoted", "rejected"}
      BY <2>2 DEF ReviewWrite, SerialInv, IInv, LocalOK, Idle
    <3> QED BY <2>2, <3>1 DEF ReviewWrite, SerialInv, IInv, TypeOK, Present
  <2>3. CASE SupersedeWrite(s)
    <3> DEFINE old == local[s].old
               adopted == IF local[s].adopt THEN {local[s].new} ELSE {}
    <3>1. /\ old \in Present(status) /\ \A k \in adopted : k \in Present(status)
          /\ status' = [k \in Ids |-> IF k = old THEN "superseded"
                                      ELSE IF k \in adopted THEN "promoted" ELSE status[k]]
      BY <2>3 DEF SupersedeWrite
    <3> HIDE DEF old, adopted
    <3> QED BY <3>1 DEF Present
  <2> QED BY <2>1, <2>2, <2>3
<1> QED BY <1>1, <1>2, OwnStep

\* One-step operations of another: they add a claim no filing has to clear, or none.
LEMMA SerialOneStep ==
    ASSUME SerialInv, NEW s \in Sessions, overlapped' = (overlapped \/ Overlap'),
           FileCandidate(s) \/ Resolve(s)
    PROVE  SerialOK' /\ ExtractedOnce'
<1>1. UNCHANGED <<local, extracted>> /\ (~overlapped' => ~overlapped)
  BY DEF FileCandidate, Resolve
<1>2. /\ Present(status) \subseteq Present(status')
      /\ \A k \in Present(status) : row'[k] = row[k] /\ status'[k] = status[k]
      /\ \A k \in Present(status') \ Present(status) : row'[k].filing = 0
  <2>1. CASE Resolve(s)
    BY <2>1 DEF Resolve
  <2>2. CASE FileCandidate(s)
    <3>1. PICK new \in Ids, text \in Texts, src \in Sources :
            /\ NextId(status, new)
            /\ row' = [row EXCEPT ![new] = [text |-> text, source |-> src,
                                            sure |-> FALSE, filing |-> 0]]
            /\ status' = [status EXCEPT ![new] = "promoted"]
      BY <2>2 DEF FileCandidate
    <3>2. new \notin Present(status)
      BY <3>1 DEF NextId, Ids
    <3>3. \A k \in Ids : k # new => row'[k] = row[k] /\ status'[k] = status[k]
      BY <3>1 DEF SerialInv, IInv, TypeOK
    <3>4. row'[new].filing = 0 /\ status'[new] = "promoted"
      BY <3>1 DEF SerialInv, IInv, TypeOK
    <3> QED BY <3>2, <3>3, <3>4 DEF Present
  <2> QED BY <2>1, <2>2
<1>3. \A q : FilingOK(q) => FilingOK(q)'
  BY <1>2 DEF FilingOK
<1>4. SerialOK'
  BY <1>1, <1>2, <1>3 DEF SerialInv, SerialOK
<1>5. ExtractedOnce'
  BY <1>1, <1>2 DEF SerialInv, ExtractedOnce
<1> QED BY <1>4, <1>5

\* What a filing does to the rows that were there.
LEMMA FilingRows ==
    ASSUME IInv, NEW s \in Sessions, FileWrite(s)
    PROVE  \E new \in Ids :
              LET gone == local[s].clear \cap Present(status) IN
              /\ Present(status') = (Present(status) \ gone) \cup {new}
              /\ new \notin Present(status) \ gone
              /\ row'[new].source = local[s].source /\ row'[new].filing = filings + 1
              /\ \A k \in Ids \ (gone \cup {new}) : row'[k] = row[k] /\ status'[k] = status[k]
<1> DEFINE gone == local[s].clear \cap Present(status)
           kept == [k \in Ids |-> IF k \in gone THEN "none" ELSE status[k]]
<1>1. PICK new \in Ids, text \in Texts, sure \in BOOLEAN :
        /\ NextId(kept, new)
        /\ status' = [kept EXCEPT ![new] = "pending"]
        /\ row' = [k \in Ids |->
                     IF k = new THEN [text |-> text, source |-> local[s].source, sure |-> sure,
                                      filing |-> filings + 1]
                     ELSE IF k \in gone THEN NoRow ELSE row[k]]
  BY DEF FileWrite
<1>2. Present(kept) = Present(status) \ gone
  BY DEF Present
<1>3. new \notin Present(kept)
  BY <1>1 DEF NextId, Ids
<1> HIDE DEF gone
<1>4. Present(status') = Present(kept) \cup {new}
  BY <1>1 DEF Present
<1>5. row'[new].source = local[s].source /\ row'[new].filing = filings + 1
  BY <1>1
<1>6. \A k \in Ids \ (gone \cup {new}) : row'[k] = row[k] /\ status'[k] = status[k]
  BY <1>1
<1> QED BY <1>2, <1>3, <1>4, <1>5, <1>6 DEF gone

LEMMA SerialFileWrite ==
    ASSUME SerialInv, NEW s \in Sessions, FileWrite(s), overlapped' = (overlapped \/ Overlap')
    PROVE  SerialOK' /\ ExtractedOnce'
<1> DEFINE gone == local[s].clear \cap Present(status)
<1>1. PICK new \in Ids :
              /\ Present(status') = (Present(status) \ gone) \cup {new}
              /\ new \notin Present(status) \ gone
              /\ row'[new].source = local[s].source /\ row'[new].filing = filings + 1
              /\ \A k \in Ids \ (gone \cup {new}) : row'[k] = row[k] /\ status'[k] = status[k]
  BY FilingRows DEF SerialInv
<1>2. /\ local[s].op = "file" /\ local[s] # Idle
      /\ extracted' = extracted \cup {local[s].source} /\ Remember(s, Idle)
  BY DEF FileWrite, Forget, Idle
<1>3. ~overlapped' => ~overlapped
  OBVIOUS
<1>4. local'[s] = Idle /\ \A t \in Sessions \ {s} : local'[t] = local[t]
  BY <1>2 DEF SerialInv, IInv, IsFunction, Remember
<1>5. ~overlapped => \A t \in Sessions : local'[t] = Idle
  BY <1>2, <1>4 DEF SerialInv, SerialOK
<1>6. \A k \in Present(status') : row'[k].filing # 0 => row'[k].source \in extracted'
  BY <1>1, <1>2 DEF SerialInv, SerialOK, Present
<1>7. SerialOK'
  BY <1>3, <1>5, <1>6 DEF SerialOK, Idle
<1>8. ~overlapped => \A k \in Present(status) \ gone :
                        row[k].source # local[s].source \/ row[k].filing = 0
  BY <1>2 DEF SerialInv, SerialOK, FilingOK
<1>9. ExtractedOnce'
  <2> SUFFICES ASSUME ~overlapped', NEW j \in Present(status'), NEW k \in Present(status'),
                      row'[j].source = row'[k].source, row'[j].filing # 0, row'[k].filing # 0
               PROVE  row'[j].filing = row'[k].filing
    BY DEF ExtractedOnce
  <2> HIDE DEF gone
  <2>1. \A i \in Present(status') \ {new} : i \in Present(status) \ gone /\ row'[i] = row[i]
    BY <1>1 DEF Present
  <2>2. CASE j # new /\ k # new
    BY <1>3, <2>1, <2>2 DEF SerialInv, ExtractedOnce
  <2>3. CASE j = new /\ k # new
    BY <1>1, <1>3, <1>8, <2>1, <2>3
  <2>4. CASE j # new /\ k = new
    BY <1>1, <1>3, <1>8, <2>1, <2>4
  <2> QED BY <2>2, <2>3, <2>4
<1> QED BY <1>7, <1>9

LEMMA SerialStep == SerialInv /\ [LedgerNext]_ledgerVars => SerialInv'
<1> SUFFICES ASSUME SerialInv, [LedgerNext]_ledgerVars PROVE SerialInv'
  OBVIOUS
<1>1. ASSUME UNCHANGED <<vars, overlapped>>
      PROVE  SerialInv'
  <2>1. IInv'
    BY <1>1, StepIInv DEF SerialInv
  <2> QED BY <1>1, <2>1 DEF SerialInv, SerialOK, ExtractedOnce, FilingOK, Present, vars, db
<1>2. ASSUME LedgerStep
      PROVE  SerialInv'
  <2>1. IInv'
    BY <1>2, StepIInv DEF SerialInv, LedgerStep
  <2>2. overlapped' = (overlapped \/ Overlap')
    BY <1>2 DEF LedgerStep
  <2>3. PICK s \in Sessions : \/ FileRead(s) \/ FileWrite(s) \/ FileCandidate(s)
                              \/ Gate(s) \/ Review(s) \/ Abort(s)
    BY <1>2 DEF LedgerStep, Next
  <2>4. SerialOK' /\ ExtractedOnce'
    BY <2>2, <2>3, SerialFileRead, SerialRead, SerialReview, SerialOneStep, SerialFileWrite
       DEF Gate, Review
  <2> QED BY <2>1, <2>4 DEF SerialInv
<1>3. CASE WikiStep
  BY <1>1, <1>3 DEF WikiStep
<1>4. CASE UNCHANGED ledgerVars
  BY <1>1, <1>4 DEF ledgerVars
<1> QED BY <1>2, <1>3, <1>4 DEF LedgerNext

LEMMA SerialKept == LedgerSpec => []SerialInv
BY SerialInitOK, SerialStep, PTL DEF LedgerSpec

\* However sources are extracted and refiled, gated, reviewed and superseded, one operation
\* after the other: no two extractions of one source ever coexist (file_claims_data).
THEOREM SourcesAreExtractedOnce == LedgerSpec => []ExtractedOnce
<1>1. SerialInv => ExtractedOnce BY DEF SerialInv
<1> QED BY <1>1, SerialKept, PTL

\* Nor does a refile ever drop a claim that is truth or was replaced by truth.
THEOREM TruthIsNotDropped == LedgerSpec => TrustedRowsStay
<1>1. SerialInv /\ [LedgerNext]_ledgerVars =>
        [~overlapped =>
           \A k \in Ids : status[k] \in {"promoted", "superseded"} => row'[k] = row[k]]_ledgerVars
  <2> SUFFICES ASSUME SerialInv, LedgerNext, ~overlapped,
                      NEW k \in Ids, status[k] \in {"promoted", "superseded"}
               PROVE  row'[k] = row[k]
    OBVIOUS
  <2>1. k \in Present(status)
    BY DEF Present
  <2>2. CASE UNCHANGED row
    BY <2>2
  <2>3. ASSUME NEW s \in Sessions, FileWrite(s)
        PROVE  row'[k] = row[k]
    <3>1. k \notin local[s].clear
      BY <2>3 DEF SerialInv, SerialOK, FilingOK, FileWrite
    <3> QED BY <2>1, <2>3, <3>1, FilingRows DEF SerialInv
  <2>4. ASSUME NEW s \in Sessions, FileCandidate(s)
        PROVE  row'[k] = row[k]
    <3>0. PICK new \in Ids : NextId(status, new) /\ \E r : row' = [row EXCEPT ![new] = r]
      BY <2>4 DEF FileCandidate
    <3>1. PICK r : row' = [row EXCEPT ![new] = r]
      BY <3>0
    <3>2. k # new
      BY <2>1, <3>0 DEF NextId, Ids
    <3> QED BY <3>1, <3>2 DEF SerialInv, IInv, TypeOK
  <2>5. CASE LedgerStep
    BY <2>2, <2>3, <2>4, <2>5 DEF LedgerStep, Next, FileRead, Gate, GateRead, GateHold, GatePass,
       GateWrite, Review, ReviewRead, ReviewWrite, SupersedeRead, SupersedeWrite, Resolve, Abort, db
  <2>6. CASE WikiStep
    BY <2>2, <2>6 DEF WikiStep, vars, db
  <2> QED BY <2>5, <2>6 DEF LedgerNext
<1> QED BY <1>1, SerialKept, PTL DEF LedgerSpec, TrustedRowsStay

-----------------------------------------------------------------------------
(***************************************************************************)
(* The pages (module Pages)                                                *)
(***************************************************************************)
\* What a page's file says is true of the page.
Shows(p) == files[p].there /\ files[p].shown = Wiki!Basis(p) /\ files[p].prose = table.prose[p]

\* For every page that nobody has to render again.
AllShown ==
    \A p \in Wiki!EntityPages : p \in table.have \ table.dirty =>
        Shows(p) /\ Wiki!Basis(p) # {}

IsMap(f, D) == f = [x \in D |-> f[x]]
TableOK(rows) ==
    /\ {"have", "dirty", "prose", "stamp"} \subseteq DOMAIN rows
    /\ IsMap(rows.prose, Wiki!Pages) /\ IsMap(rows.stamp, Wiki!Pages)

Looping == {"page", "write", "clear"}
LoopFields == {"at", "op", "all", "alone", "changed", "todo", "read", "rows", "review", "page", "view"}

\* What a job is, whatever happens beside it.
JobOK(k) ==
    /\ k.at \in {"idle", "reconcile", "review", "drafted"} \cup Looping
    /\ k.at = "idle" => k = Wiki!Idle
    /\ k # Wiki!Idle => {"at", "alone"} \subseteq DOMAIN k
    /\ k.at = "reconcile" => {"at", "op", "all", "alone", "want", "seen"} \subseteq DOMAIN k
    /\ k.at = "review" => {"at", "op", "alone", "review"} \subseteq DOMAIN k
    /\ k.at = "drafted" => {"at", "op", "alone", "review", "page", "basis"} \subseteq DOMAIN k
    /\ k.at \in Looping => LoopFields \subseteq DOMAIN k /\ TableOK(k.rows)

\* What a render knows of an entity's page, as long as nobody else has written: it is in
\* order when its turn has come, and was in order before if it had no turn.
PageOK(k, p) ==
    /\ Wiki!Basis(p) # {}
    /\ k.rows.prose[p] = table.prose[p] /\ k.read.prose[p] = table.prose[p]
    /\ p \in k.read.dirty \/ p \in table.have \ table.dirty
    /\ \/ ~k.all /\ p \notin k.read.dirty
       \/ p \in k.todo
       \/ k.at = "write" /\ k.page = p
       \/ Shows(p)

\* The same of the whole job of a session.
Informed(k, s) ==
    /\ k.at = "reconcile" => k.want = Wiki!Wanted /\ k.seen = table.have
    /\ k.at \in Looping =>
         /\ lock = s \/ k.rows = table
         /\ k.todo \subseteq k.rows.have
         /\ \A p \in Wiki!EntityPages \cap k.rows.have : PageOK(k, p)
    /\ k.at = "write" => k.page \in k.rows.have
    /\ k.at = "write" /\ k.page \in Wiki!EntityPages =>
         /\ k.view.there /\ k.view.shown = Wiki!Basis(k.page)
         /\ k.view.prose = table.prose[k.page]

PageStatuses == {"none", "pending", "promoted", "rejected", "superseded"}

PagesTyped ==
    /\ pageStatus \in [PageClaims -> PageStatuses]
    /\ TableOK(table) /\ IsMap(files, Wiki!Pages) /\ IsMap(pageJob, Sessions)

JobsOK ==
    \A s \in Sessions : /\ JobOK(pageJob[s])
                        /\ lock = s => pageJob[s].at \in Looping
                        /\ pageJob[s] # Wiki!Idle /\ pageJob[s].alone =>
                              Informed(pageJob[s], s)

\* As long as nobody raced, every job is alone, and clean pages show the truth.
UnracedOK ==
    ~pageRaced => /\ \A s \in Sessions : pageJob[s] # Wiki!Idle => pageJob[s].alone
                  /\ AllShown

PagesInv == PagesTyped /\ JobsOK /\ UnracedOK

-----------------------------------------------------------------------------
LEMMA Kinds ==
    /\ \A p \in Wiki!EntityPages : /\ p \in Wiki!Pages /\ p[1] = "entity"
                                   /\ p \notin {Wiki!Index, Wiki!LedgerPage, Wiki!Digest, Wiki!Essay}
                                   /\ p \notin Wiki!SourcePages
    /\ Wiki!Index \in Wiki!Pages /\ Wiki!LedgerPage \in Wiki!Pages
    /\ Wiki!Digest \in Wiki!Pages /\ Wiki!Essay \in Wiki!Pages
BY DEF Wiki!EntityPages, Wiki!SourcePages, Wiki!Pages, Wiki!Index, Wiki!LedgerPage, Wiki!Digest,
       Wiki!Essay

LEMMA SamePageSet == Wiki!Pages' = Wiki!Pages
BY DEF Wiki!Pages, Wiki!EntityPages, Wiki!SourcePages, Wiki!Index, Wiki!LedgerPage, Wiki!Digest,
       Wiki!Essay

LEMMA EntityOf ==
    ASSUME NEW p \in Wiki!EntityPages
    PROVE  Wiki!Of(p) = {c \in PageClaims : p[2] \in About[c]}
BY Kinds DEF Wiki!Of

LEMMA EntitySays ==
    ASSUME NEW p \in Wiki!EntityPages, NEW read, NEW now
    PROVE  /\ Wiki!View(p, read, now).there
           /\ Wiki!View(p, read, now).shown = Wiki!Basis(p)
           /\ Wiki!View(p, read, now).prose = read.prose[p]
<1>1. Wiki!View(p, read, now) = Wiki!EntityView(p, read)
  BY Kinds DEF Wiki!View
<1> QED BY <1>1 DEF Wiki!EntityView, Wiki!Saying

\* A page is about the same claims after a step that changes the trust of none of them.
LEMMA SameBasis ==
    ASSUME NEW p \in Wiki!EntityPages,
           \A c \in PageClaims : p[2] \in About[c] =>
              (pageStatus'[c] = "promoted" <=> pageStatus[c] = "promoted")
    PROVE  Wiki!Basis(p)' = Wiki!Basis(p)
<1>1. Wiki!Of(p)' = Wiki!Of(p)
  BY DEF Wiki!Of
<1> QED BY <1>1, EntityOf DEF Wiki!Basis, Wiki!Trusted, Wiki!With

LEMMA PagesInitOK == LedgerInit => PagesInv
<1> SUFFICES ASSUME LedgerInit PROVE PagesInv
  OBVIOUS
<1>1. \A s \in Sessions : pageJob[s] = Wiki!Idle
  BY DEF LedgerInit, Wiki!Init
<1>2. PagesTyped
  BY DEF LedgerInit, Wiki!Init, Wiki!NoRows, PagesTyped, PageStatuses, TableOK, IsMap
<1>3. JobOK(Wiki!Idle) /\ Wiki!Idle.at = "idle"
  BY DEF JobOK, Wiki!Idle, Looping
<1>4. JobsOK
  BY <1>1, <1>3, PagesAssumption DEF LedgerInit, Wiki!Init, JobsOK, Wiki!PagesGiven
<1>5. table.have = {}
  BY DEF LedgerInit, Wiki!Init, Wiki!NoRows
<1> QED BY <1>1, <1>2, <1>4, <1>5 DEF PagesInv, UnracedOK, AllShown

-----------------------------------------------------------------------------
\* Jobs go on independently.
LEMMA OneGoesOn ==
    ASSUME PagesTyped, NEW s \in Sessions, NEW next, Wiki!Read(s, next)
    PROVE  /\ IsMap(pageJob', Sessions) /\ pageJob'[s] = next /\ pageRaced' = pageRaced
           /\ \A t \in Sessions \ {s} : pageJob'[t] = pageJob[t]
BY DEF PagesTyped, IsMap, Wiki!Read

\* A step that only reads: it must leave its own job in order.
LEMMA ReadOK ==
    ASSUME PagesInv, NEW s \in Sessions, NEW next, Wiki!Read(s, next),
           UNCHANGED <<pageStatus, pageOpen, table, files>>,
           \/ lock' = lock
           \/ lock \in {s, NoSession} /\ lock' \in {s, NoSession},
           JobOK(next), lock' = s => next.at \in Looping,
           next # Wiki!Idle => next.alone \/ (pageJob[s] # Wiki!Idle /\ (next.alone <=> pageJob[s].alone)),
           next # Wiki!Idle /\ next.alone => Informed(next, s)'
    PROVE  PagesInv'
<1>1. /\ IsMap(pageJob', Sessions) /\ pageJob'[s] = next /\ pageRaced' = pageRaced
      /\ \A t \in Sessions \ {s} : pageJob'[t] = pageJob[t]
  BY OneGoesOn DEF PagesInv
<1>2. PagesTyped'
  BY <1>1 DEF PagesInv, PagesTyped, TableOK
<1>3. \A p : Shows(p)' = Shows(p) /\ Wiki!Basis(p)' = Wiki!Basis(p)
  BY DEF Shows, Wiki!Basis, Wiki!Trusted, Wiki!With, Wiki!Of
<1>4. \A k, t : (lock' = t <=> lock = t) => Informed(k, t)' = Informed(k, t)
  BY <1>3 DEF Informed, PageOK, Wiki!Wanted, Wiki!Basis, Wiki!Trusted, Wiki!With, Wiki!Of
<1>5. \A t \in Sessions \ {s} : lock' = t <=> lock = t
  BY PagesAssumption DEF Wiki!PagesGiven
<1>6. JobsOK'
  <2> SUFFICES ASSUME NEW t \in Sessions, NEW k, k = pageJob'[t]
               PROVE  /\ JobOK(k)
                      /\ lock' = t => k.at \in Looping
                      /\ k # Wiki!Idle /\ k.alone => Informed(k, t)'
    BY DEF JobsOK
  <2>1. CASE t = s
    BY <1>1, <2>1
  <2>2. CASE t # s
    <3>1. k = pageJob[t] /\ (lock' = t <=> lock = t)
      BY <1>1, <1>5, <2>2
    <3>2. Informed(k, t)' = Informed(k, t)
      BY <1>4, <3>1
    <3> QED BY <3>1, <3>2 DEF PagesInv, JobsOK
  <2> QED BY <2>1, <2>2
<1>7. UnracedOK'
  <2> SUFFICES ASSUME ~pageRaced
               PROVE  /\ \A t \in Sessions : pageJob'[t] # Wiki!Idle => pageJob'[t].alone
                      /\ AllShown'
    BY <1>1 DEF UnracedOK
  <2>1. AllShown'
    BY <1>3 DEF PagesInv, UnracedOK, AllShown
  <2>2. \A t \in Sessions : pageJob'[t] # Wiki!Idle => pageJob'[t].alone
    BY <1>1 DEF PagesInv, UnracedOK
  <2> QED BY <2>1, <2>2
<1> QED BY <1>2, <1>6, <1>7 DEF PagesInv

\* What becomes of a job when somebody writes beside it.
LEMMA DisturbedOK ==
    ASSUME NEW k, JobOK(k), k # Wiki!Idle
    PROVE  LET d == [k EXCEPT !.alone = FALSE]
           IN JobOK(d) /\ d.at = k.at /\ d # Wiki!Idle /\ d.alone = FALSE
<1> DEFINE d == [k EXCEPT !.alone = FALSE]
<1>1. {"at", "alone"} \subseteq DOMAIN k /\ k.at # "idle"
  BY DEF JobOK
<1>2. DOMAIN d = DOMAIN k /\ d.at = k.at /\ d.alone = FALSE
  BY <1>1
<1>3. "rows" \in DOMAIN k => d.rows = k.rows
  OBVIOUS
<1>4. Wiki!Idle.at = "idle"
  BY DEF Wiki!Idle
<1> HIDE DEF d
<1>5. d # Wiki!Idle
  BY <1>1, <1>2, <1>4
<1>6. JobOK(d)
  BY <1>1, <1>2, <1>3, <1>5 DEF JobOK, LoopFields
<1> QED BY <1>2, <1>5, <1>6 DEF d

LEMMA OneWrites ==
    ASSUME PagesTyped, NEW s \in Sessions, NEW next, Wiki!Write(s, next)
    PROVE  /\ IsMap(pageJob', Sessions) /\ pageJob'[s] = next
           /\ \A t \in Sessions \ {s} :
                 pageJob'[t] = IF pageJob[t] = Wiki!Idle THEN Wiki!Idle
                               ELSE [pageJob[t] EXCEPT !.alone = FALSE]
           /\ ~pageRaced' => /\ ~pageRaced
                             /\ \A t \in Sessions \ {s} : pageJob[t] = Wiki!Idle
BY DEF IsMap, Wiki!Write

\* A write: the jobs beside it are alone no longer, and know nothing any more.
LEMMA WriteOK ==
    ASSUME PagesInv, NEW s \in Sessions, NEW next, Wiki!Write(s, next),
           pageStatus' \in [PageClaims -> PageStatuses],
           TableOK(table)', IsMap(files', Wiki!Pages),
           \/ lock' = lock
           \/ lock \in {s, NoSession} /\ lock' \in {s, NoSession},
           JobOK(next), lock' = s => next.at \in Looping,
           next # Wiki!Idle => next.alone \/ (pageJob[s] # Wiki!Idle /\ (next.alone <=> pageJob[s].alone)),
           next # Wiki!Idle /\ next.alone => Informed(next, s)',
           ~pageRaced' => AllShown'
    PROVE  PagesInv'
<1>1. /\ IsMap(pageJob', Sessions) /\ pageJob'[s] = next
      /\ \A t \in Sessions \ {s} :
            pageJob'[t] = IF pageJob[t] = Wiki!Idle THEN Wiki!Idle
                          ELSE [pageJob[t] EXCEPT !.alone = FALSE]
      /\ ~pageRaced' => /\ ~pageRaced
                        /\ \A t \in Sessions \ {s} : pageJob[t] = Wiki!Idle
  BY OneWrites DEF PagesInv
<1>2. PagesTyped'
  BY <1>1, SamePageSet DEF PagesTyped
<1>3. \A t \in Sessions \ {s} : lock' = t <=> lock = t
  BY PagesAssumption DEF Wiki!PagesGiven
<1>4. JobsOK'
  <2> SUFFICES ASSUME NEW t \in Sessions, NEW k, k = pageJob'[t]
               PROVE  /\ JobOK(k)
                      /\ lock' = t => k.at \in Looping
                      /\ k # Wiki!Idle /\ k.alone => Informed(k, t)'
    BY DEF JobsOK
  <2>1. CASE t = s
    BY <1>1, <2>1
  <2>2. CASE t # s
    <3>1. JobOK(pageJob[t]) /\ (lock' = t => pageJob[t].at \in Looping)
      BY <1>3, <2>2 DEF PagesInv, JobsOK
    <3>2. CASE pageJob[t] = Wiki!Idle
      BY <1>1, <2>2, <3>1, <3>2
    <3>3. CASE pageJob[t] # Wiki!Idle
      <4>1. k = [pageJob[t] EXCEPT !.alone = FALSE]
        BY <1>1, <2>2, <3>3
      <4>2. JobOK(k) /\ k.at = pageJob[t].at /\ k.alone = FALSE
        BY <3>1, <3>3, <4>1, DisturbedOK
      <4> QED BY <3>1, <4>2
    <3> QED BY <3>2, <3>3
  <2> QED BY <2>1, <2>2
<1>5. UnracedOK'
  BY <1>1 DEF PagesInv, UnracedOK
<1> QED BY <1>2, <1>4, <1>5 DEF PagesInv

-----------------------------------------------------------------------------
\* A commit that leaves every page clean that was clean, about the same truth.
LEMMA CommitOK ==
    ASSUME PagesInv, NEW s \in Sessions, Wiki!Commit(s),
           pageStatus' \in [PageClaims -> PageStatuses],
           TableOK(table)',
           \A p \in Wiki!EntityPages : p \in table'.have \ table'.dirty =>
              /\ p \in table.have \ table.dirty
              /\ Wiki!Basis(p)' = Wiki!Basis(p) /\ table'.prose[p] = table.prose[p]
    PROVE  PagesInv'
<1>1. Wiki!Write(s, Wiki!Idle) /\ UNCHANGED <<files, lock>> /\ lock = NoSession
  BY DEF Wiki!Commit
<1>2. JobOK(Wiki!Idle)
  BY DEF JobOK, Wiki!Idle, Looping
<1>3. ~pageRaced' => ~pageRaced
  BY <1>1, OneWrites DEF PagesInv
<1>4. ~pageRaced' => AllShown'
  BY <1>1, <1>3 DEF PagesInv, UnracedOK, AllShown, Shows
<1>5. lock' # s
  BY <1>1, PagesAssumption DEF Wiki!PagesGiven
<1>6. IsMap(files', Wiki!Pages)
  BY <1>1 DEF PagesInv, PagesTyped
<1> QED BY <1>1, <1>2, <1>4, <1>5, <1>6, WriteOK

\* A review that marks the pages about every claim whose trust it changes.
LEMMA MarkedOK ==
    ASSUME PagesInv, NEW s \in Sessions, Wiki!Commit(s), NEW some,
           pageStatus' \in [PageClaims -> PageStatuses],
           table' = Wiki!Mark(table, some),
           \A c \in PageClaims \ some :
              pageStatus'[c] = "promoted" <=> pageStatus[c] = "promoted"
    PROVE  PagesInv'
<1>1. TableOK(table)
  BY DEF PagesInv, PagesTyped
<1>2. /\ {"have", "dirty", "prose", "stamp"} \subseteq DOMAIN table'
      /\ table'.have = table.have /\ table'.prose = table.prose /\ table'.stamp = table.stamp
      /\ table'.dirty = table.dirty \cup {p \in table.have : p[1] \in {"entity", "source"}
                                                               /\ Wiki!Of(p) \cap some # {}}
  BY <1>1 DEF TableOK, Wiki!Mark
<1>3. TableOK(table)'
  BY <1>1, <1>2, SamePageSet DEF TableOK, IsMap
<1>4. ASSUME NEW p \in Wiki!EntityPages, p \in table'.have \ table'.dirty
      PROVE  Wiki!Basis(p)' = Wiki!Basis(p)
  <2>1. Wiki!Of(p) \cap some = {}
    BY <1>2, <1>4, Kinds
  <2>2. \A c \in PageClaims : p[2] \in About[c] => c \notin some
    BY <2>1, EntityOf
  <2> QED BY <2>2, SameBasis
<1> QED BY <1>2, <1>3, <1>4, CommitOK

\* A review that changes no trust in what an entity's page is about.
LEMMA UnmarkedOK ==
    ASSUME PagesInv, NEW s \in Sessions, Wiki!Commit(s),
           pageStatus' \in [PageClaims -> PageStatuses],
           TableOK(table)', table'.have = table.have, table.dirty \subseteq table'.dirty,
           table'.prose = table.prose,
           \A c \in PageClaims : About[c] # {} =>
              (pageStatus'[c] = "promoted" <=> pageStatus[c] = "promoted")
    PROVE  PagesInv'
<1>1. \A p \in Wiki!EntityPages : Wiki!Basis(p)' = Wiki!Basis(p)
  BY SameBasis
<1> QED BY <1>1, CommitOK

LEMMA ReviewsOK ==
    ASSUME PagesInv, NEW s \in Sessions, Wiki!Review(s)
    PROVE  PagesInv'
<1> USE DEF Wiki!Judge
<1>0. /\ pageStatus \in [PageClaims -> PageStatuses]
      /\ TableOK(table)
  BY DEF PagesInv, PagesTyped
<1>1. ASSUME NEW c \in PageClaims, Wiki!FileClaim(s, c)
      PROVE  PagesInv'
  <2>1. Wiki!Commit(s) /\ pageStatus' = [pageStatus EXCEPT ![c] = "pending"]
                       /\ pageStatus[c] = "none"
    BY <1>1 DEF Wiki!FileClaim
  <2>2. PICK more : table' = [table EXCEPT !.dirty = @ \cup more] \/ table' = table
    BY <1>1 DEF Wiki!FileClaim
  <2>3. /\ TableOK(table)' /\ table'.have = table.have /\ table.dirty \subseteq table'.dirty
        /\ table'.prose = table.prose
    BY <1>0, <2>2, SamePageSet DEF TableOK, IsMap
  <2> QED BY <1>0, <2>1, <2>3, UnmarkedOK DEF PageStatuses
<1>2. ASSUME NEW c \in PageClaims, Wiki!Refile(s, c)
      PROVE  PagesInv'
  <2>1. Wiki!Commit(s) /\ pageStatus' = [pageStatus EXCEPT ![c] = "none"]
                       /\ pageStatus[c] \in {"pending", "rejected"} /\ table' = table
    BY <1>2 DEF Wiki!Refile
  <2>2. TableOK(table)'
    BY <1>0, <2>1, SamePageSet DEF TableOK, IsMap
  <2> QED BY <1>0, <2>1, <2>2, UnmarkedOK DEF PageStatuses
<1>3. ASSUME NEW c \in PageClaims, Wiki!Promote(s, c) \/ Wiki!Reject(s, c)
      PROVE  PagesInv'
  <2>1. PICK st \in {"promoted", "rejected"} :
           /\ Wiki!Commit(s) /\ pageStatus' = [pageStatus EXCEPT ![c] = st]
           /\ table' = Wiki!Mark(table, {c})
    BY <1>3 DEF Wiki!Promote, Wiki!Reject
  <2> QED BY <1>0, <2>1, MarkedOK DEF PageStatuses
<1>4. ASSUME NEW c \in PageClaims, Wiki!PromoteCandidate(s, c)
      PROVE  PagesInv'
  <2>1. Wiki!Commit(s) /\ pageStatus' = [pageStatus EXCEPT ![c] = "promoted"]
                       /\ About[c] = {} /\ table' = table
    BY <1>4 DEF Wiki!PromoteCandidate
  <2>2. TableOK(table)'
    BY <1>0, <2>1, SamePageSet DEF TableOK, IsMap
  <2> QED BY <1>0, <2>1, <2>2, UnmarkedOK DEF PageStatuses
<1>5. ASSUME NEW c \in PageClaims, NEW d \in PageClaims, Wiki!Supersede(s, c, d)
      PROVE  PagesInv'
  <2>1. /\ Wiki!Commit(s) /\ table' = Wiki!Mark(table, {c, d})
        /\ pageStatus' = [pageStatus EXCEPT ![c] = "superseded",
                                            ![d] = IF @ = "pending" THEN "promoted" ELSE @]
    BY <1>5 DEF Wiki!Supersede
  <2>2. pageStatus' \in [PageClaims -> PageStatuses]
    BY <1>0, <2>1 DEF PageStatuses
  <2>3. \A e \in PageClaims \ {c, d} : pageStatus'[e] = pageStatus[e]
    BY <1>0, <2>1
  <2> QED BY <2>1, <2>2, <2>3, MarkedOK
<1>6. ASSUME NEW x \in pageOpen, Wiki!Resolve(s, x)
      PROVE  PagesInv'
  <2>1. Wiki!Commit(s) /\ table' = Wiki!Mark(table, x) /\ pageStatus' = pageStatus
    BY <1>6 DEF Wiki!Resolve
  <2> QED BY <1>0, <2>1, MarkedOK
<1> QED BY <1>1, <1>2, <1>3, <1>4, <1>5, <1>6 DEF Wiki!Review

\* A row for the digest or for an essay.
LEMMA OtherRowsOK ==
    ASSUME PagesInv, NEW s \in Sessions, Wiki!EnsureDigest(s) \/ Wiki!SetEssay(s)
    PROVE  PagesInv'
<1>0. /\ pageStatus \in [PageClaims -> PageStatuses]
      /\ TableOK(table)
  BY DEF PagesInv, PagesTyped
<1>1. Wiki!Commit(s) /\ UNCHANGED pageStatus
  BY DEF Wiki!EnsureDigest, Wiki!SetEssay
<1>2. PICK q \in {Wiki!Digest, Wiki!Essay} :
         table' = Wiki!Dirtied(q) \/ table' = [Wiki!Dirtied(q) EXCEPT !.prose[Wiki!Essay] = {Wiki!Trusted}]
  BY DEF Wiki!EnsureDigest, Wiki!SetEssay
<1>3. /\ {"have", "dirty", "prose", "stamp"} \subseteq DOMAIN table'
      /\ table'.have = table.have \cup {q} /\ table'.dirty = table.dirty \cup {q}
      /\ table'.prose \in {table.prose, [table.prose EXCEPT ![Wiki!Essay] = {Wiki!Trusted}]}
      /\ table'.stamp = table.stamp
  BY <1>0, <1>2 DEF TableOK, Wiki!Dirtied
<1>4. TableOK(table)'
  BY <1>0, <1>3, SamePageSet DEF TableOK, IsMap
<1>5. \A p \in Wiki!EntityPages : /\ table'.prose[p] = table.prose[p]
                                  /\ p \in table'.have \ table'.dirty => p \in table.have \ table.dirty
  BY <1>0, <1>3, Kinds DEF TableOK, IsMap
<1>6. \A p \in Wiki!EntityPages : Wiki!Basis(p)' = Wiki!Basis(p)
  BY <1>1, SameBasis
<1>7. ASSUME NEW p \in Wiki!EntityPages, p \in table'.have \ table'.dirty
      PROVE  /\ p \in table.have \ table.dirty
             /\ Wiki!Basis(p)' = Wiki!Basis(p) /\ table'.prose[p] = table.prose[p]
  <2>1. Wiki!Basis(p)' = Wiki!Basis(p)
    BY <1>6
  <2> QED BY <1>5, <1>7, <2>1
<1>8. pageStatus' \in [PageClaims -> PageStatuses]
  BY <1>0, <1>1
<1> QED BY <1>1, <1>4, <1>7, <1>8, CommitOK

-----------------------------------------------------------------------------
\* What the invariant says of one session.
LEMMA OfOne ==
    ASSUME PagesInv, NEW s \in Sessions
    PROVE  /\ JobOK(pageJob[s])
           /\ lock = s => pageJob[s].at \in Looping
           /\ pageJob[s] # Wiki!Idle /\ pageJob[s].alone => Informed(pageJob[s], s)
           /\ ~pageRaced /\ pageJob[s] # Wiki!Idle => pageJob[s].alone
           /\ ~pageRaced => AllShown
           /\ TableOK(table) /\ IsMap(files, Wiki!Pages)
           /\ pageStatus \in [PageClaims -> PageStatuses]
BY DEF PagesInv, PagesTyped, JobsOK, UnracedOK

LEMMA IdleOK == JobOK(Wiki!Idle) /\ Wiki!Idle.at = "idle"
BY DEF JobOK, Wiki!Idle, Looping

\* What a session reads of its own rows.
LEMMA OwnRows ==
    ASSUME PagesInv, NEW s \in Sessions, pageJob[s].at \in Looping
    PROVE  /\ TableOK(Wiki!Rows(s))
           /\ pageJob[s].alone => Wiki!Rows(s) = pageJob[s].rows
<1>1. pageJob[s] # Wiki!Idle
  BY IdleOK DEF Looping
<1> QED BY <1>1, OfOne DEF JobOK, Informed, Wiki!Rows

LEMMA SamePages ==
    ASSUME UNCHANGED <<pageStatus, table, files>>
    PROVE  /\ Wiki!Wanted' = Wiki!Wanted
           /\ \A p : Shows(p)' = Shows(p) /\ Wiki!Basis(p)' = Wiki!Basis(p)
           /\ \A k, p : PageOK(k, p)' = PageOK(k, p)
BY DEF Shows, PageOK, Wiki!Wanted, Wiki!Basis, Wiki!Trusted, Wiki!With, Wiki!Of

\* A render of what the rows and the claims are now.
LEMMA RenderingOK ==
    ASSUME PagesInv, NEW s \in Sessions, NEW op, NEW all, lock # s,
           Wiki!Read(s, Wiki!Rendering(op, all)),
           UNCHANGED <<pageStatus, pageOpen, table, files, lock>>
    PROVE  PagesInv'
<1> PICK next : next = Wiki!Rendering(op, all)
  OBVIOUS
<1>1. /\ DOMAIN next = {"at", "op", "all", "alone", "want", "seen"}
      /\ next.at = "reconcile" /\ next.alone = TRUE
      /\ next.want = Wiki!Wanted /\ next.seen = table.have
  BY DEF Wiki!Rendering
<1>2. Wiki!Read(s, next)
  OBVIOUS
<1>3. Wiki!Wanted' = Wiki!Wanted
  BY SamePages
<1>4. JobOK(next)
  BY <1>1, IdleOK DEF JobOK, Looping
<1>5. Informed(next, s)'
  BY <1>1, <1>3 DEF Informed, Looping
<1> QED BY <1>1, <1>2, <1>4, <1>5, ReadOK

LEMMA RenderBeginOK ==
    ASSUME PagesInv, NEW s \in Sessions, Wiki!RenderBegin(s)
    PROVE  PagesInv'
<1>1. lock # s
  BY OfOne, IdleOK DEF Wiki!RenderBegin, Looping
<1>2. PICK how : Wiki!Read(s, Wiki!Rendering(how[1], how[2]))
  BY DEF Wiki!RenderBegin
<1> QED BY <1>1, <1>2, RenderingOK DEF Wiki!RenderBegin

LEMMA DraftEndOK ==
    ASSUME PagesInv, NEW s \in Sessions, Wiki!DraftEnd(s)
    PROVE  PagesInv'
<1>1. lock # s
  BY OfOne DEF Wiki!DraftEnd, Looping
<1> QED BY <1>1, RenderingOK DEF Wiki!DraftEnd

LEMMA AbortOK ==
    ASSUME PagesInv, NEW s \in Sessions, Wiki!Abort(s)
    PROVE  PagesInv'
<1>1. lock' = IF lock = s THEN NoSession ELSE lock
  BY DEF Wiki!Abort
<1>2. lock' # s
  BY <1>1, PagesAssumption DEF Wiki!PagesGiven
<1>3. lock' = lock \/ (lock \in {s, NoSession} /\ lock' \in {s, NoSession})
  BY <1>1
<1> QED BY <1>2, <1>3, IdleOK, ReadOK DEF Wiki!Abort

LEMMA DraftReadOK ==
    ASSUME PagesInv, NEW s \in Sessions, Wiki!DraftRead(s)
    PROVE  PagesInv'
<1> DEFINE k == pageJob[s]
<1>1. k.at = "review" /\ lock # s /\ UNCHANGED <<pageStatus, pageOpen, table, files, lock>>
  BY OfOne DEF Wiki!DraftRead, Looping
<1>2. k # Wiki!Idle
  BY <1>1, IdleOK
<1>3. JobOK(k) /\ {"at", "op", "alone", "review"} \subseteq DOMAIN k
  BY <1>1, OfOne DEF JobOK
<1>4. ASSUME NEW next, Wiki!Read(s, next), next.at \in {"review", "drafted"},
             JobOK(next), next # Wiki!Idle, next.alone = k.alone
      PROVE  PagesInv'
  <2>1. Informed(next, s)'
    BY <1>4 DEF Informed, Looping
  <2> QED BY <1>1, <1>2, <1>4, <2>1, ReadOK
<1>5. ASSUME NEW p, Wiki!Read(s, [k EXCEPT !.review = @ \ {p}])
      PROVE  PagesInv'
  <2> PICK next : next = [k EXCEPT !.review = @ \ {p}]
    OBVIOUS
  <2>1. DOMAIN next = DOMAIN k /\ next.at = "review" /\ next.alone = k.alone
    BY <1>1, <1>3
  <2>2. Wiki!Read(s, next)
    BY <1>5
  <2>3. next # Wiki!Idle /\ JobOK(next)
    BY <1>3, <2>1, IdleOK DEF JobOK, Looping
  <2> QED BY <1>4, <2>1, <2>2, <2>3
<1>6. ASSUME NEW p, Wiki!Read(s, [at |-> "drafted", op |-> k.op, alone |-> k.alone,
                                  review |-> k.review \ {p}, page |-> p, basis |-> Wiki!Basis(p)])
      PROVE  PagesInv'
  <2> PICK next : next = [at |-> "drafted", op |-> k.op, alone |-> k.alone,
                          review |-> k.review \ {p}, page |-> p, basis |-> Wiki!Basis(p)]
    OBVIOUS
  <2>1. /\ DOMAIN next = {"at", "op", "alone", "review", "page", "basis"}
        /\ next.at = "drafted" /\ next.alone = k.alone
    OBVIOUS
  <2>2. Wiki!Read(s, next)
    BY <1>6
  <2>3. next # Wiki!Idle /\ JobOK(next)
    BY <2>1, IdleOK DEF JobOK, Looping
  <2> QED BY <1>4, <2>1, <2>2, <2>3
<1> QED BY <1>5, <1>6 DEF Wiki!DraftRead

\* The drafted page is dirty.
LEMMA DraftWriteOK ==
    ASSUME PagesInv, NEW s \in Sessions, Wiki!DraftWrite(s)
    PROVE  PagesInv'
<1> DEFINE k == pageJob[s]
<1> PICK next : next = [at |-> "review", op |-> k.op, alone |-> k.alone, review |-> k.review]
  OBVIOUS
<1>1. /\ k.at = "drafted" /\ lock = NoSession /\ k.page \in table.have
      /\ UNCHANGED <<pageStatus, pageOpen, files, lock>>
      /\ Wiki!Write(s, next)
      /\ table' = [Wiki!Dirtied(k.page) EXCEPT !.prose[k.page] = {k.basis},
                                               !.stamp[k.page] = {Wiki!Basis(k.page)}]
  BY DEF Wiki!DraftWrite
<1>2. k # Wiki!Idle
  BY <1>1, IdleOK
<1>3. /\ {"have", "dirty", "prose", "stamp"} \subseteq DOMAIN table'
      /\ table'.have = table.have \cup {k.page} /\ table'.dirty = table.dirty \cup {k.page}
      /\ table'.prose = [table.prose EXCEPT ![k.page] = {k.basis}]
      /\ table'.stamp = [table.stamp EXCEPT ![k.page] = {Wiki!Basis(k.page)}]
  BY <1>1, OfOne DEF TableOK, Wiki!Dirtied
<1>4. /\ DOMAIN next = {"at", "op", "alone", "review"}
      /\ next.at = "review" /\ next.alone = k.alone
  OBVIOUS
<1>5. next # Wiki!Idle /\ JobOK(next) /\ Informed(next, s)'
  BY <1>4, IdleOK DEF JobOK, Informed, Looping
<1>6. TableOK(table)'
  BY <1>3, OfOne, SamePageSet DEF TableOK, IsMap
<1>7. ~pageRaced' => AllShown'
  <2> SUFFICES ASSUME ~pageRaced', NEW p \in Wiki!EntityPages, p \in table'.have \ table'.dirty
               PROVE  Shows(p)' /\ Wiki!Basis(p)' # {}
    BY DEF AllShown
  <2>1. AllShown
    BY <1>1, OfOne, OneWrites DEF PagesInv
  <2>2. p \in table.have \ table.dirty /\ p # k.page
    BY <1>1, <1>3
  <2>3. Wiki!Basis(p)' = Wiki!Basis(p)
    BY <1>1, SameBasis
  <2>4. table'.prose[p] = table.prose[p]
    BY <1>3, <2>2, Kinds, OfOne DEF TableOK, IsMap
  <2>5. Shows(p) /\ Wiki!Basis(p) # {}
    BY <2>1, <2>2 DEF AllShown
  <2> QED BY <1>1, <2>3, <2>4, <2>5 DEF Shows
<1>8. IsMap(files', Wiki!Pages) /\ lock' # s
  BY <1>1, OfOne, PagesAssumption DEF Wiki!PagesGiven
<1>9. pageStatus' \in [PageClaims -> PageStatuses]
  BY <1>1, OfOne
<1> HIDE DEF k
<1> QED BY <1>1, <1>2, <1>4, <1>5, <1>6, <1>7, <1>8, <1>9, WriteOK DEF k

LEMMA ComputePageOK ==
    ASSUME PagesInv, NEW s \in Sessions, Wiki!ComputePage(s)
    PROVE  PagesInv'
<1> DEFINE k == pageJob[s]
<1>1. k.at = "page" /\ UNCHANGED <<pageStatus, pageOpen, table, files, lock>>
  BY DEF Wiki!ComputePage
<1>2. k # Wiki!Idle /\ JobOK(k) /\ LoopFields \subseteq DOMAIN k
  BY <1>1, IdleOK, OfOne DEF JobOK, Looping
<1>0. PICK p \in Wiki!Next1(k) :
         \E more : Wiki!Read(s, [k EXCEPT !.at = "write", !.page = p,
                                          !.view = Wiki!View(p, k.read, Wiki!Rows(s)),
                                          !.todo = @ \ {p}, !.review = more])
  BY DEF Wiki!ComputePage
<1>3. PICK more : Wiki!Read(s, [k EXCEPT !.at = "write", !.page = p,
                                         !.view = Wiki!View(p, k.read, Wiki!Rows(s)),
                                         !.todo = @ \ {p}, !.review = more])
  BY <1>0
<1> PICK next : next = [k EXCEPT !.at = "write", !.page = p,
                                 !.view = Wiki!View(p, k.read, Wiki!Rows(s)),
                                 !.todo = @ \ {p}, !.review = more]
  OBVIOUS
<1>4. /\ DOMAIN next = DOMAIN k /\ next.at = "write" /\ next.page = p
      /\ next.view = Wiki!View(p, k.read, Wiki!Rows(s)) /\ next.todo = k.todo \ {p}
      /\ next.rows = k.rows /\ next.read = k.read /\ next.all = k.all /\ next.alone = k.alone
  BY <1>2 DEF LoopFields
<1>5. next # Wiki!Idle /\ JobOK(next) /\ next.at \in Looping
  BY <1>1, <1>2, <1>4, IdleOK DEF JobOK, Looping
<1>6. ASSUME k.alone
      PROVE  Informed(next, s)'
  <2>1. Informed(k, s)
    BY <1>2, <1>6, OfOne
  <2>2. (lock = s \/ k.rows = table) /\ k.todo \subseteq k.rows.have /\ p \in k.todo
    BY <1>1, <2>1 DEF Informed, Looping, Wiki!Next1
  <2>3. ASSUME NEW q \in Wiki!EntityPages \cap k.rows.have
        PROVE  PageOK(next, q)'
    <3>1. PageOK(k, q)
      BY <1>1, <2>1, <2>3 DEF Informed, Looping
    <3>2. PageOK(next, q)
      BY <1>1, <1>4, <3>1 DEF PageOK
    <3> QED BY <1>1, <3>2, SamePages
  <2>4. ASSUME p \in Wiki!EntityPages
        PROVE  next.view.there /\ next.view.shown = Wiki!Basis(p) /\ next.view.prose = table.prose[p]
    <3>1. k.read.prose[p] = table.prose[p]
      BY <1>1, <2>1, <2>2, <2>4 DEF Informed, Looping, PageOK
    <3> QED BY <1>4, <2>4, <3>1, EntitySays
  <2>5. Wiki!Basis(p)' = Wiki!Basis(p)
    BY <1>1, SamePages
  <2> QED BY <1>1, <1>4, <2>2, <2>3, <2>4, <2>5 DEF Informed, Looping
<1>7. Wiki!Read(s, next)
  BY <1>3
<1> QED BY <1>1, <1>2, <1>4, <1>5, <1>6, <1>7, ReadOK

LEMMA WriteFileOK ==
    ASSUME PagesInv, NEW s \in Sessions, Wiki!WriteFile(s)
    PROVE  PagesInv'
<1> DEFINE k == pageJob[s]
<1>1. /\ k.at = "write" /\ UNCHANGED <<pageStatus, pageOpen, table, lock>>
      /\ files' = [files EXCEPT ![k.page] = k.view]
  BY DEF Wiki!WriteFile
<1>2. k # Wiki!Idle /\ JobOK(k) /\ LoopFields \subseteq DOMAIN k
  BY <1>1, IdleOK, OfOne DEF JobOK, Looping
<1>0. PICK at \in {"clear", "page"} :
         \E changed : Wiki!Write(s, [k EXCEPT !.at = at, !.changed = changed])
  BY DEF Wiki!WriteFile
<1>3. PICK changed : Wiki!Write(s, [k EXCEPT !.at = at, !.changed = changed])
  BY <1>0
<1> PICK next : next = [k EXCEPT !.at = at, !.changed = changed]
  OBVIOUS
<1>4. /\ DOMAIN next = DOMAIN k /\ next.at = at
      /\ next.todo = k.todo /\ next.page = k.page
      /\ next.rows = k.rows /\ next.read = k.read /\ next.all = k.all /\ next.alone = k.alone
  BY <1>2 DEF LoopFields
<1>5. next # Wiki!Idle /\ JobOK(next) /\ next.at \in Looping
  BY <1>1, <1>2, <1>4, IdleOK DEF JobOK, Looping
<1>6. IsMap(files', Wiki!Pages) /\ \A p \in Wiki!Pages \ {k.page} : files'[p] = files[p]
  BY <1>1, OfOne DEF IsMap
<1>7. \A p : Wiki!Basis(p)' = Wiki!Basis(p)
  BY <1>1 DEF Wiki!Basis, Wiki!Trusted, Wiki!With, Wiki!Of
<1>8. ASSUME k.alone, NEW p \in Wiki!EntityPages, Shows(p) \/ p = k.page
      PROVE  Shows(p)'
  <2>1. CASE p # k.page
    BY <1>1, <1>6, <1>7, <1>8, <2>1, Kinds DEF Shows
  <2>2. CASE p = k.page
    <3>1. Informed(k, s)
      BY <1>2, <1>8, OfOne
    <3>2. k.view.there /\ k.view.shown = Wiki!Basis(p) /\ k.view.prose = table.prose[p]
      BY <1>1, <2>2, <3>1 DEF Informed
    <3>3. files'[p] = k.view
      BY <1>1, <2>2, OfOne, Kinds DEF IsMap
    <3> QED BY <1>1, <1>7, <3>2, <3>3 DEF Shows
  <2> QED BY <2>1, <2>2
<1>9. ASSUME k.alone
      PROVE  Informed(next, s)'
  <2>1. Informed(k, s)
    BY <1>2, <1>9, OfOne
  <2>2. (lock = s \/ k.rows = table) /\ k.todo \subseteq k.rows.have
    BY <1>1, <2>1 DEF Informed, Looping
  <2>3. ASSUME NEW q \in Wiki!EntityPages \cap k.rows.have
        PROVE  PageOK(next, q)'
    <3>1. PageOK(k, q)
      BY <1>1, <2>1, <2>3 DEF Informed, Looping
    <3>2. Wiki!Basis(q)' = Wiki!Basis(q) /\ ((Shows(q) \/ q = k.page) => Shows(q)')
      BY <1>7, <1>8, <1>9
    <3> QED BY <1>1, <1>4, <3>1, <3>2 DEF PageOK
  <2> QED BY <1>1, <1>4, <2>2, <2>3 DEF Informed, Looping
<1>10. ~pageRaced' => AllShown'
  <2> SUFFICES ASSUME ~pageRaced', NEW p \in Wiki!EntityPages, p \in table'.have \ table'.dirty
               PROVE  Shows(p)' /\ Wiki!Basis(p)' # {}
    BY DEF AllShown
  <2>1. ~pageRaced
    BY <1>3, OneWrites DEF PagesInv
  <2>2. k.alone /\ Shows(p) /\ Wiki!Basis(p) # {}
    BY <1>1, <1>2, <2>1, OfOne DEF AllShown
  <2> QED BY <1>7, <1>8, <2>2
<1>11. TableOK(table)'
  BY <1>1, OfOne, SamePageSet DEF TableOK, IsMap
<1>12. pageStatus' \in [PageClaims -> PageStatuses]
  BY <1>1, OfOne
<1>13. Wiki!Write(s, next)
  BY <1>3
<1> QED BY <1>1, <1>2, <1>4, <1>5, <1>6, <1>9, <1>10, <1>11, <1>12, <1>13, WriteOK

LEMMA ClearMarkOK ==
    ASSUME PagesInv, NEW s \in Sessions, Wiki!ClearMark(s)
    PROVE  PagesInv'
<1> DEFINE k == pageJob[s]
<1>1. /\ k.at = "clear" /\ lock \in {s, NoSession} /\ lock' = s
      /\ UNCHANGED <<pageStatus, pageOpen, table, files>>
  BY DEF Wiki!ClearMark, Wiki!Writable
<1>2. k # Wiki!Idle /\ JobOK(k) /\ LoopFields \subseteq DOMAIN k
  BY <1>1, IdleOK, OfOne DEF JobOK, Looping
<1>3. TableOK(Wiki!Rows(s)) /\ (k.alone => Wiki!Rows(s) = k.rows)
  BY <1>1, OwnRows DEF Looping
<1> PICK rows : rows = [Wiki!Rows(s) EXCEPT !.dirty = @ \ {k.page}]
  OBVIOUS
<1> PICK next : next = [k EXCEPT !.at = "page", !.changed = TRUE, !.rows = rows]
  OBVIOUS
<1>4. TableOK(rows) /\ (k.alone => rows.have = k.rows.have /\ rows.prose = k.rows.prose)
  BY <1>3 DEF TableOK
<1>5. /\ DOMAIN next = DOMAIN k /\ next.at = "page" /\ next.rows = rows
      /\ next.todo = k.todo /\ next.page = k.page
      /\ next.read = k.read /\ next.all = k.all /\ next.alone = k.alone
  BY <1>2 DEF LoopFields
<1>6. next # Wiki!Idle /\ JobOK(next) /\ next.at \in Looping
  BY <1>1, <1>2, <1>4, <1>5, IdleOK DEF JobOK, Looping
<1>7. ASSUME k.alone
      PROVE  Informed(next, s)'
  <2>1. Informed(k, s)
    BY <1>2, <1>7, OfOne
  <2>2. k.todo \subseteq k.rows.have
    BY <1>1, <2>1 DEF Informed, Looping
  <2>3. ASSUME NEW q \in Wiki!EntityPages \cap k.rows.have
        PROVE  PageOK(next, q)'
    <3>1. PageOK(k, q)
      BY <1>1, <2>1, <2>3 DEF Informed, Looping
    <3>2. PageOK(next, q)
      BY <1>1, <1>4, <1>5, <1>7, <3>1 DEF PageOK
    <3> QED BY <1>1, <3>2, SamePages
  <2> QED BY <1>1, <1>4, <1>5, <1>7, <2>2, <2>3 DEF Informed, Looping
<1>8. Wiki!Read(s, next)
  BY DEF Wiki!ClearMark
<1> QED BY <1>1, <1>2, <1>5, <1>6, <1>7, <1>8, ReadOK

-----------------------------------------------------------------------------
\* What the reconciled rows are.
LEMMA ReconciledRows ==
    ASSUME PagesInv, NEW k
    PROVE  LET rows == Wiki!Reconciled(k) IN
           /\ TableOK(rows)
           /\ rows.have = (table.have \cup Wiki!New(k) \cup {Wiki!Index, Wiki!LedgerPage}) \ Wiki!Gone(k)
           /\ rows.dirty = (table.dirty \cup (rows.have \ table.have)) \cap rows.have
           /\ \A p \in Wiki!Pages \cap rows.have : rows.prose[p] = table.prose[p]
BY DEF Wiki!Reconciled, TableOK, IsMap

\* What a working render starts from.
LEMMA WorkingFields ==
    ASSUME NEW k, NEW rows, NEW changed, TableOK(rows),
           NEW next, next = Wiki!Working(k, rows, changed)
    PROVE  /\ DOMAIN next = LoopFields /\ next.at = "page" /\ next.rows = rows /\ next.read = rows
           /\ next.todo = Wiki!Todo(k, rows) /\ next.all = k.all /\ next.alone = k.alone
           /\ next # Wiki!Idle /\ JobOK(next) /\ next.at \in Looping
<1>1. /\ DOMAIN next = LoopFields /\ next.at = "page" /\ next.rows = rows /\ next.read = rows
      /\ next.todo = Wiki!Todo(k, rows) /\ next.all = k.all /\ next.alone = k.alone
  BY DEF Wiki!Working, LoopFields
<1>2. next # Wiki!Idle /\ JobOK(next) /\ next.at \in Looping
  BY <1>1, IdleOK DEF JobOK, Looping, LoopFields
<1> QED BY <1>1, <1>2

\* The pages of a job that knew what is wanted and there are wanted.
LEMMA ReconciledInformed ==
    ASSUME PagesInv, NEW s \in Sessions, pageJob[s].at = "reconcile", pageJob[s].alone,
           NEW rows, rows = Wiki!Reconciled(pageJob[s]),
           NEW next, NEW changed, next = Wiki!Working(pageJob[s], rows, changed),
           UNCHANGED <<pageStatus, table>>,
           lock' = s \/ rows = table
    PROVE  Informed(next, s)'
<1> DEFINE k == pageJob[s]
<1>1. Informed(k, s)
  BY OfOne, IdleOK
<1>2. k.want = Wiki!Wanted /\ k.seen = table.have
  BY <1>1 DEF Informed
<1>3. /\ TableOK(rows)
      /\ rows.have = (table.have \cup Wiki!New(k) \cup {Wiki!Index, Wiki!LedgerPage}) \ Wiki!Gone(k)
      /\ rows.dirty = (table.dirty \cup (rows.have \ table.have)) \cap rows.have
      /\ \A p \in Wiki!Pages \cap rows.have : rows.prose[p] = table.prose[p]
  BY ReconciledRows
<1>4. /\ next.at = "page" /\ next.rows = rows /\ next.read = rows
      /\ next.todo = Wiki!Todo(k, rows) /\ next.all = k.all
  BY <1>3, WorkingFields
<1>5. ASSUME NEW p \in Wiki!EntityPages \cap rows.have
      PROVE  PageOK(next, p)'
  <2>1. p \in k.want
    BY <1>2, <1>3, Kinds DEF Wiki!New, Wiki!Gone
  <2>2. Wiki!Basis(p) # {}
    BY <1>2, <2>1, Kinds DEF Wiki!Wanted
  <2>3. Wiki!Basis(p)' = Wiki!Basis(p)
    BY SameBasis
  <2>4. rows.prose[p] = table.prose[p]
    BY <1>3, Kinds
  <2>5. p \in rows.dirty \/ p \in table.have \ table.dirty
    BY <1>3
  <2>6. p \in next.todo \/ (~next.all /\ p \notin rows.dirty)
    BY <1>4 DEF Wiki!Todo
  <2> QED BY <1>4, <2>2, <2>3, <2>4, <2>5, <2>6 DEF PageOK
<1>6. next.todo \subseteq rows.have
  BY <1>4 DEF Wiki!Todo
<1>7. lock' = s \/ rows = table'
  OBVIOUS
<1> QED BY <1>4, <1>5, <1>6, <1>7 DEF Informed, Looping

\* Files go only where no clean page of an entity is.
LEMMA GoneFiles ==
    ASSUME PagesInv, NEW s \in Sessions, pageJob[s].at = "reconcile",
           NEW lost \in SUBSET Wiki!Gone(pageJob[s]),
           files' = [p \in Wiki!Pages |-> IF p \in lost THEN Wiki!NoFile ELSE files[p]],
           UNCHANGED <<pageStatus, pageOpen, table>>
    PROVE  IsMap(files', Wiki!Pages) /\ (~pageRaced => AllShown')
<1>1. IsMap(files', Wiki!Pages)
  BY DEF IsMap
<1>2. ASSUME ~pageRaced, NEW p \in Wiki!EntityPages, p \in table'.have \ table'.dirty
      PROVE  Shows(p)' /\ Wiki!Basis(p)' # {}
  <2>1. pageJob[s].alone /\ Informed(pageJob[s], s) /\ Shows(p) /\ Wiki!Basis(p) # {}
    BY <1>2, OfOne, IdleOK DEF AllShown
  <2>2. p \notin lost
    BY <2>1 DEF Informed, Wiki!Gone, Wiki!Wanted
  <2>3. files'[p] = files[p]
    BY <2>2, Kinds
  <2>4. Wiki!Basis(p)' = Wiki!Basis(p)
    BY SameBasis
  <2> QED BY <2>1, <2>3, <2>4 DEF Shows
<1> QED BY <1>1, <1>2 DEF AllShown

LEMMA ReconcilePagesOK ==
    ASSUME PagesInv, NEW s \in Sessions, Wiki!ReconcilePages(s)
    PROVE  PagesInv'
<1> DEFINE k == pageJob[s]
<1>1. k.at = "reconcile" /\ UNCHANGED <<pageStatus, pageOpen, table>> /\ lock # s /\ k # Wiki!Idle
  BY OfOne, IdleOK DEF Wiki!ReconcilePages, Looping
<1> PICK rows : rows = Wiki!Reconciled(k)
  OBVIOUS
<1>2. TableOK(rows)
  BY ReconciledRows
<1>3. ASSUME rows = table, NEW changed, Wiki!Read(s, Wiki!Working(k, table, changed)), UNCHANGED <<files, lock>>
      PROVE  PagesInv'
  <2> PICK next : next = Wiki!Working(k, rows, changed)
    OBVIOUS
  <2>1. next # Wiki!Idle /\ JobOK(next) /\ next.at \in Looping /\ next.alone = k.alone
    BY <1>2, WorkingFields
  <2>2. k.alone => Informed(next, s)'
    BY <1>1, <1>3, ReconciledInformed
  <2>3. Wiki!Read(s, next)
    BY <1>3
  <2> QED BY <1>1, <1>3, <2>1, <2>2, <2>3, ReadOK
<1>4. TableOK(table)'
  BY <1>1, OfOne, SamePageSet DEF TableOK, IsMap
<1>5. pageStatus' \in [PageClaims -> PageStatuses]
  BY <1>1, OfOne
<1>6. ASSUME lock = NoSession, lock' = s, NEW changed, Wiki!Write(s, Wiki!Working(k, rows, changed)),
             files' = [p \in Wiki!Pages |-> IF p \in Wiki!Gone(k) THEN Wiki!NoFile ELSE files[p]]
      PROVE  PagesInv'
  <2> PICK next : next = Wiki!Working(k, rows, changed)
    OBVIOUS
  <2>1. next # Wiki!Idle /\ JobOK(next) /\ next.at \in Looping /\ next.alone = k.alone
    BY <1>2, WorkingFields
  <2>2. k.alone => Informed(next, s)'
    BY <1>1, <1>6, ReconciledInformed
  <2>3. Wiki!Write(s, next)
    BY <1>6
  <2>4. IsMap(files', Wiki!Pages) /\ (~pageRaced => AllShown')
    BY <1>1, <1>6, GoneFiles
  <2>5. ~pageRaced' => AllShown'
    BY <2>3, <2>4, OneWrites DEF PagesInv
  <2> QED BY <1>1, <1>4, <1>5, <1>6, <2>1, <2>2, <2>3, <2>4, <2>5, WriteOK
<1>7. ASSUME NEW lost \in SUBSET Wiki!Gone(k), Wiki!Write(s, Wiki!Idle), UNCHANGED lock,
             files' = [p \in Wiki!Pages |-> IF p \in lost THEN Wiki!NoFile ELSE files[p]]
      PROVE  PagesInv'
  <2>1. IsMap(files', Wiki!Pages) /\ (~pageRaced => AllShown')
    BY <1>1, <1>7, GoneFiles
  <2>2. ~pageRaced' => AllShown'
    BY <1>7, <2>1, OneWrites DEF PagesInv
  <2> QED BY <1>1, <1>4, <1>5, <1>7, <2>1, <2>2, IdleOK, WriteOK
<1> QED BY <1>3, <1>6, <1>7 DEF Wiki!ReconcilePages

\* The end of a render: its rows are the table now.
LEMMA RenderEndOK ==
    ASSUME PagesInv, NEW s \in Sessions, Wiki!RenderEnd(s)
    PROVE  PagesInv'
<1> DEFINE k == pageJob[s]
<1>1. /\ k.at = "page" /\ k.todo = {} /\ UNCHANGED <<pageStatus, pageOpen>>
      /\ lock' = IF lock = s THEN NoSession ELSE lock
      /\ table' = Wiki!Rows(s)
  BY DEF Wiki!RenderEnd
<1>2. k # Wiki!Idle /\ JobOK(k) /\ LoopFields \subseteq DOMAIN k
  BY <1>1, IdleOK, OfOne DEF JobOK, Looping
<1>3. TableOK(Wiki!Rows(s)) /\ (k.alone => Wiki!Rows(s) = k.rows)
  BY <1>1, OwnRows DEF Looping
<1> PICK after : after = IF k.op = "synthesize"
                         THEN [at |-> "review", op |-> k.op, alone |-> k.alone, review |-> k.review]
                         ELSE Wiki!Idle
  OBVIOUS
<1>4. \/ after = Wiki!Idle
      \/ /\ DOMAIN after = {"at", "op", "alone", "review"}
         /\ after.at = "review" /\ after.alone = k.alone
  OBVIOUS
<1>5. JobOK(after) /\ Informed(after, s)' /\ after.at \in {"idle", "review"}
  BY <1>4, IdleOK DEF JobOK, Informed, Looping
<1>6. /\ IsMap(files', Wiki!Pages)
      /\ \A p \in Wiki!EntityPages : files'[p] = files[p]
  <2>1. files' = files \/ \E view : files' = [files EXCEPT ![Wiki!Index] = view]
    BY DEF Wiki!RenderEnd
  <2> QED BY <2>1, OfOne, Kinds DEF IsMap
<1>7. TableOK(table)'
  BY <1>1, <1>3, SamePageSet DEF TableOK, IsMap
<1>8. lock' # s /\ (lock' = lock \/ (lock \in {s, NoSession} /\ lock' \in {s, NoSession}))
  <2>1. lock' # s
    BY <1>1, PagesAssumption DEF Wiki!PagesGiven
  <2> QED BY <1>1, <2>1
<1>9. pageStatus' \in [PageClaims -> PageStatuses]
  BY <1>1, OfOne
<1>10. ASSUME k.alone, k.all \/ AllShown
       PROVE  AllShown'
  <2> SUFFICES ASSUME NEW p \in Wiki!EntityPages, p \in table'.have \ table'.dirty
               PROVE  Shows(p)' /\ Wiki!Basis(p)' # {}
    BY DEF AllShown
  <2>1. Informed(k, s) /\ table' = k.rows
    BY <1>1, <1>2, <1>3, <1>10, OfOne
  <2>2. PageOK(k, p)
    BY <1>1, <2>1 DEF Informed, Looping
  <2>3. Shows(p) \/ (~k.all /\ p \in table.have \ table.dirty)
    BY <1>1, <2>2 DEF PageOK
  <2>4. Shows(p) /\ Wiki!Basis(p) # {} /\ table'.prose[p] = table.prose[p]
    BY <1>10, <2>1, <2>2, <2>3 DEF PageOK, AllShown
  <2>5. Wiki!Basis(p)' = Wiki!Basis(p)
    BY <1>1, SameBasis
  <2> QED BY <1>6, <2>4, <2>5 DEF Shows
<1>11. ASSUME k.all, k.alone, \A t \in Sessions \ {s} : pageJob[t] = Wiki!Idle,
              pageJob' = [pageJob EXCEPT ![s] = after]
       PROVE  PagesInv'
  <2>1. /\ IsMap(pageJob', Sessions) /\ pageJob'[s] = after
        /\ \A t \in Sessions \ {s} : pageJob'[t] = Wiki!Idle
    BY <1>11 DEF PagesInv, PagesTyped, IsMap
  <2>2. PagesTyped'
    BY <1>6, <1>7, <1>9, <2>1, SamePageSet DEF PagesTyped, IsMap
  <2>3. \A t \in Sessions : lock' # t
    <3>1. \A t \in Sessions \ {s} : lock # t
      BY <1>11, OfOne, IdleOK DEF Looping
    <3> QED BY <1>1, <3>1, PagesAssumption DEF Wiki!PagesGiven
  <2>4. JobsOK'
    <3> SUFFICES ASSUME NEW t \in Sessions, NEW j, j = pageJob'[t]
                 PROVE  /\ JobOK(j)
                        /\ lock' = t => j.at \in Looping
                        /\ j # Wiki!Idle /\ j.alone => Informed(j, t)'
      BY DEF JobsOK
    <3> QED BY <1>5, <2>1, <2>3, IdleOK
  <2>5. UnracedOK'
    <3>1. \A t \in Sessions : pageJob'[t] # Wiki!Idle => pageJob'[t].alone
      BY <1>4, <1>11, <2>1
    <3> QED BY <1>10, <1>11, <3>1 DEF UnracedOK
  <2> QED BY <2>2, <2>4, <2>5 DEF PagesInv
<1>12. ASSUME Wiki!Write(s, after)
       PROVE  PagesInv'
  <2>1. ~pageRaced' => AllShown'
    BY <1>2, <1>10, <1>12, OfOne, OneWrites DEF PagesInv
  <2>2. after # Wiki!Idle => after.alone \/ (k # Wiki!Idle /\ (after.alone <=> k.alone))
    BY <1>2, <1>4
  <2> QED BY <1>5, <1>6, <1>7, <1>8, <1>9, <1>12, <2>1, <2>2, WriteOK
<1> QED BY <1>11, <1>12 DEF Wiki!RenderEnd

-----------------------------------------------------------------------------
LEMMA PagesStep == PagesInv /\ [LedgerNext]_ledgerVars => PagesInv'
<1> SUFFICES ASSUME PagesInv, [LedgerNext]_ledgerVars PROVE PagesInv'
  OBVIOUS
<1>1. ASSUME UNCHANGED pageVars
      PROVE  PagesInv'
  <2>1. UNCHANGED <<pageStatus, pageOpen, table, files, lock, pageJob, pageRaced>>
    BY <1>1 DEF pageVars
  <2>2. PagesTyped' /\ AllShown' = AllShown
    BY <2>1 DEF PagesInv, PagesTyped, TableOK, AllShown, Shows, Wiki!Basis, Wiki!Trusted, Wiki!With,
                Wiki!Of
  <2>3. \A k, t : Informed(k, t)' = Informed(k, t)
    BY <2>1, SamePages DEF Informed
  <2>4. JobsOK'
    <3> SUFFICES ASSUME NEW t \in Sessions, NEW j, j = pageJob'[t]
                 PROVE  /\ JobOK(j)
                        /\ lock' = t => j.at \in Looping
                        /\ j # Wiki!Idle /\ j.alone => Informed(j, t)'
      BY DEF JobsOK
    <3> QED BY <2>1, <2>3, OfOne
  <2>5. UnracedOK'
    BY <2>1, <2>2 DEF PagesInv, UnracedOK
  <2> QED BY <2>2, <2>4, <2>5 DEF PagesInv
<1>2. ASSUME NEW s \in Sessions, Wiki!Begin(s)
      PROVE  PagesInv'
  BY <1>2, ReviewsOK, OtherRowsOK, RenderBeginOK DEF Wiki!Begin
<1>3. ASSUME NEW s \in Sessions, Wiki!Step(s)
      PROVE  PagesInv'
  BY <1>3, ReconcilePagesOK, ComputePageOK, WriteFileOK, ClearMarkOK, RenderEndOK, DraftReadOK,
     DraftWriteOK, DraftEndOK, AbortOK DEF Wiki!Step
<1>4. CASE LedgerStep
  BY <1>1, <1>4 DEF LedgerStep
<1>5. CASE WikiStep
  <2>1. CASE Wiki!Rest
    BY <1>1, <2>1 DEF Wiki!Rest, Wiki!vars, pageVars
  <2> QED BY <1>2, <1>3, <1>5, <2>1 DEF WikiStep, Wiki!Next
<1>6. CASE UNCHANGED ledgerVars
  BY <1>1, <1>6 DEF ledgerVars
<1> QED BY <1>4, <1>5, <1>6 DEF LedgerNext

\* Whoever reviews, files, renders and drafts, and wherever any of them dies: as long as
\* no write came beside another's job, or a render of all pages has ended undisturbed since,
\* a clean page of an entity shows exactly the promoted claims about it (render.py).
THEOREM PagesShowTheTruth == LedgerSpec => []CleanPagesShowTheTruth
<1>1. LedgerInit => PagesInv
  BY PagesInitOK
<1>2. PagesInv /\ [LedgerNext]_ledgerVars => PagesInv'
  BY PagesStep
<1>3. PagesInv => CleanPagesShowTheTruth
  BY DEF PagesInv, UnracedOK, AllShown, Shows, CleanPagesShowTheTruth, Wiki!CleanPagesShowTheTruth
<1> QED BY <1>1, <1>2, <1>3, PTL DEF LedgerSpec
=============================================================================
