---------------------------- MODULE WindowProofs ----------------------------
(***************************************************************************)
(* What the window promises, for any documents, tax numbers, obligations,  *)
(* bounds and faults.                                                      *)
(***************************************************************************)
EXTENDS Window, TLAPS, WellFoundedInduction, SequenceTheorems

(***************************************************************************)
(* The least of a set of natural numbers is in it.                         *)
(***************************************************************************)

(* Counting down comes to an end.                                          *)
LEMMA NatWellFounded == IsWellFoundedOn({ss \in Nat \X Nat : ss[1] < ss[2]}, Nat)
BY NatLessThanWellFounded DEF OpToRel

(* Min answers with a member of the set, below every other.                *)
LEMMA MinIsIn ==
    ASSUME NEW S \in SUBSET Nat, S # {}
    PROVE  Min(S) \in S /\ \A y \in S : Min(S) <= y
<1> DEFINE Less == {ss \in Nat \X Nat : ss[1] < ss[2]}
<1>1. PICK x \in S : \A y \in S : <<y, x>> \notin Less
  <2>. HIDE DEF Less
  <2>. QED  BY NatWellFounded, WFMin DEF Less
<1>2. \A y \in S : x <= y
  <2>. TAKE y \in S
  <2>1. <<y, x>> \notin Less
    BY <1>1
  <2>. QED  BY <2>1
<1>. QED
  BY <1>2 DEF Min

(***************************************************************************)
(* The model.                                                              *)
(***************************************************************************)

(* What build_model makes of a vault whose parts have their types has its  *)
(* own.                                                                    *)
LEMMA BuildModelType ==
    ASSUME NEW invoices \in Seq(Invoices), NEW done \in SUBSET Obligations,
           NEW entries \in Seq(Entries), NEW p \in Profiles \union {None, Unreadable}
    PROVE  BuildModel(invoices, done, entries, p) \in Models \union {None}
BY DEF BuildModel, Models

(* The window's model is rebuilt, or an error or somebody else is to blame.*)
THEOREM ShowsTheVault == Spec => []ModelFresh
<1>1. Init => ModelFresh
  BY DEF Init, ModelFresh
<1>2. ModelFresh /\ [Next]_vars => ModelFresh'
  <2> SUFFICES ASSUME ModelFresh, [Next]_vars PROVE ModelFresh'
    OBVIOUS
  <2>1. CASE Reload
    BY <2>1 DEF Reload, Rebuilt, ModelFresh
  <2>2. CASE OpenReceipt \/ CloseReceipt \/ OpenProfile \/ CloseProfile \/ Tick
    BY <2>2 DEF OpenReceipt, CloseReceipt, OpenProfile, CloseProfile, Tick, vault, history, ModelFresh
  <2>3. CASE \E d \in Documents : ParseReceipt(d)
    BY <2>3 DEF ParseReceipt, Rebuilt, ModelFresh
  <2>4. CASE SaveReceipt
    BY <2>4 DEF SaveReceipt, Rebuilt, ModelFresh
  <2>5. CASE SaveReceiptFails \/ Spoil \/ \E o \in Obligations : CompleteFails(o)
    BY <2>5 DEF SaveReceiptFails, Spoil, CompleteFails, ModelFresh
  <2>6. CASE \E o \in Obligations : Complete(o)
    BY <2>6 DEF Complete, Rebuilt, ModelFresh
  <2>7. CASE \E nif \in Nifs : SaveProfile(nif)
    BY <2>7 DEF SaveProfile, Rebuilt, ModelFresh
  <2>8. CASE Restart
    BY <2>8 DEF Restart, Rebuilt, ModelFresh
  <2>9. CASE UNCHANGED vars
    BY <2>9 DEF vars, vault, history, ModelFresh
  <2>. QED
    BY <2>1, <2>2, <2>3, <2>4, <2>5, <2>6, <2>7, <2>8, <2>9 DEF Next
<1>. QED
  BY <1>1, <1>2, PTL DEF Spec

(***************************************************************************)
(* The invariant.                                                          *)
(***************************************************************************)

(* The document in the form is the one it was read from and is in the      *)
(* index, and no invoice that was answered for came out of this reading.   *)
FormRight ==
    receipt.open /\ receipt.stage = "Confirm" =>
        /\ receipt.draft \in Drafts
        /\ receipt.draft.read <= reads
        /\ \A i \in acked : ledger[i].draft.read # receipt.draft.read
        /\ receipt.file # None =>
               /\ receipt.file = receipt.draft.doc
               /\ \E k \in DOMAIN index : index[k].file = receipt.file

(* A line was numbered by a model that had no more lines than the ledger,  *)
(* and a model shows every line that was answered for.                     *)
LinesNumbered ==
    /\ \A i \in DOMAIN ledger : ledger[i].draft.read <= reads /\ ledger[i].id[1] <= i
    /\ model # None =>
          /\ Len(model.invoices) <= Len(ledger)
          /\ \A i \in acked : i <= Len(model.invoices)

IInv == TypeOK /\ FormRight /\ LinesNumbered /\ LinkedRight /\ RegisteredApart

(* Linking gives an entry to the invoice and leaves the others, and every  *)
(* file, as they were.                                                     *)
LEMMA LinkedEntries ==
    ASSUME NEW entries \in Seq(Entries), NEW file \in Documents \union {None}, NEW id \in Ids
    PROVE  /\ Linked(entries, file, id) \in Seq(Entries)
           /\ DOMAIN Linked(entries, file, id) = DOMAIN entries
           /\ \A k \in DOMAIN entries :
                  /\ Linked(entries, file, id)[k].file = entries[k].file
                  /\ \/ Linked(entries, file, id)[k] = entries[k]
                     \/ /\ Linked(entries, file, id)[k].invoice = id
                        /\ entries[k].file = file
<1> DEFINE places == {k \in DOMAIN entries : entries[k].file = file}
<1>1. CASE places = {}
  BY <1>1 DEF Linked
<1>2. CASE places # {}
  <2>1. Min(places) \in places
    <3>1. places \in SUBSET Nat
      OBVIOUS
    <3> HIDE DEF places
    <3>. QED  BY <1>2, <3>1, MinIsIn
  <2>2. Linked(entries, file, id) = [entries EXCEPT ![Min(places)].invoice = id]
    BY <1>2 DEF Linked
  <2>3. Min(places) \in DOMAIN entries /\ entries[Min(places)].file = file
    BY <2>1
  <2> HIDE DEF places
  <2> DEFINE m == Min(places)
             linked == [entries EXCEPT ![m].invoice = id]
  <2>4. linked = [k \in DOMAIN entries |->
                    IF k = m THEN [entries[m] EXCEPT !.invoice = id] ELSE entries[k]]
    BY <2>3
  <2>5. /\ [entries[m] EXCEPT !.invoice = id] \in Entries
        /\ [entries[m] EXCEPT !.invoice = id].file = entries[m].file
        /\ [entries[m] EXCEPT !.invoice = id].invoice = id
    <3>1. entries[m] \in Entries
      BY <2>3
    <3>. QED  BY <3>1 DEF Entries
  <2>6. linked \in Seq(Entries)
    <3> HIDE DEF linked
    <3>1. linked \in [1 .. Len(entries) -> Entries]
      BY <2>4, <2>5
    <3>. QED  BY <3>1, SeqDef
  <2>7. /\ DOMAIN linked = DOMAIN entries
        /\ \A k \in DOMAIN entries :
              linked[k] = IF k = m THEN [entries[m] EXCEPT !.invoice = id] ELSE entries[k]
    BY <2>4
  <2> HIDE DEF linked
  <2>. QED
    BY <2>2, <2>3, <2>5, <2>6, <2>7 DEF linked
<1>. QED
  BY <1>1, <1>2

(* The first start.                                                        *)
LEMMA InitIInv == Init => IInv
<1> SUFFICES ASSUME Init PROVE IInv
  OBVIOUS
<1>1. /\ ledger = <<>> /\ index = <<>> /\ completions = {}
      /\ ledger \in Seq(Invoices) /\ index \in Seq(Entries)
      /\ completions \in SUBSET Obligations
      /\ profile \in Profiles \union {None, Unreadable}
  BY DEF Init
<1>2. TypeOK
  <2>1. model \in Models \union {None}
    BY <1>1, BuildModelType DEF Init
  <2>2. editing \in BOOLEAN /\ unseen \in BOOLEAN /\ acked \subseteq DOMAIN ledger
    BY Zenon DEF Init
  <2>4. reads \in 0 .. MaxReads /\ now \in 0 .. MaxSeconds
    BY BoundsAssumption DEF Init
  <2>3. receipt \in [open : BOOLEAN, stage : {"Idle", "Confirm"},
                     draft : Drafts \union {None}, file : Documents \union {None}]
    BY DEF Init, FormDefault
  <2>. QED
    BY <1>1, <2>1, <2>2, <2>3, <2>4 DEF TypeOK
<1>3. FormRight /\ LinkedRight /\ RegisteredApart
  BY DEF Init, FormRight, FormDefault, LinkedRight, RegisteredApart
<1>4. LinesNumbered
  BY DEF Init, LinesNumbered, BuildModel
<1>. QED
  BY <1>2, <1>3, <1>4 DEF IInv

(* A rebuilt model has its type and shows every line of the ledger.        *)
LEMMA RebuiltLines ==
    ASSUME ledger' \in Seq(Invoices), completions' \in SUBSET Obligations,
           index' \in Seq(Entries), profile' \in Profiles \union {None, Unreadable},
           acked' \subseteq DOMAIN ledger', Rebuilt
    PROVE  /\ model' \in Models \union {None}
           /\ unseen' \in BOOLEAN
           /\ model' # None =>
                 /\ Len(model'.invoices) <= Len(ledger')
                 /\ \A i \in acked' : i <= Len(model'.invoices)
<1>1. model' = BuildModel(ledger', completions', index', profile') /\ unseen' \in BOOLEAN
  BY Zenon DEF Rebuilt
<1>2. model' \in Models \union {None}
  BY <1>1, BuildModelType
<1>3. model' # None => model'.invoices = ledger'
  BY <1>1 DEF BuildModel
<1>4. Len(ledger') \in Nat /\ DOMAIN ledger' = 1 .. Len(ledger')
  OBVIOUS
<1>. QED
  BY <1>1, <1>2, <1>3, <1>4

(* Actions that touch neither the vault nor what was answered for.         *)
LEMMA QuietIInv ==
    ASSUME IInv, UNCHANGED <<ledger, completions, index, profile, reads, acked>>,
           \/ UNCHANGED <<model, unseen>>
           \/ Rebuilt,
           \/ UNCHANGED receipt
           \/ receipt' = FormDefault \/ receipt' = FormStarting,
           editing' \in BOOLEAN, now' \in 0 .. MaxSeconds
    PROVE  IInv'
<1>1. /\ ledger' \in Seq(Invoices) /\ completions' \in SUBSET Obligations
      /\ index' \in Seq(Entries) /\ profile' \in Profiles \union {None, Unreadable}
      /\ acked' \subseteq DOMAIN ledger' /\ reads' \in 0 .. MaxReads
  BY DEF IInv, TypeOK
<1>2. /\ model' \in Models \union {None} /\ unseen' \in BOOLEAN
      /\ model' # None =>
            /\ Len(model'.invoices) <= Len(ledger')
            /\ \A i \in acked' : i <= Len(model'.invoices)
  <2>1. CASE UNCHANGED <<model, unseen>>
    BY <2>1 DEF IInv, TypeOK, LinesNumbered
  <2>2. CASE Rebuilt
    BY <1>1, <2>2, RebuiltLines
  <2>. QED  BY <2>1, <2>2
<1>3. receipt' \in [open : BOOLEAN, stage : {"Idle", "Confirm"},
                    draft : Drafts \union {None}, file : Documents \union {None}]
  <2>1. FormDefault \in [open : BOOLEAN, stage : {"Idle", "Confirm"},
                         draft : Drafts \union {None}, file : Documents \union {None}]
    BY DEF FormDefault
  <2>2. FormStarting \in [open : BOOLEAN, stage : {"Idle", "Confirm"},
                          draft : Drafts \union {None}, file : Documents \union {None}]
    BY DEF FormStarting
  <2>. QED
    BY <2>1, <2>2 DEF IInv, TypeOK
<1>4. TypeOK'
  BY <1>1, <1>2, <1>3 DEF TypeOK
<1>5. FormRight'
  <2>1. CASE UNCHANGED receipt
    BY <2>1 DEF IInv, FormRight
  <2>2. CASE receipt' = FormDefault \/ receipt' = FormStarting
    <3>1. ~(receipt'.open /\ receipt'.stage = "Confirm")
      BY <2>2 DEF FormDefault, FormStarting
    <3>. QED  BY <3>1 DEF FormRight
  <2>. QED  BY <2>1, <2>2
<1>6. LinesNumbered' /\ LinkedRight' /\ RegisteredApart'
  BY <1>2 DEF IInv, LinesNumbered, LinkedRight, RegisteredApart
<1>. QED
  BY <1>4, <1>5, <1>6 DEF IInv

(* Reading a document: archived first, so that what the form shows is in   *)
(* the index, under a reading no invoice came out of.                      *)
LEMMA ParseIInv ==
    ASSUME IInv, NEW d \in Documents, ParseReceipt(d)
    PROVE  IInv'
<1>1. PICK file \in Documents \union {None} :
          /\ Archive(d, file)
          /\ receipt' = FormRead([doc |-> d, read |-> reads + 1], file)
  BY DEF ParseReceipt
<1>2. /\ UNCHANGED <<ledger, completions, profile, editing, now, acked>>
      /\ Rebuilt /\ reads' = reads + 1 /\ reads < MaxReads
  BY DEF ParseReceipt
<1> DEFINE entry == [file |-> d, invoice |-> None]
<1>3. /\ index \in Seq(Entries) /\ entry \in Entries
      /\ \/ index' = index /\ file = None
         \/ index' = Append(index, entry) /\ file \in {d, None}
  BY <1>1 DEF Archive, Archived, Entries, IInv, TypeOK
<1>4. /\ index' \in Seq(Entries)
      /\ DOMAIN index \subseteq DOMAIN index'
      /\ \A k \in DOMAIN index : index'[k] = index[k]
      /\ \A k \in DOMAIN index' \ DOMAIN index : index'[k] = entry
      /\ file # None => file = d /\ \E k \in DOMAIN index' : index'[k] = entry
  <2>1. CASE index' = index /\ file = None
    BY <1>3, <2>1
  <2>2. CASE index' = Append(index, entry) /\ file \in {d, None}
    <3> HIDE DEF entry
    <3>1. /\ index' \in Seq(Entries) /\ Len(index') = Len(index) + 1
          /\ \A k \in 1 .. Len(index) : index'[k] = index[k]
          /\ index'[Len(index) + 1] = entry
          /\ DOMAIN index = 1 .. Len(index) /\ DOMAIN index' = 1 .. Len(index')
          /\ Len(index) \in Nat
      BY <1>3, <2>2, AppendProperties
    <3>. QED  BY <2>2, <3>1
  <2>. QED  BY <1>3, <2>1, <2>2
<1>5. /\ ledger \in Seq(Invoices) /\ acked \subseteq DOMAIN ledger /\ reads \in 0 .. MaxReads
      /\ completions \in SUBSET Obligations /\ profile \in Profiles \union {None, Unreadable}
      /\ editing \in BOOLEAN /\ now \in 0 .. MaxSeconds /\ MaxReads \in Nat
  BY BoundsAssumption DEF IInv, TypeOK
<1>6. /\ model' \in Models \union {None} /\ unseen' \in BOOLEAN
      /\ model' # None =>
            /\ Len(model'.invoices) <= Len(ledger')
            /\ \A i \in acked' : i <= Len(model'.invoices)
  BY <1>2, <1>4, <1>5, RebuiltLines
<1>7. reads' \in 1 .. MaxReads
  BY <1>2, <1>5
<1>8. TypeOK'
  <2>1. receipt' \in [open : BOOLEAN, stage : {"Idle", "Confirm"},
                      draft : Drafts \union {None}, file : Documents \union {None}]
    BY <1>1, <1>2, <1>7 DEF FormRead, Drafts
  <2>2. reads' \in 0 .. MaxReads /\ now' \in 0 .. MaxSeconds
    BY <1>2, <1>5, <1>7
  <2>. QED
    BY <1>2, <1>4, <1>5, <1>6, <2>1, <2>2 DEF TypeOK
<1>9. \A i \in DOMAIN ledger : ledger[i] \in Invoices /\ ledger[i].draft.read \in Nat
                               /\ ledger[i].draft.read <= reads
  <2>1. \A i \in DOMAIN ledger : ledger[i] \in Invoices
    BY <1>5
  <2>2. \A v \in Invoices : v.draft.read \in Nat
    BY DEF Invoices, Drafts
  <2>. QED  BY <2>1, <2>2 DEF IInv, LinesNumbered
<1>10. FormRight'
  <2>1. receipt'.draft = [doc |-> d, read |-> reads'] /\ receipt'.file = file
    BY <1>1, <1>2 DEF FormRead
  <2>2. receipt'.draft \in Drafts
    BY <1>7, <2>1 DEF Drafts
  <2>3. \A i \in acked' : ledger'[i].draft.read # receipt'.draft.read
    BY <1>2, <1>5, <1>9, <2>1
  <2>4. receipt'.draft.read <= reads'
    BY <1>7, <2>1
  <2>5. receipt'.file # None =>
           receipt'.file = receipt'.draft.doc /\ \E k \in DOMAIN index' : index'[k].file = receipt'.file
    BY <1>4, <2>1
  <2>. QED
    BY <2>2, <2>3, <2>4, <2>5 DEF FormRight
<1>11. LinesNumbered'
  BY <1>2, <1>5, <1>6, <1>9 DEF LinesNumbered, IInv
<1>12. LinkedRight'
  <2>1. \A k \in DOMAIN index' : index'[k].invoice # None =>
           k \in DOMAIN index /\ index'[k] = index[k]
    BY <1>4
  <2>. QED
    BY <1>2, <1>4, <2>1 DEF IInv, LinkedRight
<1>13. RegisteredApart'
  BY <1>2 DEF IInv, RegisteredApart
<1>. QED
  BY <1>8, <1>10, <1>11, <1>12, <1>13 DEF IInv

(* A ledger that grows by the form's invoice: what both outcomes of a      *)
(* registration share.                                                     *)
LEMMA AppendedLine ==
    ASSUME IInv, Submits, ledger' = Append(ledger, Confirmed)
    PROVE  /\ ledger' \in Seq(Invoices)
           /\ Len(ledger) \in Nat /\ Len(ledger') = Len(ledger) + 1
           /\ DOMAIN ledger = 1 .. Len(ledger) /\ DOMAIN ledger' = 1 .. Len(ledger')
           /\ \A i \in DOMAIN ledger : ledger'[i] = ledger[i] /\ ledger[i] \in Invoices
           /\ ledger'[Len(ledger')] = Confirmed
           /\ Confirmed.id = NewId /\ Confirmed.draft = receipt.draft /\ Confirmed.proof = receipt.file
           /\ NewId \in Ids /\ NewId[1] = Len(model.invoices) + 1
           /\ receipt.draft \in Drafts /\ receipt.file \in Documents \union {None}
           /\ model \in Models /\ Len(model.invoices) \in Nat /\ Len(model.invoices) <= Len(ledger)
<1>1. ledger \in Seq(Invoices) /\ Len(ledger) \in Nat /\ Len(ledger) < MaxLines /\ MaxLines \in Nat
  BY BoundsAssumption DEF IInv, TypeOK, Submits
<1>2. /\ model \in Models /\ Len(model.invoices) \in Nat /\ Len(model.invoices) <= Len(ledger)
  BY DEF IInv, TypeOK, Submits, LinesNumbered, Models
<1>3. receipt.draft \in Drafts /\ receipt.file \in Documents \union {None}
  BY DEF IInv, TypeOK, FormRight, Submits
<1>4. NewId \in Ids /\ NewId[1] = Len(model.invoices) + 1
  <2>1. Len(model.invoices) + 1 \in 1 .. MaxLines /\ now \in 0 .. MaxSeconds
    BY <1>1, <1>2 DEF IInv, TypeOK
  <2>. QED  BY <2>1 DEF NewId, Ids
<1>5. /\ Confirmed \in Invoices /\ Confirmed.id = NewId
      /\ Confirmed.draft = receipt.draft /\ Confirmed.proof = receipt.file
  BY <1>3, <1>4 DEF Confirmed, Invoices
<1>6. /\ ledger' \in Seq(Invoices) /\ Len(ledger') = Len(ledger) + 1
      /\ \A i \in 1 .. Len(ledger) : ledger'[i] = ledger[i]
      /\ ledger'[Len(ledger) + 1] = Confirmed
      /\ DOMAIN ledger = 1 .. Len(ledger) /\ DOMAIN ledger' = 1 .. Len(ledger')
  BY <1>1, <1>5, AppendProperties
<1>. QED
  BY <1>1, <1>2, <1>3, <1>4, <1>5, <1>6

(* The line itself keeps every promise about lines, whichever entries the  *)
(* link gave it, whether or not the registration was answered for.         *)
LEMMA RegisteredIInv ==
    ASSUME IInv, Submits, ledger' = Append(ledger, Confirmed),
           \/ index' = index
           \/ index' = Linked(index, receipt.file, NewId),
           UNCHANGED <<reads>>,
           \/ acked' = acked
           \/ acked' = acked \union {Len(ledger')}
    PROVE  /\ index' \in Seq(Entries) /\ acked' \subseteq DOMAIN ledger'
           /\ LinkedRight' /\ RegisteredApart'
           /\ \A i \in DOMAIN ledger' : ledger'[i].draft.read <= reads' /\ ledger'[i].id[1] <= i
<1>1. /\ index \in Seq(Entries) /\ acked \subseteq DOMAIN ledger
      /\ FormRight /\ LinesNumbered /\ LinkedRight /\ RegisteredApart /\ model # None
      /\ receipt.open /\ receipt.stage = "Confirm"
  BY DEF IInv, TypeOK, Submits
<1>2. /\ index' \in Seq(Entries) /\ DOMAIN index' = DOMAIN index
      /\ \A k \in DOMAIN index :
            /\ index'[k].file = index[k].file
            /\ \/ index'[k] = index[k]
               \/ index'[k].invoice = NewId /\ index[k].file = receipt.file
  <2>1. CASE index' = index
    BY <1>1, <2>1
  <2>2. CASE index' = Linked(index, receipt.file, NewId)
    <3>1. NewId \in Ids /\ receipt.file \in Documents \union {None}
      BY AppendedLine
    <3>2. index \in Seq(Entries)
      BY <1>1
    <3>. QED  BY <2>2, <3>1, <3>2, LinkedEntries
  <2>. QED  BY <2>1, <2>2
<1>3. \A k \in DOMAIN index : index[k].file \in Documents
  <2>1. \A k \in DOMAIN index : index[k] \in Entries
    BY <1>1
  <2>. QED  BY <2>1 DEF Entries
<1>4. Len(ledger') \in DOMAIN ledger'
  BY AppendedLine
<1>5. LinkedRight'
  <2>1. ASSUME NEW k \in DOMAIN index', index'[k].invoice # None
        PROVE  \E i \in DOMAIN ledger' :
                  ledger'[i].id = index'[k].invoice /\ ledger'[i].draft.doc = index'[k].file
    <3>1. CASE index'[k] = index[k]
      <4>1. PICK i \in DOMAIN ledger :
                ledger[i].id = index[k].invoice /\ ledger[i].draft.doc = index[k].file
        BY <1>1, <1>2, <2>1, <3>1 DEF LinkedRight
      <4>2. i \in DOMAIN ledger' /\ ledger'[i] = ledger[i]
        BY AppendedLine
      <4>. QED  BY <3>1, <4>1, <4>2
    <3>2. CASE index'[k].invoice = NewId /\ index[k].file = receipt.file
      <4>1. receipt.file # None
        BY <1>2, <1>3, <2>1, <3>2, NoDocumentAssumption
      <4>2. receipt.draft.doc = receipt.file
        BY <1>1, <4>1 DEF FormRight
      <4>3. ledger'[Len(ledger')].id = NewId /\ ledger'[Len(ledger')].draft.doc = receipt.file
        BY <4>2, AppendedLine
      <4>. QED  BY <1>2, <1>4, <2>1, <3>2, <4>3
    <3>. QED  BY <1>2, <2>1, <3>1, <3>2
  <2>2. ASSUME NEW i \in DOMAIN ledger', ledger'[i].proof # None
        PROVE  /\ ledger'[i].proof = ledger'[i].draft.doc
               /\ \E k \in DOMAIN index' : index'[k].file = ledger'[i].proof
    <3>1. CASE i \in DOMAIN ledger
      <4>1. ledger'[i] = ledger[i]
        BY <3>1, AppendedLine
      <4>. QED  BY <1>1, <1>2, <2>2, <3>1, <4>1 DEF LinkedRight
    <3>2. CASE i = Len(ledger')
      <4>1. ledger'[i].proof = receipt.file /\ ledger'[i].draft = receipt.draft
        BY <3>2, AppendedLine
      <4>. QED  BY <1>1, <1>2, <2>2, <4>1 DEF FormRight
    <3>. QED  BY <2>2, <3>1, <3>2, AppendedLine
  <2>. QED  BY <2>1, <2>2 DEF LinkedRight
<1>6. \A i \in DOMAIN ledger : ledger[i].draft.read <= reads /\ ledger[i].id[1] <= i
  BY <1>1 DEF LinesNumbered
<1>7. receipt.draft.read <= reads
  BY <1>1 DEF FormRight
<1>8. \A i \in DOMAIN ledger' : ledger'[i].draft.read <= reads' /\ ledger'[i].id[1] <= i
  <2>1. ledger'[Len(ledger')].draft.read <= reads /\ ledger'[Len(ledger')].id[1] <= Len(ledger')
    BY <1>7, AppendedLine
  <2>. QED  BY <1>6, <2>1, AppendedLine
<1>9. \A i \in acked :
         /\ i \in DOMAIN ledger /\ ledger'[i] = ledger[i]
         /\ ledger[i].id # NewId /\ ledger[i].draft.read # receipt.draft.read
  <2> SUFFICES ASSUME NEW i \in acked
               PROVE  /\ i \in DOMAIN ledger /\ ledger'[i] = ledger[i]
                      /\ ledger[i].id # NewId /\ ledger[i].draft.read # receipt.draft.read
    OBVIOUS
  <2>1. i \in DOMAIN ledger /\ ledger'[i] = ledger[i] /\ ledger[i] \in Invoices
    BY <1>1, AppendedLine
  <2>2. i <= Len(model.invoices)
    BY <1>1 DEF LinesNumbered
  <2>3. ledger[i].id[1] \in Nat /\ ledger[i].id[1] <= i
    BY <1>6, <2>1 DEF Invoices, Ids
  <2>4. ledger[i].id[1] # NewId[1]
    BY <2>1, <2>2, <2>3, AppendedLine
  <2>5. ledger[i].draft.read # receipt.draft.read
    BY <1>1 DEF FormRight
  <2>. QED  BY <2>1, <2>4, <2>5
<1>10. RegisteredApart'
  <2>1. ledger'[Len(ledger')].id = NewId /\ ledger'[Len(ledger')].draft = receipt.draft
    BY AppendedLine
  <2>. QED  BY <1>1, <1>9, <2>1 DEF RegisteredApart
<1>11. acked' \subseteq DOMAIN ledger'
  BY <1>4, <1>9, AppendedLine
<1>. QED
  BY <1>2, <1>5, <1>8, <1>10, <1>11

(* Actions that change the marks or the profile and nothing else the       *)
(* invariant looks at.                                                     *)
LEMMA VaultIInv ==
    ASSUME IInv, UNCHANGED <<ledger, index, reads, now, acked, receipt>>,
           completions' \in SUBSET Obligations,
           profile' \in Profiles \union {None, Unreadable},
           editing' \in BOOLEAN,
           \/ Rebuilt
           \/ model' = model /\ unseen' \in BOOLEAN
    PROVE  IInv'
<1>1. /\ ledger' \in Seq(Invoices) /\ index' \in Seq(Entries)
      /\ acked' \subseteq DOMAIN ledger'
  BY DEF IInv, TypeOK
<1>2. /\ model' \in Models \union {None} /\ unseen' \in BOOLEAN
      /\ model' # None =>
            /\ Len(model'.invoices) <= Len(ledger')
            /\ \A i \in acked' : i <= Len(model'.invoices)
  <2>1. CASE model' = model /\ unseen' \in BOOLEAN
    BY <2>1 DEF IInv, TypeOK, LinesNumbered
  <2>2. CASE Rebuilt
    BY <1>1, <2>2, RebuiltLines
  <2>. QED  BY <2>1, <2>2
<1>3. TypeOK'
  BY <1>1, <1>2 DEF IInv, TypeOK
<1>4. FormRight' /\ LinesNumbered' /\ LinkedRight' /\ RegisteredApart'
  BY <1>2 DEF IInv, FormRight, LinesNumbered, LinkedRight, RegisteredApart
<1>. QED
  BY <1>3, <1>4 DEF IInv

(* Registering, with either outcome.                                       *)
LEMMA SaveIInv ==
    ASSUME IInv, SaveReceipt \/ SaveReceiptFails
    PROVE  IInv'
<1>1. CASE SaveReceipt
  <2>1. /\ Submits /\ ledger' = Append(ledger, Confirmed)
        /\ acked' = acked \union {Len(ledger')}
        /\ index' = index \/ index' = Linked(index, receipt.file, NewId)
        /\ receipt' = FormDefault /\ Rebuilt
        /\ UNCHANGED <<completions, profile, editing, reads, now>>
    BY <1>1 DEF SaveReceipt
  <2>2. /\ index' \in Seq(Entries) /\ acked' \subseteq DOMAIN ledger'
        /\ LinkedRight' /\ RegisteredApart'
        /\ \A i \in DOMAIN ledger' : ledger'[i].draft.read <= reads' /\ ledger'[i].id[1] <= i
    BY <2>1, RegisteredIInv
  <2>3. /\ ledger' \in Seq(Invoices) /\ completions' \in SUBSET Obligations
        /\ profile' \in Profiles \union {None, Unreadable}
    BY <2>1, AppendedLine DEF IInv, TypeOK
  <2>4. /\ model' \in Models \union {None} /\ unseen' \in BOOLEAN
        /\ model' # None =>
              /\ Len(model'.invoices) <= Len(ledger')
              /\ \A i \in acked' : i <= Len(model'.invoices)
    BY <2>1, <2>2, <2>3, RebuiltLines
  <2>5. TypeOK'
    <3>1. receipt' \in [open : BOOLEAN, stage : {"Idle", "Confirm"},
                        draft : Drafts \union {None}, file : Documents \union {None}]
      BY <2>1 DEF FormDefault
    <3>2. editing' \in BOOLEAN /\ reads' \in 0 .. MaxReads /\ now' \in 0 .. MaxSeconds
      BY <2>1 DEF IInv, TypeOK
    <3>. QED  BY <2>2, <2>3, <2>4, <3>1, <3>2 DEF TypeOK
  <2>6. FormRight'
    <3>1. ~receipt'.open
      BY <2>1 DEF FormDefault
    <3>. QED  BY <3>1 DEF FormRight
  <2>7. LinesNumbered'
    BY <2>2, <2>4 DEF LinesNumbered
  <2>. QED  BY <2>2, <2>5, <2>6, <2>7 DEF IInv
<1>2. CASE SaveReceiptFails
  <2>1. /\ Submits /\ ledger' = Append(ledger, Confirmed) /\ unseen' = TRUE
        /\ UNCHANGED <<completions, index, profile, model, receipt, editing, reads, now, acked>>
    BY <1>2 DEF SaveReceiptFails
  <2>2. /\ acked' \subseteq DOMAIN ledger' /\ LinkedRight' /\ RegisteredApart'
        /\ \A i \in DOMAIN ledger' : ledger'[i].draft.read <= reads' /\ ledger'[i].id[1] <= i
    BY <2>1, RegisteredIInv
  <2>3. /\ ledger' \in Seq(Invoices) /\ Len(ledger') = Len(ledger) + 1 /\ Len(ledger) \in Nat
        /\ \A i \in DOMAIN ledger : ledger'[i] = ledger[i]
        /\ Len(model.invoices) \in Nat
    BY <2>1, AppendedLine
  <2>4. TypeOK'
    BY <2>1, <2>2, <2>3 DEF IInv, TypeOK
  <2>5. FormRight'
    <3>1. \A i \in acked : ledger'[i] = ledger[i]
      BY <2>3 DEF IInv, TypeOK
    <3>. QED  BY <2>1, <3>1 DEF IInv, FormRight
  <2>6. LinesNumbered'
    BY <2>1, <2>2, <2>3 DEF IInv, LinesNumbered
  <2>. QED  BY <2>2, <2>4, <2>5, <2>6 DEF IInv
<1>. QED
  BY <1>1, <1>2

(* Every step keeps the invariant.                                         *)
LEMMA NextIInv == IInv /\ [Next]_vars => IInv'
<1> SUFFICES ASSUME IInv, [Next]_vars PROVE IInv'
  OBVIOUS
<1>0. /\ editing \in BOOLEAN /\ now \in 0 .. MaxSeconds /\ completions \in SUBSET Obligations
      /\ profile \in Profiles \union {None, Unreadable} /\ MaxSeconds \in Nat
  BY BoundsAssumption DEF IInv, TypeOK
<1>1. CASE Reload
  BY <1>0, <1>1, QuietIInv DEF Reload, vault
<1>2. CASE OpenReceipt
  BY <1>0, <1>2, QuietIInv DEF OpenReceipt, vault, history
<1>3. CASE CloseReceipt
  BY <1>0, <1>3, QuietIInv DEF CloseReceipt, vault, history
<1>4. CASE \E d \in Documents : ParseReceipt(d)
  BY <1>4, ParseIInv
<1>5. CASE SaveReceipt \/ SaveReceiptFails
  BY <1>5, SaveIInv
<1>6. CASE \E o \in Obligations : Complete(o) \/ CompleteFails(o)
  <2>1. PICK o \in Obligations : Complete(o) \/ CompleteFails(o)
    BY <1>6
  <2>2. completions' \in SUBSET Obligations
    BY <1>0, <2>1 DEF Complete, CompleteFails
  <2>3. CASE Complete(o)
    BY <1>0, <2>2, <2>3, VaultIInv DEF Complete
  <2>4. CASE CompleteFails(o)
    BY <1>0, <2>2, <2>4, VaultIInv DEF CompleteFails
  <2>. QED  BY <2>1, <2>3, <2>4
<1>7. CASE OpenProfile
  BY <1>0, <1>7, QuietIInv DEF OpenProfile, vault, history
<1>8. CASE CloseProfile
  BY <1>0, <1>8, QuietIInv DEF CloseProfile, vault, history
<1>9. CASE \E nif \in Nifs : SaveProfile(nif)
  <2>1. PICK nif \in Nifs : SaveProfile(nif)
    BY <1>9
  <2>2. profile' \in Profiles
    <3> DEFINE current == IF profile = Unreadable THEN None ELSE profile
    <3>1. current \in Profiles \union {None}
      BY <1>0
    <3>2. profile' = BuildProfile(nif, current)
      BY <2>1 DEF SaveProfile
    <3> HIDE DEF current
    <3>. QED  BY <3>1, <3>2 DEF BuildProfile, Profiles
  <2>. QED  BY <1>0, <2>1, <2>2, VaultIInv DEF SaveProfile
<1>10. CASE Tick
  <2>1. now' \in 0 .. MaxSeconds
    BY <1>0, <1>10 DEF Tick
  <2>. QED  BY <1>0, <1>10, <2>1, QuietIInv DEF Tick, vault, history
<1>11. CASE Restart
  BY <1>0, <1>11, QuietIInv DEF Restart, vault
<1>12. CASE Spoil
  BY <1>0, <1>12, VaultIInv DEF Spoil
<1>13. CASE UNCHANGED vars
  BY <1>0, <1>13, QuietIInv DEF vars, vault, history
<1>. QED
  BY <1>1, <1>2, <1>3, <1>4, <1>5, <1>6, <1>7, <1>8, <1>9, <1>10, <1>11, <1>12, <1>13 DEF Next

(* The invariant holds throughout.                                         *)
LEMMA AlwaysIInv == Spec => []IInv
BY InitIInv, NextIInv, PTL DEF Spec

(* The vault, the form and the model have their types, whatever fails.     *)
THEOREM TypeCorrect == Spec => []TypeOK
<1>1. IInv => TypeOK
  BY DEF IInv
<1>. QED
  BY <1>1, AlwaysIInv, PTL

(* No two invoices that were answered for share an id, and no form was     *)
(* registered twice (save_receipt, app.rs).                                *)
THEOREM RegisteredStayApart == Spec => []RegisteredApart
<1>1. IInv => RegisteredApart
  BY DEF IInv
<1>. QED
  BY <1>1, AlwaysIInv, PTL

(* A link joins an invoice and the document it was read from, and an       *)
(* archived proof is in the index (parse_receipt and save_receipt, app.rs).*)
THEOREM LinksAreRight == Spec => []LinkedRight
<1>1. IInv => LinkedRight
  BY DEF IInv
<1>. QED
  BY <1>1, AlwaysIInv, PTL
=============================================================================
