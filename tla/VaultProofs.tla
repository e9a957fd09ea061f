----------------------------- MODULE VaultProofs -----------------------------
(***************************************************************************)
(* What the vault promises, for any windows, contents, operations, routes  *)
(* and faults.                                                             *)
(***************************************************************************)
EXTENDS Vault, TLAPS, SequenceTheorems

(***************************************************************************)
(* The operations, written out.                                            *)
(***************************************************************************)
Plain == {"invalidate", "hash", "copyopens", "copyfills", "store", "syncstore",
          "readindex", "syncindex"}
Kinds == {"invoice", "completion", "document"}
Lines == Tags \X Numbers
Recorded == {"invoices", "completions"}

Steps ==
    [do : Plain]
    \union [do : {"write"}, log : Logs, line : Lines]
    \union [do : {"sync"}, log : Logs]
    \union [do : {"answer"}, kind : Kinds, n : Numbers]
    \union [do : {"push"}, at : Numbers]
    \union [do : {"find"}, file : Contents]
    \union [do : {"link"}, file : Contents, invoice : Numbers]

Do(a) == [do |-> a]

(* A step, by its fields.                                                  *)
Is(a, do) == a \in Steps /\ a.do = do
Writes(a, l, tag, n) == Is(a, "write") /\ a.log = l /\ a.line = <<tag, n>>
Syncs(a, l) == Is(a, "sync") /\ a.log = l
Returns(a, kind, n) == Is(a, "answer") /\ a.kind = kind /\ a.n = n
Pushes(a, n) == Is(a, "push") /\ a.at = n
Finds(a, c) == Is(a, "find") /\ a.file = c
Links(a, c, n) == Is(a, "link") /\ a.file = c /\ a.invoice = n

(* What is known of a sequence put together of two.                        *)
Parts(r, s, t) ==
    /\ r \in Seq(Steps) /\ Len(r) = Len(s) + Len(t)
    /\ \A i \in 1 .. Len(s) : r[i] = s[i]
    /\ \A i \in 1 .. Len(t) : r[Len(s) + i] = t[i]

LEMMA Joined == \A s, t \in Seq(Steps) : \A r : r = s \o t => Parts(r, s, t)
<1> SUFFICES ASSUME NEW s \in Seq(Steps), NEW t \in Seq(Steps), NEW r, r = s \o t
             PROVE  Parts(r, s, t)
  OBVIOUS
<1>1. /\ r \in Seq(Steps) /\ Len(r) = Len(s) + Len(t)
      /\ Len(s) \in Nat /\ Len(t) \in Nat
      /\ \A i \in 1 .. Len(s) + Len(t) : r[i] = IF i <= Len(s) THEN s[i] ELSE t[i - Len(s)]
  BY ConcatProperties
<1>2. \A i \in 1 .. Len(s) : r[i] = s[i]
  BY <1>1
<1>3. \A i \in 1 .. Len(t) : r[Len(s) + i] = t[i]
  <2> TAKE i \in 1 .. Len(t)
  <2>1. Len(s) + i \in 1 .. Len(s) + Len(t) /\ ~(Len(s) + i <= Len(s)) /\ Len(s) + i - Len(s) = i
    BY <1>1
  <2>. QED  BY <1>1, <2>1
<1>. QED  BY <1>1, <1>2, <1>3 DEF Parts

(* What the primitive steps are.                                           *)
LEMMA StepFields ==
    ASSUME NEW a \in Steps
    PROVE  /\ a.do = "write" => a.log \in Logs /\ a.line \in Lines
           /\ a.do = "sync" => a.log \in Logs
           /\ a.do = "answer" => a.kind \in Kinds /\ a.n \in Numbers
           /\ a.do = "push" => a.at \in Numbers
           /\ a.do = "find" => a.file \in Contents
           /\ a.do = "link" => a.file \in Contents /\ a.invoice \in Numbers
BY DEF Steps, Plain

LEMMA PlainStep ==
    ASSUME NEW a \in Plain
    PROVE  Step(a) \in Seq(Steps) /\ Len(Step(a)) = 1 /\ Is(Step(a)[1], a)
<1>1. Do(a) \in Steps /\ Do(a).do = a
  BY DEF Steps, Do
<1>2. Step(a) = <<Do(a)>>
  BY DEF Step, Do
<1>. QED  BY <1>1, <1>2 DEF Is

LEMMA AnswerStep ==
    ASSUME NEW kind \in Kinds, NEW n \in Numbers
    PROVE  /\ Answer(kind, n) \in Seq(Steps) /\ Len(Answer(kind, n)) = 1
           /\ Returns(Answer(kind, n)[1], kind, n)
<1> DEFINE a == [do |-> "answer", kind |-> kind, n |-> n]
<1>1. a \in Steps /\ a.do = "answer" /\ a.kind = kind /\ a.n = n
  BY DEF Steps
<1>2. Answer(kind, n) = <<a>>
  BY DEF Answer
<1> HIDE DEF a
<1>. QED  BY <1>1, <1>2 DEF Is, Returns

(* A line in a log, on the disk when it returns.                           *)
IsLine(s, l, tag, n) ==
    /\ s \in Seq(Steps) /\ Len(s) = 3
    /\ Is(s[1], "invalidate") /\ Writes(s[2], l, tag, n) /\ Syncs(s[3], l)

LEMMA LineSteps ==
    \A l \in Logs, tag \in Tags, n \in Numbers : IsLine(AppendLine(l, <<tag, n>>), l, tag, n)
<1> SUFFICES ASSUME NEW l \in Logs, NEW tag \in Tags, NEW n \in Numbers
             PROVE  IsLine(AppendLine(l, <<tag, n>>), l, tag, n)
  OBVIOUS
<1> DEFINE x == [do |-> "write", log |-> l, line |-> <<tag, n>>]
           y == [do |-> "sync", log |-> l]
           a == Step("invalidate")
           b == <<x, y>>
           s == a \o b
<1>1. AppendLine(l, <<tag, n>>) = s
  BY DEF AppendLine
<1>2. Writes(x, l, tag, n) /\ Syncs(y, l)
  BY DEF Steps, Lines, Writes, Syncs, Is
<1>3. a \in Seq(Steps) /\ Len(a) = 1 /\ Is(a[1], "invalidate")
  BY PlainStep DEF Plain
<1> HIDE DEF x, y
<1>4. b \in Seq(Steps) /\ Len(b) = 2 /\ b[1] = x /\ b[2] = y
  BY <1>2 DEF Writes, Syncs, Is
<1> HIDE DEF a, b
<1>5. Parts(s, a, b)
  BY <1>3, <1>4, Joined
<1> HIDE DEF s
<1>6. IsLine(s, l, tag, n)
  BY <1>2, <1>3, <1>4, <1>5 DEF Parts, IsLine
<1>. QED  BY <1>1, <1>6

(* A line and its audit line, then the answer.                             *)
IsRecorded(s, l, tag, told, kind, n) ==
    /\ s \in Seq(Steps) /\ Len(s) = 7
    /\ Is(s[1], "invalidate") /\ Writes(s[2], l, tag, n) /\ Syncs(s[3], l)
    /\ Is(s[4], "invalidate") /\ Writes(s[5], "audit", told, n) /\ Syncs(s[6], "audit")
    /\ Returns(s[7], kind, n)

LEMMA RecordedSteps ==
    ASSUME NEW l \in Recorded, NEW tag \in Tags, NEW told \in Tags, NEW kind \in Kinds,
           NEW n \in Numbers
    PROVE  IsRecorded(AppendLine(l, <<tag, n>>) \o AppendAudit(told, n) \o Answer(kind, n),
                      l, tag, told, kind, n)
<1> DEFINE a == AppendLine(l, <<tag, n>>)
           b == AppendAudit(told, n)
           c == Answer(kind, n)
           ab == a \o b
           s == ab \o c
<1>1. IsLine(a, l, tag, n)
  BY LineSteps DEF Recorded, Logs
<1>2. IsLine(b, "audit", told, n)
  BY LineSteps DEF AppendAudit, Logs
<1>3. c \in Seq(Steps) /\ Len(c) = 1 /\ Returns(c[1], kind, n)
  BY AnswerStep
<1> HIDE DEF a, b, c
<1>4. Parts(ab, a, b)
  BY <1>1, <1>2, Joined DEF IsLine
<1> HIDE DEF ab
<1>5. ab \in Seq(Steps) /\ Len(ab) = 6
  BY <1>1, <1>2, <1>4 DEF Parts, IsLine
<1>6. Parts(s, ab, c)
  BY <1>3, <1>5, Joined
<1> HIDE DEF s
<1>7. /\ ab[1] = a[1] /\ ab[2] = a[2] /\ ab[3] = a[3]
      /\ ab[4] = b[1] /\ ab[5] = b[2] /\ ab[6] = b[3]
  BY <1>1, <1>2, <1>4 DEF Parts, IsLine
<1>8. IsRecorded(s, l, tag, told, kind, n)
  BY <1>1, <1>2, <1>3, <1>5, <1>6, <1>7 DEF Parts, IsLine, IsRecorded
<1>. QED  BY <1>8 DEF s, ab, a, b, c

(* The index, replaced.                                                    *)
LEMMA ChangeSteps ==
    ASSUME NEW x \in Steps
    PROVE  /\ WriteIndex(x) \in Seq(Steps) /\ Len(WriteIndex(x)) = 3
           /\ Is(WriteIndex(x)[1], "invalidate") /\ WriteIndex(x)[2] = x
           /\ Is(WriteIndex(x)[3], "syncindex")
<1> DEFINE a == Step("invalidate")
           b == <<x>>
           c == Step("syncindex")
           ab == a \o b
           s == ab \o c
<1>1. /\ a \in Seq(Steps) /\ Len(a) = 1 /\ Is(a[1], "invalidate")
      /\ c \in Seq(Steps) /\ Len(c) = 1 /\ Is(c[1], "syncindex")
  BY PlainStep DEF Plain
<1>2. b \in Seq(Steps) /\ Len(b) = 1 /\ b[1] = x
  OBVIOUS
<1>3. WriteIndex(x) = s
  BY DEF WriteIndex
<1> HIDE DEF a, b, c
<1>4. Parts(ab, a, b)
  BY <1>1, <1>2, Joined
<1> HIDE DEF ab
<1>5. ab \in Seq(Steps) /\ Len(ab) = 2 /\ ab[1] = a[1] /\ ab[2] = b[1]
  BY <1>1, <1>2, <1>4 DEF Parts
<1>6. Parts(s, ab, c)
  BY <1>1, <1>5, Joined
<1> HIDE DEF s
<1>7. s \in Seq(Steps) /\ Len(s) = 3 /\ s[1] = ab[1] /\ s[2] = ab[2] /\ s[3] = c[1]
  BY <1>1, <1>5, <1>6 DEF Parts
<1>. QED  BY <1>1, <1>2, <1>3, <1>5, <1>7

(* The entry of a document, its audit line, the answer.                    *)
IsFiling(s, n) ==
    /\ s \in Seq(Steps) /\ Len(s) = 8
    /\ Is(s[1], "readindex") /\ Is(s[2], "invalidate") /\ Pushes(s[3], n) /\ Is(s[4], "syncindex")
    /\ Is(s[5], "invalidate") /\ Writes(s[6], "audit", "document.added", n) /\ Syncs(s[7], "audit")
    /\ Returns(s[8], "document", n)

LEMMA FilingSteps == \A n \in Numbers : IsFiling(IndexDocument(n), n)
<1> SUFFICES ASSUME NEW n \in Numbers PROVE IsFiling(IndexDocument(n), n)
  OBVIOUS
<1> DEFINE x == [do |-> "push", at |-> n]
           a == Step("readindex")
           b == WriteIndex(x)
           c == AppendAudit("document.added", n)
           d == Answer("document", n)
           ab == a \o b
           abc == ab \o c
           s == abc \o d
<1>1. Pushes(x, n)
  BY DEF Steps, Pushes, Is
<1>2. IndexDocument(n) = s
  BY DEF IndexDocument
<1> HIDE DEF x
<1>3. a \in Seq(Steps) /\ Len(a) = 1 /\ Is(a[1], "readindex")
  BY PlainStep DEF Plain
<1>4. /\ b \in Seq(Steps) /\ Len(b) = 3
      /\ Is(b[1], "invalidate") /\ b[2] = x /\ Is(b[3], "syncindex")
  BY <1>1, ChangeSteps DEF Pushes, Is
<1>5. IsLine(c, "audit", "document.added", n)
  BY LineSteps DEF AppendAudit, Logs, Tags
<1>6. d \in Seq(Steps) /\ Len(d) = 1 /\ Returns(d[1], "document", n)
  BY AnswerStep DEF Kinds
<1> HIDE DEF a, b, c, d
<1>7. Parts(ab, a, b)
  BY <1>3, <1>4, Joined
<1> HIDE DEF ab
<1>8. /\ ab \in Seq(Steps) /\ Len(ab) = 4
      /\ ab[1] = a[1] /\ ab[2] = b[1] /\ ab[3] = b[2] /\ ab[4] = b[3]
  BY <1>3, <1>4, <1>7 DEF Parts
<1>9. Parts(abc, ab, c)
  BY <1>5, <1>8, Joined DEF IsLine
<1> HIDE DEF abc
<1>10. /\ abc \in Seq(Steps) /\ Len(abc) = 7
       /\ abc[1] = ab[1] /\ abc[2] = ab[2] /\ abc[3] = ab[3] /\ abc[4] = ab[4]
       /\ abc[5] = c[1] /\ abc[6] = c[2] /\ abc[7] = c[3]
  BY <1>5, <1>8, <1>9 DEF Parts, IsLine
<1>11. Parts(s, abc, d)
  BY <1>6, <1>10, Joined
<1> HIDE DEF s
<1>12. /\ s \in Seq(Steps) /\ Len(s) = 8
       /\ s[1] = abc[1] /\ s[2] = abc[2] /\ s[3] = abc[3] /\ s[4] = abc[4]
       /\ s[5] = abc[5] /\ s[6] = abc[6] /\ s[7] = abc[7] /\ s[8] = d[1]
  BY <1>6, <1>10, <1>11 DEF Parts
<1>13. IsFiling(s, n)
  BY <1>1, <1>3, <1>4, <1>5, <1>6, <1>8, <1>10, <1>12 DEF IsLine, IsFiling
<1>. QED  BY <1>2, <1>13

(* The link of a document to its invoice.                                  *)
IsLinking(s, c, n) ==
    /\ s \in Seq(Steps) /\ Len(s) = 8
    /\ Is(s[1], "readindex") /\ Finds(s[2], c)
    /\ Is(s[3], "invalidate") /\ Links(s[4], c, n) /\ Is(s[5], "syncindex")
    /\ Is(s[6], "invalidate") /\ Writes(s[7], "audit", "document.linked", n) /\ Syncs(s[8], "audit")

LEMMA LinkingSteps ==
    \A file \in Contents, n \in Numbers : IsLinking(LinkDocument(file, n), file, n)
<1> SUFFICES ASSUME NEW file \in Contents, NEW n \in Numbers
             PROVE  IsLinking(LinkDocument(file, n), file, n)
  OBVIOUS
<1> DEFINE x == [do |-> "find", file |-> file]
           y == [do |-> "link", file |-> file, invoice |-> n]
           a == Step("readindex")
           b == <<x>>
           c == WriteIndex(y)
           d == AppendAudit("document.linked", n)
           ab == a \o b
           abc == ab \o c
           s == abc \o d
<1>1. Finds(x, file) /\ Links(y, file, n)
  BY DEF Steps, Finds, Links, Is
<1>2. LinkDocument(file, n) = s
  BY DEF LinkDocument
<1> HIDE DEF x, y
<1>3. a \in Seq(Steps) /\ Len(a) = 1 /\ Is(a[1], "readindex")
  BY PlainStep DEF Plain
<1>4. b \in Seq(Steps) /\ Len(b) = 1 /\ b[1] = x
  BY <1>1 DEF Finds, Is
<1>5. /\ c \in Seq(Steps) /\ Len(c) = 3
      /\ Is(c[1], "invalidate") /\ c[2] = y /\ Is(c[3], "syncindex")
  BY <1>1, ChangeSteps DEF Links, Is
<1>6. IsLine(d, "audit", "document.linked", n)
  BY LineSteps DEF AppendAudit, Logs, Tags
<1> HIDE DEF a, b, c, d
<1>7. Parts(ab, a, b)
  BY <1>3, <1>4, Joined
<1> HIDE DEF ab
<1>8. ab \in Seq(Steps) /\ Len(ab) = 2 /\ ab[1] = a[1] /\ ab[2] = b[1]
  BY <1>3, <1>4, <1>7 DEF Parts
<1>9. Parts(abc, ab, c)
  BY <1>5, <1>8, Joined
<1> HIDE DEF abc
<1>10. /\ abc \in Seq(Steps) /\ Len(abc) = 5
       /\ abc[1] = ab[1] /\ abc[2] = ab[2]
       /\ abc[3] = c[1] /\ abc[4] = c[2] /\ abc[5] = c[3]
  BY <1>5, <1>8, <1>9 DEF Parts
<1>11. Parts(s, abc, d)
  BY <1>6, <1>10, Joined DEF IsLine
<1> HIDE DEF s
<1>12. /\ s \in Seq(Steps) /\ Len(s) = 8
       /\ s[1] = abc[1] /\ s[2] = abc[2] /\ s[3] = abc[3] /\ s[4] = abc[4]
       /\ s[5] = abc[5] /\ s[6] = d[1] /\ s[7] = d[2] /\ s[8] = d[3]
  BY <1>6, <1>10, <1>11 DEF Parts, IsLine
<1>13. IsLinking(s, file, n)
  BY <1>1, <1>3, <1>4, <1>5, <1>6, <1>8, <1>10, <1>12 DEF IsLine, IsLinking
<1>. QED  BY <1>2, <1>13

(* What is put together of two, from a certain place on.                   *)
Ends(s, m, t) ==
    /\ s \in Seq(Steps) /\ t \in Seq(Steps) /\ m \in Nat /\ Len(s) = m + Len(t)
    /\ \A i \in 1 .. Len(t) : s[m + i] = t[i]

(* A copy and its entry; bytes and their entry; a receipt and its link.    *)
IsAdding(s, n) ==
    /\ Is(s[1], "hash") /\ Is(s[2], "copyopens") /\ Is(s[3], "copyfills")
    /\ Is(s[4], "invalidate")
    /\ \E t : IsFiling(t, n) /\ Ends(s, 4, t)

IsStoring(s, n) ==
    /\ Is(s[1], "store") /\ Is(s[2], "syncstore") /\ Is(s[3], "invalidate")
    /\ \E t : IsFiling(t, n) /\ Ends(s, 3, t)

LEMMA AddingSteps == \A n \in Numbers : IsAdding(AddDocument(n), n)
<1> SUFFICES ASSUME NEW n \in Numbers PROVE IsAdding(AddDocument(n), n)
  OBVIOUS
<1> DEFINE a == Step("hash")
           b == Step("copyopens")
           c == Step("copyfills")
           d == Step("invalidate")
           t == IndexDocument(n)
           ab == a \o b
           abc == ab \o c
           abcd == abc \o d
           s == abcd \o t
<1>1. AddDocument(n) = s
  BY DEF AddDocument
<1>2. /\ a \in Seq(Steps) /\ Len(a) = 1 /\ Is(a[1], "hash")
      /\ b \in Seq(Steps) /\ Len(b) = 1 /\ Is(b[1], "copyopens")
      /\ c \in Seq(Steps) /\ Len(c) = 1 /\ Is(c[1], "copyfills")
      /\ d \in Seq(Steps) /\ Len(d) = 1 /\ Is(d[1], "invalidate")
  BY PlainStep DEF Plain
<1>3. IsFiling(t, n)
  BY FilingSteps
<1> HIDE DEF a, b, c, d, t
<1>4. Parts(ab, a, b)
  BY <1>2, Joined
<1> HIDE DEF ab
<1>5. ab \in Seq(Steps) /\ Len(ab) = 2 /\ ab[1] = a[1] /\ ab[2] = b[1]
  BY <1>2, <1>4 DEF Parts
<1>6. Parts(abc, ab, c)
  BY <1>2, <1>5, Joined
<1> HIDE DEF abc
<1>7. abc \in Seq(Steps) /\ Len(abc) = 3 /\ abc[1] = ab[1] /\ abc[2] = ab[2] /\ abc[3] = c[1]
  BY <1>2, <1>5, <1>6 DEF Parts
<1>8. Parts(abcd, abc, d)
  BY <1>2, <1>7, Joined
<1> HIDE DEF abcd
<1>9. /\ abcd \in Seq(Steps) /\ Len(abcd) = 4 /\ abcd[1] = abc[1] /\ abcd[2] = abc[2]
      /\ abcd[3] = abc[3] /\ abcd[4] = d[1]
  BY <1>2, <1>7, <1>8 DEF Parts
<1>10. Parts(s, abcd, t)
  BY <1>3, <1>9, Joined DEF IsFiling
<1> HIDE DEF s
<1>11. Ends(s, 4, t) /\ s[1] = abcd[1] /\ s[2] = abcd[2] /\ s[3] = abcd[3] /\ s[4] = abcd[4]
  BY <1>3, <1>9, <1>10 DEF Parts, Ends, IsFiling
<1>12. IsAdding(s, n)
  BY <1>2, <1>3, <1>5, <1>7, <1>9, <1>11 DEF IsAdding
<1>. QED  BY <1>1, <1>12

LEMMA StoringSteps == \A n \in Numbers : IsStoring(AddDocumentBytes(n), n)
<1> SUFFICES ASSUME NEW n \in Numbers PROVE IsStoring(AddDocumentBytes(n), n)
  OBVIOUS
<1> DEFINE a == Step("store")
           b == Step("syncstore")
           c == Step("invalidate")
           t == IndexDocument(n)
           ab == a \o b
           abc == ab \o c
           s == abc \o t
<1>1. AddDocumentBytes(n) = s
  BY DEF AddDocumentBytes
<1>2. /\ a \in Seq(Steps) /\ Len(a) = 1 /\ Is(a[1], "store")
      /\ b \in Seq(Steps) /\ Len(b) = 1 /\ Is(b[1], "syncstore")
      /\ c \in Seq(Steps) /\ Len(c) = 1 /\ Is(c[1], "invalidate")
  BY PlainStep DEF Plain
<1>3. IsFiling(t, n)
  BY FilingSteps
<1> HIDE DEF a, b, c, t
<1>4. Parts(ab, a, b)
  BY <1>2, Joined
<1> HIDE DEF ab
<1>5. ab \in Seq(Steps) /\ Len(ab) = 2 /\ ab[1] = a[1] /\ ab[2] = b[1]
  BY <1>2, <1>4 DEF Parts
<1>6. Parts(abc, ab, c)
  BY <1>2, <1>5, Joined
<1> HIDE DEF abc
<1>7. abc \in Seq(Steps) /\ Len(abc) = 3 /\ abc[1] = ab[1] /\ abc[2] = ab[2] /\ abc[3] = c[1]
  BY <1>2, <1>5, <1>6 DEF Parts
<1>8. Parts(s, abc, t)
  BY <1>3, <1>7, Joined DEF IsFiling
<1> HIDE DEF s
<1>9. Ends(s, 3, t) /\ s[1] = abc[1] /\ s[2] = abc[2] /\ s[3] = abc[3]
  BY <1>3, <1>7, <1>8 DEF Parts, Ends, IsFiling
<1>10. IsStoring(s, n)
  BY <1>2, <1>3, <1>5, <1>7, <1>9 DEF IsStoring
<1>. QED  BY <1>1, <1>10

IsReceipt(s, n) ==
    \/ IsRecorded(s, "invoices", "invoice", "invoice.recorded", "invoice", n)
    \/ \E r, t : /\ IsRecorded(r, "invoices", "invoice", "invoice.recorded", "invoice", n)
                 /\ \E file \in Contents : IsLinking(t, file, n)
                 /\ Ends(s, 7, t) /\ \A i \in 1 .. 7 : s[i] = r[i]

LEMMA ReceiptSteps ==
    \A file \in Contents \union {None}, n \in Numbers : IsReceipt(SaveReceipt(file, n), n)
<1> SUFFICES ASSUME NEW file \in Contents \union {None}, NEW n \in Numbers
             PROVE  IsReceipt(SaveReceipt(file, n), n)
  OBVIOUS
<1> DEFINE r == AppendInvoice(n)
           t == LinkDocument(file, n)
           s == r \o t
<1>1. IsRecorded(r, "invoices", "invoice", "invoice.recorded", "invoice", n)
  BY RecordedSteps DEF AppendInvoice, Recorded, Tags, Kinds
<1>2. CASE file = None
  <2>1. SaveReceipt(file, n) = r \o <<>>
    BY <1>2 DEF SaveReceipt
  <2> HIDE DEF r
  <2>2. r \o <<>> = r
    BY <1>1, ConcatEmptySeq DEF IsRecorded
  <2>. QED  BY <1>1, <2>1, <2>2 DEF IsReceipt
<1>3. CASE file # None
  <2>1. SaveReceipt(file, n) = s
    BY <1>3 DEF SaveReceipt
  <2>2. file \in Contents /\ IsLinking(t, file, n)
    BY <1>3, LinkingSteps
  <2> HIDE DEF r, t
  <2>3. r \in Seq(Steps) /\ Len(r) = 7 /\ t \in Seq(Steps) /\ Len(t) = 8
    BY <1>1, <2>2 DEF IsRecorded, IsLinking
  <2>4. Parts(s, r, t)
    BY <2>3, Joined
  <2> HIDE DEF s
  <2>5. Ends(s, 7, t) /\ \A i \in 1 .. 7 : s[i] = r[i]
    BY <2>3, <2>4 DEF Parts, Ends
  <2>. QED  BY <1>1, <2>1, <2>2, <2>5 DEF IsReceipt
<1>. QED  BY <1>2, <1>3

(***************************************************************************)
(* The order of the steps.                                                 *)
(***************************************************************************)
(* A step tells that record n is in store l: an audit line, an answer, and *)
(* the link to an invoice do.  Another step puts it there, and a third     *)
(* makes the store safe.                                                   *)
AuditTells(tag, l) ==
    \/ tag = "invoice.recorded" /\ l = "invoices"
    \/ tag = "obligation.completed" /\ l = "completions"
    \/ tag = "document.added" /\ l = "index"

AnswerTells(kind, l) ==
    \/ kind = "invoice" /\ l = "invoices"
    \/ kind = "completion" /\ l = "completions"
    \/ kind = "document" /\ l = "index"

Tells(a, l, n) ==
    \/ a.do = "write" /\ a.log = "audit" /\ a.line[2] = n /\ AuditTells(a.line[1], l)
    \/ a.do = "answer" /\ a.n = n /\ AnswerTells(a.kind, l)
    \/ a.do = "link" /\ a.invoice = n /\ l = "invoices"

Puts(a, l, n) ==
    \/ a.do = "write" /\ a.log = l /\ a.line[2] = n
    \/ a.do = "push" /\ a.at = n /\ l = "index"

Settles(a, l) ==
    \/ a.do = "sync" /\ a.log = l
    \/ a.do = "syncindex" /\ l = "index"

(* What a sequence of steps will tell is safe, or is put and then made     *)
(* safe before it is told.                                                 *)
Owed(s, safe, put) ==
    \A k \in 1 .. Len(s), l \in Stores, n \in Numbers :
        Tells(s[k], l, n) =>
            \/ <<l, n>> \in safe
            \/ \E j \in 1 .. k - 1 :
                  /\ Settles(s[j], l)
                  /\ \/ <<l, n>> \in put
                     \/ \E i \in 1 .. j - 1 : Puts(s[i], l, n)

(* A step of As finds c in C: it is there, or a step of Bs comes first;    *)
(* and no step of Xs comes between.                                        *)
Before(s, As, Bs, Xs, c, C) ==
    \A k \in 1 .. Len(s) :
        s[k].do \in As =>
            \/ c \in C /\ \A m \in 1 .. k - 1 : s[m].do \notin Xs
            \/ \E j \in 1 .. k - 1 :
                  s[j].do \in Bs /\ \A m \in j + 1 .. k - 1 : s[m].do \notin Xs

(* The hash is computed before it is used, a copy is opened before it is   *)
(* filled, bytes are put before their folder is synced; the content of a   *)
(* document can be proven, and is whole, before its entry is put; and the  *)
(* index is read before it is changed.                                     *)
Hashed(s, c) ==
    Before(s, {"copyopens", "copyfills", "store", "syncstore", "push"}, {"hash"}, {}, c, Contents)
Opened(s, c, C) == Before(s, {"copyfills"}, {"copyopens"}, {"hash"}, c, C)
Stored(s, c, C) == Before(s, {"syncstore"}, {"store"}, {"hash", "copyopens", "copyfills"}, c, C)
Proven(s, c, C) == Before(s, {"push"}, {"copyopens", "syncstore"}, {"hash"}, c, C)
Filled(s, c, C) == Before(s, {"push"}, {"copyfills", "store"}, {"hash", "copyopens"}, c, C)
ReadFirst(s, h, C) == Before(s, {"push", "link"}, {"readindex"}, {"push", "link"}, h, C)

(* The size is forgotten before a file is changed, or after it with        *)
(* nothing between that can fail.                                          *)
CanFail == {"write", "sync", "hash", "copyopens", "copyfills", "store", "readindex", "push", "link"}
Forgotten(s, c, C) == Before(s, {"write", "push", "link", "find"}, {"invalidate"}, {}, c, C)
Forgets(s, k) ==
    \E j \in k .. Len(s) : s[j].do = "invalidate" /\ \A m \in k .. j - 1 : s[m].do \notin CanFail
ForgetsAfter(s) ==
    \A k \in 1 .. Len(s) : s[k].do \in {"store", "copyfills"} => Forgets(s, k + 1)

(* A sequence that relies on nothing.                                      *)
Prepared(s) ==
    /\ s \in Seq(Steps)
    /\ Owed(s, {}, {})
    /\ Forgotten(s, None, {}) /\ ForgetsAfter(s)
    /\ Opened(s, None, {}) /\ Stored(s, None, {}) /\ Proven(s, None, {}) /\ Filled(s, None, {})
    /\ ReadFirst(s, None, {})

LEMMA OpeningPrepared ==
    \A n \in Numbers : /\ Prepared(AppendAudit("vault.opened", n))
                       /\ \A c : Hashed(AppendAudit("vault.opened", n), c)
<1> SUFFICES ASSUME NEW n \in Numbers, NEW c, NEW s, s = AppendAudit("vault.opened", n)
             PROVE  Prepared(s) /\ Hashed(s, c)
  OBVIOUS
<1>1. IsLine(s, "audit", "vault.opened", n)
  BY LineSteps DEF AppendAudit, Logs, Tags
<1>2. \A k \in 1 .. Len(s) : s[k].do \in {"invalidate", "write", "sync"}
  BY <1>1 DEF IsLine, Is, Writes, Syncs
<1>3. \A k \in 1 .. Len(s), l \in Stores, m \in Numbers : ~Tells(s[k], l, m)
  BY <1>1 DEF IsLine, Is, Writes, Syncs, Tells, AuditTells, AnswerTells
<1>4. Forgotten(s, None, {})
  <2>1. ASSUME NEW k \in 1 .. Len(s), s[k].do = "write" PROVE k > 1
    BY <2>1, <1>1 DEF IsLine, Is
  <2>. QED  BY <2>1, <1>1, <1>2 DEF IsLine, Is, Forgotten, Before
<1>. QED
  BY <1>1, <1>2, <1>3, <1>4 DEF IsLine, Prepared, Owed, Before, Hashed, Opened, Stored, Proven,
                                Filled, ReadFirst, ForgetsAfter

LEMMA RecordedPrepared ==
    ASSUME NEW l \in Recorded, NEW tag \in Tags, NEW told \in Tags, NEW kind \in Kinds,
           NEW n \in Numbers, NEW s, IsRecorded(s, l, tag, told, kind, n),
           \/ l = "invoices" /\ told = "invoice.recorded" /\ kind = "invoice"
           \/ l = "completions" /\ told = "obligation.completed" /\ kind = "completion"
    PROVE  Prepared(s) /\ \A c : Hashed(s, c)
<1>1. \A k \in 1 .. Len(s) : s[k].do \in {"invalidate", "write", "sync", "answer"}
  BY DEF IsRecorded, Is, Writes, Syncs, Returns
<1>2. Puts(s[2], l, n) /\ Settles(s[3], l)
  BY DEF IsRecorded, Is, Writes, Syncs, Puts, Settles
<1>3. ASSUME NEW k \in 1 .. Len(s), NEW r \in Stores, NEW m \in Numbers, Tells(s[k], r, m)
      PROVE  r = l /\ m = n /\ k > 3
  <2>1. l # "audit"
    BY DEF Recorded
  <2>2. k \in {1, 2, 3, 4, 5, 6, 7}
    BY DEF IsRecorded
  <2>3. ~Tells(s[1], r, m) /\ ~Tells(s[2], r, m) /\ ~Tells(s[3], r, m)
    BY <2>1 DEF IsRecorded, Is, Writes, Syncs, Returns, Tells, AuditTells, AnswerTells
  <2>4. Tells(s[5], r, m) => r = l /\ m = n
    BY <2>1 DEF IsRecorded, Is, Writes, Syncs, Returns, Tells, AuditTells, AnswerTells
  <2>5. Tells(s[7], r, m) => r = l /\ m = n
    BY <2>1 DEF IsRecorded, Is, Writes, Syncs, Returns, Tells, AuditTells, AnswerTells
  <2>6. ~Tells(s[4], r, m) /\ ~Tells(s[6], r, m)
    BY <2>1 DEF IsRecorded, Is, Writes, Syncs, Returns, Tells, AuditTells, AnswerTells
  <2>. QED  BY <1>3, <2>2, <2>3, <2>4, <2>5, <2>6
<1>4. Owed(s, {}, {})
  BY <1>2, <1>3 DEF Owed
<1>5. s \in Seq(Steps)
  BY DEF IsRecorded
<1>6. Forgotten(s, None, {})
  <2>1. s[1].do = "invalidate"
    BY DEF IsRecorded, Is
  <2>2. ASSUME NEW k \in 1 .. Len(s), s[k].do \in {"write", "push", "link", "find"} PROVE k > 1
    BY <2>1, <2>2
  <2>. QED  BY <2>1, <2>2 DEF Forgotten, Before
<1>. QED
  BY <1>1, <1>4, <1>5, <1>6 DEF Prepared, Before, Hashed, Opened, Stored, Proven, Filled, ReadFirst,
                                ForgetsAfter

(* The order in the filing of a document, wherever it begins.              *)
LEMMA FilingEnds ==
    ASSUME NEW n \in Numbers, NEW t, IsFiling(t, n), NEW s, NEW m \in {3, 4}, Ends(s, m, t),
           \A k \in 1 .. m : s[k].do \in {"hash", "copyopens", "copyfills", "store", "syncstore",
                                          "invalidate"}
    PROVE  /\ s \in Seq(Steps) /\ Len(s) = m + 8
           /\ s[m + 1].do = "readindex" /\ s[m + 2].do = "invalidate" /\ s[m + 3].do = "push"
           /\ s[m + 4].do = "syncindex" /\ s[m + 5].do = "invalidate" /\ s[m + 6].do = "write"
           /\ s[m + 7].do = "sync" /\ s[m + 8].do = "answer"
           /\ Owed(s, {}, {}) /\ ReadFirst(s, None, {}) /\ Forgotten(s, None, {})
<1>1. /\ s \in Seq(Steps) /\ Len(s) = m + 8
      /\ s[m + 1] = t[1] /\ s[m + 2] = t[2] /\ s[m + 3] = t[3] /\ s[m + 4] = t[4]
      /\ s[m + 5] = t[5] /\ s[m + 6] = t[6] /\ s[m + 7] = t[7] /\ s[m + 8] = t[8]
  BY DEF IsFiling, Ends
<1>2. /\ s[m + 1].do = "readindex" /\ s[m + 2].do = "invalidate" /\ s[m + 3].do = "push"
      /\ s[m + 4].do = "syncindex" /\ s[m + 5].do = "invalidate" /\ s[m + 6].do = "write"
      /\ s[m + 7].do = "sync" /\ s[m + 8].do = "answer"
  BY <1>1 DEF IsFiling, Is, Pushes, Writes, Syncs, Returns
<1>3. \A k \in 1 .. Len(s) : \/ k \in 1 .. m
                             \/ k \in {m + 1, m + 2, m + 3, m + 4, m + 5, m + 6, m + 7, m + 8}
  <2> TAKE k \in 1 .. Len(s)
  <2>1. Len(s) = m + 8
    BY <1>1
  <2>2. m \in Nat /\ k \in Nat /\ k >= 1 /\ k <= m + 8
    BY <2>1
  <2>. QED  BY <2>2
<1>4. ReadFirst(s, None, {})
  <2>1. ASSUME NEW k \in 1 .. Len(s), s[k].do \in {"push", "link"} PROVE k = m + 3
    BY <2>1, <1>2, <1>3
  <2>. QED  BY <1>2, <2>1 DEF ReadFirst, Before
<1>5. Owed(s, {}, {})
  <2>1. Puts(s[m + 3], "index", n) /\ Settles(s[m + 4], "index")
    BY <1>1 DEF IsFiling, Is, Pushes, Puts, Settles
  <2>2. ASSUME NEW k \in 1 .. Len(s), NEW l \in Stores, NEW r \in Numbers, Tells(s[k], l, r)
        PROVE  l = "index" /\ r = n /\ k > m + 4
    <3>0. s[k].do \in {"write", "answer", "link"}
      BY <2>2 DEF Tells, AuditTells, AnswerTells
    <3>1. k = m + 6 \/ k = m + 8
      <4>1. k \notin 1 .. m
        BY <3>0
      <4>. QED  BY <3>0, <4>1, <1>2, <1>3
    <3>2. CASE k = m + 6
      BY <2>2, <3>2, <1>1 DEF Tells, AuditTells, AnswerTells, IsFiling, Is, Writes
    <3>3. CASE k = m + 8
      BY <2>2, <3>3, <1>1 DEF Tells, AuditTells, AnswerTells, IsFiling, Is, Returns
    <3>. QED  BY <3>1, <3>2, <3>3
  <2>. QED  BY <2>1, <2>2 DEF Owed
<1>6. Forgotten(s, None, {})
  <2>1. ASSUME NEW k \in 1 .. Len(s), s[k].do \in {"write", "push", "link", "find"}
        PROVE  k > m + 2
    <3>1. k \notin 1 .. m
      BY <2>1
    <3>2. k # m + 1 /\ k # m + 2
      BY <2>1, <1>2
    <3>. QED  BY <1>3, <3>1, <3>2
  <2>. QED  BY <1>2, <2>1 DEF Forgotten, Before
<1>. QED  BY <1>1, <1>2, <1>4, <1>5, <1>6

LEMMA AddingPrepared ==
    ASSUME NEW n \in Numbers, NEW s, IsAdding(s, n)
    PROVE  Prepared(s) /\ \A c : Hashed(s, c)
<1>1. PICK t : IsFiling(t, n) /\ Ends(s, 4, t)
  BY DEF IsAdding
<1>2. /\ s[1].do = "hash" /\ s[2].do = "copyopens" /\ s[3].do = "copyfills"
      /\ s[4].do = "invalidate"
  BY DEF IsAdding, Is
<1>3. \A k \in 1 .. 4 : s[k].do \in {"hash", "copyopens", "copyfills", "store", "syncstore",
                                     "invalidate"}
  BY <1>2
<1>4. /\ s \in Seq(Steps) /\ Len(s) = 12
      /\ s[5].do = "readindex" /\ s[6].do = "invalidate" /\ s[7].do = "push"
      /\ s[8].do = "syncindex" /\ s[9].do = "invalidate" /\ s[10].do = "write"
      /\ s[11].do = "sync" /\ s[12].do = "answer"
      /\ Owed(s, {}, {}) /\ ReadFirst(s, None, {}) /\ Forgotten(s, None, {})
  <2>1. /\ s \in Seq(Steps) /\ Len(s) = 4 + 8
        /\ s[4 + 1].do = "readindex" /\ s[4 + 2].do = "invalidate" /\ s[4 + 3].do = "push"
        /\ s[4 + 4].do = "syncindex" /\ s[4 + 5].do = "invalidate" /\ s[4 + 6].do = "write"
        /\ s[4 + 7].do = "sync" /\ s[4 + 8].do = "answer"
        /\ Owed(s, {}, {}) /\ ReadFirst(s, None, {}) /\ Forgotten(s, None, {})
    BY <1>1, <1>3, FilingEnds
  <2>. QED  BY <2>1
<1>5. \A k \in 1 .. Len(s) : k \in {1, 2, 3, 4, 5, 6, 7, 8, 9, 10, 11, 12}
  BY <1>4
<1>6. Opened(s, None, {})
  <2>1. ASSUME NEW k \in 1 .. Len(s), s[k].do = "copyfills" PROVE k = 3
    BY <2>1, <1>2, <1>4, <1>5
  <2>. QED  BY <2>1, <1>2 DEF Opened, Before
<1>7. Stored(s, None, {})
  <2>1. ASSUME NEW k \in 1 .. Len(s) PROVE s[k].do # "syncstore"
    BY <1>2, <1>4, <1>5
  <2>. QED  BY <2>1 DEF Stored, Before
<1>8. ASSUME NEW k \in 1 .. Len(s), s[k].do = "push" PROVE k = 7
  BY <1>8, <1>2, <1>4, <1>5
<1>9. \A k \in 4 .. 7 : s[k].do \notin {"hash", "copyopens"}
  BY <1>2, <1>4
<1>10. Proven(s, None, {})
  BY <1>2, <1>8, <1>9 DEF Proven, Before
<1>11. Filled(s, None, {})
  BY <1>2, <1>8, <1>9 DEF Filled, Before
<1>12. \A c : Hashed(s, c)
  <2>1. ASSUME NEW k \in 1 .. Len(s),
               s[k].do \in {"copyopens", "copyfills", "store", "syncstore", "push"}
        PROVE  k > 1
    BY <2>1, <1>2
  <2>. QED  BY <2>1, <1>2 DEF Hashed, Before
<1>13. ForgetsAfter(s)
  <2>1. ASSUME NEW k \in 1 .. Len(s), s[k].do \in {"store", "copyfills"} PROVE k = 3
    BY <2>1, <1>2, <1>4, <1>5
  <2>2. Forgets(s, 4)
    BY <1>2, <1>4 DEF Forgets
  <2>. QED  BY <2>1, <2>2 DEF ForgetsAfter
<1>. QED
  BY <1>4, <1>6, <1>7, <1>10, <1>11, <1>12, <1>13 DEF Prepared

LEMMA StoringPrepared ==
    ASSUME NEW n \in Numbers, NEW s, IsStoring(s, n)
    PROVE  Prepared(s) /\ \A c \in Contents : Hashed(s, c)
<1>1. PICK t : IsFiling(t, n) /\ Ends(s, 3, t)
  BY DEF IsStoring
<1>2. s[1].do = "store" /\ s[2].do = "syncstore" /\ s[3].do = "invalidate"
  BY DEF IsStoring, Is
<1>3. \A k \in 1 .. 3 : s[k].do \in {"hash", "copyopens", "copyfills", "store", "syncstore",
                                     "invalidate"}
  BY <1>2
<1>4. /\ s \in Seq(Steps) /\ Len(s) = 11
      /\ s[4].do = "readindex" /\ s[5].do = "invalidate" /\ s[6].do = "push"
      /\ s[7].do = "syncindex" /\ s[8].do = "invalidate" /\ s[9].do = "write"
      /\ s[10].do = "sync" /\ s[11].do = "answer"
      /\ Owed(s, {}, {}) /\ ReadFirst(s, None, {}) /\ Forgotten(s, None, {})
  <2>1. /\ s \in Seq(Steps) /\ Len(s) = 3 + 8
        /\ s[3 + 1].do = "readindex" /\ s[3 + 2].do = "invalidate" /\ s[3 + 3].do = "push"
        /\ s[3 + 4].do = "syncindex" /\ s[3 + 5].do = "invalidate" /\ s[3 + 6].do = "write"
        /\ s[3 + 7].do = "sync" /\ s[3 + 8].do = "answer"
        /\ Owed(s, {}, {}) /\ ReadFirst(s, None, {}) /\ Forgotten(s, None, {})
    BY <1>1, <1>3, FilingEnds
  <2>. QED  BY <2>1
<1>5. \A k \in 1 .. Len(s) : k \in {1, 2, 3, 4, 5, 6, 7, 8, 9, 10, 11}
  BY <1>4
<1>6. Opened(s, None, {})
  <2>1. ASSUME NEW k \in 1 .. Len(s) PROVE s[k].do # "copyfills"
    BY <1>2, <1>4, <1>5
  <2>. QED  BY <2>1 DEF Opened, Before
<1>7. Stored(s, None, {})
  <2>1. ASSUME NEW k \in 1 .. Len(s), s[k].do = "syncstore" PROVE k = 2
    BY <2>1, <1>2, <1>4, <1>5
  <2>. QED  BY <2>1, <1>2 DEF Stored, Before
<1>8. ASSUME NEW k \in 1 .. Len(s), s[k].do = "push" PROVE k = 6
  BY <1>8, <1>2, <1>4, <1>5
<1>9. \A k \in 1 .. 6 : s[k].do \notin {"hash", "copyopens"}
  BY <1>2, <1>4
<1>10. Proven(s, None, {})
  BY <1>2, <1>8, <1>9 DEF Proven, Before
<1>11. Filled(s, None, {})
  BY <1>2, <1>8, <1>9 DEF Filled, Before
<1>12. \A c \in Contents : Hashed(s, c)
  BY DEF Hashed, Before
<1>13. ForgetsAfter(s)
  <2>1. ASSUME NEW k \in 1 .. Len(s), s[k].do \in {"store", "copyfills"} PROVE k = 1
    BY <2>1, <1>2, <1>4, <1>5
  <2>2. Forgets(s, 2)
    BY <1>2, <1>4 DEF Forgets, CanFail
  <2>. QED  BY <2>1, <2>2 DEF ForgetsAfter
<1>. QED
  BY <1>4, <1>6, <1>7, <1>10, <1>11, <1>12, <1>13 DEF Prepared

LEMMA ReceiptPrepared ==
    ASSUME NEW n \in Numbers, NEW s, IsReceipt(s, n)
    PROVE  Prepared(s) /\ \A c : Hashed(s, c)
<1>1. CASE IsRecorded(s, "invoices", "invoice", "invoice.recorded", "invoice", n)
  BY <1>1, RecordedPrepared DEF Recorded, Tags, Kinds
<1>2. ASSUME NEW r, NEW t, NEW file \in Contents,
             IsRecorded(r, "invoices", "invoice", "invoice.recorded", "invoice", n),
             IsLinking(t, file, n), Ends(s, 7, t), \A i \in 1 .. 7 : s[i] = r[i]
      PROVE  Prepared(s) /\ \A c : Hashed(s, c)
  <2>1. /\ s \in Seq(Steps) /\ Len(s) = 15
        /\ s[8] = t[1] /\ s[9] = t[2] /\ s[10] = t[3] /\ s[11] = t[4]
        /\ s[12] = t[5] /\ s[13] = t[6] /\ s[14] = t[7] /\ s[15] = t[8]
    <3>1. /\ s \in Seq(Steps) /\ Len(s) = 7 + 8
          /\ s[7 + 1] = t[1] /\ s[7 + 2] = t[2] /\ s[7 + 3] = t[3] /\ s[7 + 4] = t[4]
          /\ s[7 + 5] = t[5] /\ s[7 + 6] = t[6] /\ s[7 + 7] = t[7] /\ s[7 + 8] = t[8]
      BY <1>2 DEF IsLinking, Ends
    <3>. QED  BY <3>1
  <2>2. /\ s[8].do = "readindex" /\ s[9].do = "find" /\ s[10].do = "invalidate"
        /\ s[11].do = "link" /\ s[12].do = "syncindex" /\ s[13].do = "invalidate"
        /\ s[14].do = "write" /\ s[15].do = "sync"
    BY <1>2, <2>1 DEF IsLinking, Is, Finds, Links, Writes, Syncs
  <2>3. \A k \in 1 .. Len(s) : k \in 1 .. 7 \/ k \in {8, 9, 10, 11, 12, 13, 14, 15}
    BY <2>1
  <2>4. Prepared(r) /\ Len(r) = 7
    BY <1>2, RecordedPrepared DEF Recorded, Tags, Kinds, IsRecorded
  <2>5. \A k \in 1 .. 7 : s[k].do \in {"invalidate", "write", "sync", "answer"}
    BY <1>2 DEF IsRecorded, Is, Writes, Syncs, Returns
  <2>6. /\ Puts(s[2], "invoices", n) /\ Settles(s[3], "invoices")
    BY <1>2 DEF IsRecorded, Is, Writes, Syncs, Puts, Settles
  <2>7. Owed(s, {}, {})
    <3>1. ASSUME NEW k \in 1 .. 7, NEW l \in Stores, NEW m \in Numbers, Tells(s[k], l, m)
          PROVE  \E j \in 1 .. k - 1 : Settles(s[j], l) /\ \E i \in 1 .. j - 1 : Puts(s[i], l, m)
      <4>1. Tells(r[k], l, m) /\ k \in 1 .. Len(r)
        BY <1>2, <2>4, <3>1
      <4>2. PICK j \in 1 .. k - 1 : Settles(r[j], l) /\ \E i \in 1 .. j - 1 : Puts(r[i], l, m)
        BY <4>1, <2>4 DEF Prepared, Owed
      <4>3. PICK i \in 1 .. j - 1 : Puts(r[i], l, m)
        BY <4>2
      <4>4. s[j] = r[j] /\ s[i] = r[i]
        BY <1>2
      <4>. QED  BY <4>2, <4>3, <4>4
    <3>2. ASSUME NEW k \in 1 .. Len(s), k \notin 1 .. 7, NEW l \in Stores, NEW m \in Numbers,
                 Tells(s[k], l, m)
          PROVE  l = "invoices" /\ m = n /\ k > 7
      <4>1. s[k].do \in {"write", "answer", "link"}
        BY <3>2 DEF Tells
      <4>2. k = 11 \/ k = 14
        BY <3>2, <4>1, <2>2, <2>3
      <4>3. ~Tells(s[14], l, m)
        BY <1>2, <2>1 DEF IsLinking, Is, Writes, Tells, AuditTells
      <4>4. Tells(s[11], l, m) => l = "invoices" /\ m = n
        BY <1>2, <2>1 DEF IsLinking, Is, Links, Tells
      <4>. QED  BY <3>2, <4>2, <4>3, <4>4
    <3>. QED  BY <2>6, <3>1, <3>2 DEF Owed
  <2>8. ASSUME NEW k \in 1 .. Len(s),
               s[k].do \in {"copyopens", "copyfills", "store", "syncstore", "push", "link"}
        PROVE  k = 11
    BY <2>8, <2>2, <2>3, <2>5
  <2>9. ReadFirst(s, None, {})
    BY <2>2, <2>8 DEF ReadFirst, Before
  <2>10. \A k \in 1 .. Len(s) :
           s[k].do \notin {"copyopens", "copyfills", "store", "syncstore", "push"}
    BY <2>2, <2>8
  <2>11. Forgotten(s, None, {})
    <3>1. s[1].do = "invalidate"
      BY <1>2 DEF IsRecorded, Is
    <3>2. ASSUME NEW k \in 1 .. Len(s), s[k].do \in {"write", "push", "link", "find"} PROVE k > 1
      BY <3>1, <3>2
    <3>. QED  BY <2>1, <3>1, <3>2 DEF Forgotten, Before
  <2>. QED
    BY <2>1, <2>7, <2>9, <2>10, <2>11 DEF Prepared, Before, Hashed, Opened, Stored, Proven, Filled,
                                          ForgetsAfter
<1>. QED  BY <1>1, <1>2 DEF IsReceipt

(* Nothing to do is nothing owed.                                          *)
LEMMA NothingPrepared == Prepared(<<>>) /\ \A c : Hashed(<<>>, c)
BY DEF Prepared, Owed, Before, Hashed, Opened, Stored, Proven, Filled, ReadFirst,
       Forgotten, ForgetsAfter

(***************************************************************************)
(* One step less.                                                          *)
(***************************************************************************)
IsTail(t, s) ==
    /\ s \in Seq(Steps) /\ t \in Seq(Steps) /\ Len(s) \in Nat /\ Len(s) >= 1
    /\ s[1] \in Steps /\ Len(t) = Len(s) - 1
    /\ \A i \in 1 .. Len(t) : t[i] = s[i + 1]

LEMMA Tails == \A s \in Seq(Steps) : s # <<>> => IsTail(Tail(s), s) /\ Head(s) = s[1]
BY HeadTailProperties, EmptySeq DEF IsTail

LEMMA OwedTail ==
    ASSUME NEW s, NEW t, IsTail(t, s), NEW safe, NEW put, Owed(s, safe, put),
           NEW safe2, NEW put2, safe \subseteq safe2, put \subseteq put2,
           \A l \in Stores, n \in Numbers : Puts(s[1], l, n) => <<l, n>> \in put2,
           \A l \in Stores, n \in Numbers :
              Settles(s[1], l) /\ <<l, n>> \in put => <<l, n>> \in safe2
    PROVE  Owed(t, safe2, put2)
<1> SUFFICES ASSUME NEW k \in 1 .. Len(t), NEW l \in Stores, NEW n \in Numbers, Tells(t[k], l, n),
                    <<l, n>> \notin safe2
             PROVE  \E j \in 1 .. k - 1 :
                       /\ Settles(t[j], l)
                       /\ \/ <<l, n>> \in put2
                          \/ \E i \in 1 .. j - 1 : Puts(t[i], l, n)
  BY DEF Owed
<1>1. k + 1 \in 1 .. Len(s) /\ t[k] = s[k + 1]
  BY DEF IsTail
<1>2. PICK j \in 1 .. k : /\ Settles(s[j], l)
                          /\ \/ <<l, n>> \in put
                             \/ \E i \in 1 .. j - 1 : Puts(s[i], l, n)
  <2>1. PICK q \in 1 .. Len(s) : q = k + 1
    BY <1>1
  <2>2. Tells(s[q], l, n) /\ <<l, n>> \notin safe
    BY <1>1, <2>1
  <2>3. PICK j \in 1 .. q - 1 : /\ Settles(s[j], l)
                                /\ \/ <<l, n>> \in put
                                   \/ \E i \in 1 .. j - 1 : Puts(s[i], l, n)
    BY <2>2 DEF Owed
  <2>4. j \in 1 .. k
    BY <2>1, <2>3
  <2>. QED  BY <2>3, <2>4
<1>3. j # 1
  BY <1>2
<1>4. j - 1 \in 1 .. k - 1 /\ t[j - 1] = s[j]
  BY <1>2, <1>3 DEF IsTail
<1>5. \/ <<l, n>> \in put2
      \/ \E i \in 1 .. (j - 1) - 1 : Puts(t[i], l, n)
  <2>1. CASE <<l, n>> \in put
    BY <2>1
  <2>2. ASSUME NEW i \in 1 .. j - 1, Puts(s[i], l, n) PROVE <1>5
    <3>1. CASE i = 1
      BY <2>2, <3>1
    <3>2. CASE i # 1
      <4>1. i - 1 \in 1 .. (j - 1) - 1 /\ t[i - 1] = s[i]
        BY <1>2, <3>2 DEF IsTail
      <4>. QED  BY <2>2, <4>1
    <3>. QED  BY <3>1, <3>2
  <2>. QED  BY <1>2, <2>1, <2>2
<1>. QED  BY <1>2, <1>4, <1>5

LEMMA BeforeTail ==
    ASSUME NEW s, NEW t, IsTail(t, s), NEW As, NEW Bs, NEW Xs, NEW c, NEW C,
           Before(s, As, Bs, Xs, c, C), NEW c2, NEW C2,
           s[1].do \in Bs => c2 \in C2,
           c \in C /\ s[1].do \notin Xs => c2 \in C2
    PROVE  Before(t, As, Bs, Xs, c2, C2)
<1> SUFFICES ASSUME NEW k \in 1 .. Len(t), t[k].do \in As
             PROVE  \/ c2 \in C2 /\ \A m \in 1 .. k - 1 : t[m].do \notin Xs
                    \/ \E j \in 1 .. k - 1 :
                          t[j].do \in Bs /\ \A m \in j + 1 .. k - 1 : t[m].do \notin Xs
  BY DEF Before
<1>1. k + 1 \in 1 .. Len(s) /\ t[k] = s[k + 1]
  BY DEF IsTail
<1>2. \A m \in 1 .. k - 1 : t[m] = s[m + 1]
  BY DEF IsTail
<1>3. \/ c \in C /\ \A m \in 1 .. k : s[m].do \notin Xs
      \/ \E j \in 1 .. k : s[j].do \in Bs /\ \A m \in j + 1 .. k : s[m].do \notin Xs
  <2>1. PICK q \in 1 .. Len(s) : q = k + 1
    BY <1>1
  <2>2. s[q].do \in As
    BY <1>1, <2>1
  <2>3. \/ c \in C /\ \A m \in 1 .. q - 1 : s[m].do \notin Xs
        \/ \E j \in 1 .. q - 1 :
              s[j].do \in Bs /\ \A m \in j + 1 .. q - 1 : s[m].do \notin Xs
    BY <2>2 DEF Before
  <2>4. q - 1 = k
    BY <2>1
  <2>. QED  BY <2>3, <2>4
<1>4. CASE c \in C /\ \A m \in 1 .. k : s[m].do \notin Xs
  <2>1. c2 \in C2
    BY <1>4
  <2>2. \A m \in 1 .. k - 1 : t[m].do \notin Xs
    BY <1>2, <1>4
  <2>. QED  BY <2>1, <2>2
<1>5. ASSUME NEW j \in 1 .. k, s[j].do \in Bs, \A m \in j + 1 .. k : s[m].do \notin Xs
      PROVE  \/ c2 \in C2 /\ \A m \in 1 .. k - 1 : t[m].do \notin Xs
             \/ \E i \in 1 .. k - 1 :
                   t[i].do \in Bs /\ \A m \in i + 1 .. k - 1 : t[m].do \notin Xs
  <2>1. CASE j = 1
    <3>1. \A m \in 1 .. k - 1 : t[m].do \notin Xs
      BY <1>2, <1>5, <2>1
    <3>. QED  BY <1>5, <2>1, <3>1
  <2>2. CASE j # 1
    <3>1. j - 1 \in 1 .. k - 1 /\ t[j - 1] = s[j]
      BY <1>2, <2>2
    <3>2. \A m \in (j - 1) + 1 .. k - 1 : t[m].do \notin Xs
      <4> TAKE m \in (j - 1) + 1 .. k - 1
      <4>1. m \in 1 .. k - 1 /\ m + 1 \in j + 1 .. k
        OBVIOUS
      <4>. QED  BY <1>2, <1>5, <4>1
    <3>. QED  BY <1>5, <3>1, <3>2
  <2>. QED  BY <2>1, <2>2
<1>. QED  BY <1>3, <1>4, <1>5

LEMMA ForgetsTail ==
    ASSUME NEW s, NEW t, IsTail(t, s)
    PROVE  /\ ForgetsAfter(s) => ForgetsAfter(t)
           /\ ForgetsAfter(s) /\ s[1].do \in {"store", "copyfills"} => Forgets(t, 1)
           /\ Forgets(s, 1) /\ s[1].do # "invalidate" => Forgets(t, 1)
<1>1. ASSUME NEW k \in 1 .. Len(s), Forgets(s, k + 1) PROVE Forgets(t, k)
  <2>1. PICK j \in k + 1 .. Len(s) :
           s[j].do = "invalidate" /\ \A m \in k + 1 .. j - 1 : s[m].do \notin CanFail
    BY <1>1 DEF Forgets
  <2>2. j - 1 \in k .. Len(t) /\ t[j - 1] = s[j]
    BY <2>1 DEF IsTail
  <2>3. \A m \in k .. (j - 1) - 1 : t[m].do \notin CanFail
    <3> TAKE m \in k .. (j - 1) - 1
    <3>1. m + 1 \in k + 1 .. j - 1 /\ m \in 1 .. Len(t)
      BY <2>1 DEF IsTail
    <3>. QED  BY <2>1, <3>1 DEF IsTail
  <2>. QED  BY <2>1, <2>2, <2>3 DEF Forgets
<1>2. ASSUME ForgetsAfter(s), NEW k \in 1 .. Len(t), t[k].do \in {"store", "copyfills"}
      PROVE  Forgets(t, k + 1)
  <2>1. k + 1 \in 1 .. Len(s) /\ t[k] = s[k + 1]
    BY DEF IsTail
  <2>2. Forgets(s, (k + 1) + 1)
    BY <1>2, <2>1 DEF ForgetsAfter
  <2>. QED  BY <1>1, <2>1, <2>2
<1>3. 1 \in 1 .. Len(s)
  BY DEF IsTail
<1>4. ASSUME ForgetsAfter(s), s[1].do \in {"store", "copyfills"} PROVE Forgets(t, 1)
  BY <1>1, <1>3, <1>4 DEF ForgetsAfter
<1>5. ASSUME Forgets(s, 1), s[1].do # "invalidate" PROVE Forgets(t, 1)
  <2>1. PICK j \in 1 .. Len(s) :
           s[j].do = "invalidate" /\ \A m \in 1 .. j - 1 : s[m].do \notin CanFail
    BY <1>5 DEF Forgets
  <2>2. j \in 1 + 1 .. Len(s) /\ \A m \in 1 + 1 .. j - 1 : s[m].do \notin CanFail
    BY <1>5, <2>1 DEF IsTail
  <2>3. Forgets(s, 1 + 1)
    BY <2>1, <2>2 DEF Forgets
  <2>. QED  BY <1>1, <1>3, <2>3
<1>6. ForgetsAfter(s) => ForgetsAfter(t)
  BY <1>2 DEF ForgetsAfter
<1>. QED  BY <1>4, <1>5, <1>6

(* More is safe.                                                           *)
LEMMA OwedGrows ==
    ASSUME NEW s, NEW safe, NEW put, Owed(s, safe, put),
           NEW safe2, NEW put2, safe \subseteq safe2, put \subseteq put2
    PROVE  Owed(s, safe2, put2)
<1> SUFFICES ASSUME NEW k \in 1 .. Len(s), NEW l \in Stores, NEW n \in Numbers, Tells(s[k], l, n),
                    <<l, n>> \notin safe2
             PROVE  \E j \in 1 .. k - 1 :
                       /\ Settles(s[j], l)
                       /\ \/ <<l, n>> \in put2
                          \/ \E i \in 1 .. j - 1 : Puts(s[i], l, n)
  BY DEF Owed
<1>1. \E j \in 1 .. k - 1 : /\ Settles(s[j], l)
                            /\ \/ <<l, n>> \in put
                               \/ \E i \in 1 .. j - 1 : Puts(s[i], l, n)
  BY DEF Owed
<1>. QED  BY <1>1

LEMMA PreparedOwes ==
    ASSUME NEW s, Prepared(s), NEW safe, NEW put, NEW c, NEW C, NEW h, NEW H
    PROVE  /\ Owed(s, safe, put)
           /\ Opened(s, c, C) /\ Stored(s, c, C) /\ Proven(s, c, C) /\ Filled(s, c, C)
           /\ ReadFirst(s, h, H) /\ Forgotten(s, c, C) /\ ForgetsAfter(s)
<1>1. Owed(s, safe, put)
  BY DEF Prepared, Owed
<1>2. Opened(s, c, C) /\ Stored(s, c, C) /\ Proven(s, c, C) /\ Filled(s, c, C)
  BY DEF Prepared, Opened, Stored, Proven, Filled, Before
<1>3. ReadFirst(s, h, H)
  BY DEF Prepared, ReadFirst, Before
<1>4. Forgotten(s, c, C) /\ ForgetsAfter(s)
  BY DEF Prepared, Forgotten, Before
<1>. QED  BY <1>1, <1>2, <1>3, <1>4

(***************************************************************************)
(* The invariant.                                                          *)
(***************************************************************************)
Contained == Contents \union {Absent, Partial}

WindowTypes ==
    /\ lock \in Windows \union {None} /\ open \subseteq Windows
    /\ todo \in [Windows -> Seq(Steps)]
    /\ sha \in [Windows -> Contents \union {None}]
    /\ held \in [Windows -> Seq(Entries)]
    /\ stats \in [Windows -> {"none", "fresh", "stale"}]
LogTypes ==
    /\ logs \in [Logs -> [lines : Seq(Lines), synced : Nat]]
    /\ \A l \in Logs : logs[l].synced <= Len(logs[l].lines)
IndexTypes ==
    /\ index \in [now : Seq(Entries), left : SUBSET Seq(Entries)] /\ index.now \in index.left
    /\ unfiled \subseteq Numbers /\ \A n \in unfiled : Has(index.now, n)
FileTypes ==
    /\ files \in [Contents -> [now : Contained, left : SUBSET Contained]]
    /\ \A c \in Contents : files[c].now \in files[c].left
    /\ copied \subseteq Contents /\ unstored \subseteq Contents
    /\ \A c \in Contents \ copied : files[c].left \subseteq {c, Absent}
OtherTypes ==
    /\ ops \in Numbers /\ answered \subseteq Answers
    /\ named \subseteq Logs \union Stores /\ lost \subseteq Stores \X Numbers
Types == WindowTypes /\ LogTypes /\ IndexTypes /\ FileTypes /\ OtherTypes

(* The documents that are whole, that hold what their name says, and that  *)
(* hold it whatever the power does, were copied, or wait for their folder. *)
WholeBy(fs) == {c \in Contents : fs[c].now \in Contents}
StoredBy(fs) == {c \in Contents : fs[c].now = c}
Assured == {c \in Contents : files[c].left = {c} \/ c \in copied \/ c \in unstored}

(* Only the window with the lock has something to do, ...                  *)
LockInv == \A w \in Windows : (w \in open => lock = w) /\ (todo[w] # <<>> => w \in open)

(* ... it has it in the right order, ...                                   *)
Right(w) ==
    /\ Owed(todo[w], Kept, There)
    /\ Hashed(todo[w], sha[w])
    /\ Opened(todo[w], sha[w], copied)
    /\ Stored(todo[w], sha[w], StoredBy(files))
    /\ Proven(todo[w], sha[w], Assured)
    /\ Filled(todo[w], sha[w], WholeBy(files))
    /\ ReadFirst(todo[w], held[w], {index.now})
    /\ Forgotten(todo[w], stats[w], {"none"})
    /\ ForgetsAfter(todo[w])
TodoInv == \A w \in Windows : Right(w)

(* ... and what was told is so.                                            *)
StoreOf(kind) == CASE kind = "invoice" -> "invoices"
                   [] kind = "completion" -> "completions"
                   [] kind = "document" -> "index"
AnsweredIn(as, safe) == \A a \in as : <<StoreOf(a[1]), a[2]>> \in safe
AuditedIn(lines, safe) ==
    \A k \in 1 .. Len(lines), l \in Stores :
        AuditTells(lines[k][1], l) => <<l, lines[k][2]>> \in safe
LinkedIn(left, safe) ==
    \A e \in left : \A k \in DOMAIN e :
        e[k].invoice # None => <<"invoices", e[k].invoice>> \in safe
ProvenIn(left, proven) == \A e \in left : \A k \in DOMAIN e : e[k].file \in proven
Truth ==
    /\ AnsweredIn(answered, Kept)
    /\ AuditedIn(logs["audit"].lines, Kept)
    /\ LinkedIn(index.left, Kept)
    /\ ProvenIn(index.left, Assured)

IInv == Types /\ LockInv /\ TodoInv /\ Truth

LEMMA InitIInv == Init => IInv
<1> SUFFICES ASSUME Init PROVE IInv
  OBVIOUS
<1>1. <<>> \in Seq(Steps) /\ <<>> \in Seq(Entries) /\ <<>> \in Seq(Lines)
  BY EmptySeq
<1>2. 0 \in Numbers
  BY MaxOpsAssumption DEF Numbers
<1>3. WindowTypes
  BY <1>1 DEF Init, WindowTypes
<1>4. LogTypes
  BY <1>1, EmptySeq DEF Init, LogTypes
<1>5. IndexTypes
  BY <1>1 DEF Init, IndexTypes, Register
<1>6. FileTypes
  BY DEF Init, FileTypes, Register, Contained
<1>7. OtherTypes
  BY <1>2 DEF Init, OtherTypes
<1>8. LockInv
  BY DEF Init, LockInv
<1>9. TodoInv
  BY NothingPrepared, PreparedOwes DEF Init, TodoInv, Right
<1>10. Truth
  <2>1. AnsweredIn(answered, Kept)
    BY DEF Init, AnsweredIn
  <2>2. AuditedIn(logs["audit"].lines, Kept)
    BY EmptySeq DEF Init, AuditedIn, Logs
  <2>3. LinkedIn(index.left, Kept)
    BY DEF Init, LinkedIn, Register
  <2>4. ProvenIn(index.left, Assured)
    BY DEF Init, ProvenIn, Register
  <2>. QED  BY <2>1, <2>2, <2>3, <2>4 DEF Truth
<1>. QED
  BY <1>3, <1>4, <1>5, <1>6, <1>7, <1>8, <1>9, <1>10 DEF IInv, Types

(* A window with nothing to do, or with something that relies on nothing.  *)
LEMMA RightIdle ==
    ASSUME NEW w \in Windows, todo'[w] = <<>>
    PROVE  Right(w)'
BY NothingPrepared, PreparedOwes DEF Right

LEMMA RightBegun ==
    ASSUME NEW w \in Windows, Prepared(todo'[w]), Hashed(todo'[w], sha'[w])
    PROVE  Right(w)'
BY PreparedOwes DEF Right

(* What one step of window w does for the steps after it.                  *)
StoresEffect(a) ==
    /\ Kept \subseteq Kept'
    /\ There \subseteq There'
    /\ \A l \in Stores, n \in Numbers : Puts(a, l, n) => <<l, n>> \in There'
    /\ \A l \in Stores, n \in Numbers :
          Settles(a, l) /\ <<l, n>> \in There =>
             <<l, n>> \in Kept'
FilesEffect(w, a) ==
    /\ a.do = "hash" => sha'[w] \in Contents
    /\ sha[w] \in Contents => sha'[w] \in Contents
    /\ a.do = "copyopens" => sha'[w] \in copied'
    /\ sha[w] \in copied /\ a.do # "hash" => sha'[w] \in copied'
    /\ a.do = "store" => sha'[w] \in StoredBy(files')
    /\ sha[w] \in StoredBy(files) /\ a.do \notin {"hash", "copyopens", "copyfills"} =>
          sha'[w] \in StoredBy(files')
    /\ a.do \in {"copyopens", "syncstore"} => sha'[w] \in Assured'
    /\ sha[w] \in Assured /\ a.do # "hash" => sha'[w] \in Assured'
    /\ a.do \in {"copyfills", "store"} => sha'[w] \in WholeBy(files')
    /\ sha[w] \in WholeBy(files) /\ a.do \notin {"hash", "copyopens"} => sha'[w] \in WholeBy(files')
    /\ Assured \subseteq Assured'
ReadsEffect(w, a) ==
    /\ a.do = "readindex" => held'[w] = index'.now
    /\ held[w] = index.now /\ a.do \notin {"push", "link"} => held'[w] = index'.now
SizeEffect(w, a) ==
    /\ a.do = "invalidate" => stats'[w] = "none"
    /\ stats[w] = "none" => stats'[w] = "none"

LEMMA RightTail ==
    ASSUME NEW w \in Windows, IsTail(todo'[w], todo[w]), Right(w),
           StoresEffect(todo[w][1]), FilesEffect(w, todo[w][1]), ReadsEffect(w, todo[w][1]),
           SizeEffect(w, todo[w][1])
    PROVE  Right(w)'
<1> DEFINE s == todo[w]
           t == todo'[w]
<1>0. IsTail(t, s)
  OBVIOUS
<1>1. Owed(t, Kept', There')
  <2>1. Owed(s, Kept, There)
    BY DEF Right
  <2> HIDE DEF s, t
  <2>2. StoresEffect(s[1])
    BY DEF s
  <2>. QED  BY <1>0, <2>1, <2>2, OwedTail DEF StoresEffect
<1>2. Hashed(t, sha'[w])
  BY BeforeTail DEF Right, Hashed, FilesEffect
<1>3. Opened(t, sha'[w], copied')
  BY BeforeTail DEF Right, Opened, FilesEffect
<1>4. Stored(t, sha'[w], StoredBy(files'))
  BY BeforeTail DEF Right, Stored, FilesEffect
<1>5. Proven(t, sha'[w], Assured')
  BY BeforeTail DEF Right, Proven, FilesEffect
<1>6. Filled(t, sha'[w], WholeBy(files'))
  BY BeforeTail DEF Right, Filled, FilesEffect
<1>7. ReadFirst(t, held'[w], {index'.now})
  BY BeforeTail DEF Right, ReadFirst, ReadsEffect
<1>8. Forgotten(t, stats'[w], {"none"})
  BY BeforeTail DEF Right, Forgotten, SizeEffect
<1>9. ForgetsAfter(t)
  BY ForgetsTail DEF Right
<1>. QED
  BY <1>1, <1>2, <1>3, <1>4, <1>5, <1>6, <1>7, <1>8, <1>9 DEF Right

(***************************************************************************)
(* The step that comes next.                                               *)
(***************************************************************************)
LEMMA OwedFirst ==
    ASSUME NEW s, Len(s) \in Nat, Len(s) >= 1, NEW safe, NEW put, Owed(s, safe, put),
           NEW l \in Stores, NEW n \in Numbers, Tells(s[1], l, n)
    PROVE  <<l, n>> \in safe
<1>1. 1 \in 1 .. Len(s) /\ 1 .. 1 - 1 = {}
  OBVIOUS
<1>. QED  BY <1>1 DEF Owed

LEMMA BeforeFirst ==
    ASSUME NEW s, Len(s) \in Nat, Len(s) >= 1, NEW As, NEW Bs, NEW Xs, NEW c, NEW C,
           Before(s, As, Bs, Xs, c, C), s[1].do \in As
    PROVE  c \in C
<1>1. 1 \in 1 .. Len(s) /\ 1 .. 1 - 1 = {}
  OBVIOUS
<1>. QED  BY <1>1 DEF Before

(* Window w, alone with something to do, does step a next.                 *)
Upcoming(w, a) ==
    /\ w \in open /\ lock = w /\ a \in Steps
    /\ todo[w] # <<>> /\ todo[w][1] = a /\ Current(w) = a
    /\ IsTail(Tail(todo[w]), todo[w])
    /\ \A v \in Windows \ {w} : v \notin open /\ todo[v] = <<>>

LEMMA DoingFirst ==
    ASSUME IInv, NEW w \in Windows, todo[w] # <<>>
    PROVE  Upcoming(w, todo[w][1])
<1>1. todo[w] \in Seq(Steps)
  BY DEF IInv, Types, WindowTypes
<1>2. IsTail(Tail(todo[w]), todo[w]) /\ Current(w) = todo[w][1]
  BY <1>1, Tails DEF Current
<1>3. w \in open /\ lock = w /\ \A v \in Windows \ {w} : v \notin open /\ todo[v] = <<>>
  BY DEF IInv, LockInv
<1>. QED  BY <1>2, <1>3 DEF Upcoming, IsTail

(* What it finds.                                                          *)
Finding(w, a) ==
    /\ \A l \in Stores, n \in Numbers : Tells(a, l, n) => <<l, n>> \in Kept
    /\ a.do \in {"copyopens", "copyfills", "store", "syncstore", "push"} => sha[w] \in Contents
    /\ a.do = "copyfills" => sha[w] \in copied
    /\ a.do = "syncstore" => sha[w] \in StoredBy(files)
    /\ a.do = "push" => sha[w] \in Assured /\ sha[w] \in WholeBy(files)
    /\ a.do \in {"push", "link"} => held[w] = index.now
    /\ a.do \in {"write", "push", "link", "find"} => stats[w] = "none"

LEMMA FindsRight ==
    ASSUME NEW w \in Windows, NEW a, Upcoming(w, a), Right(w)
    PROVE  Finding(w, a)
<1> DEFINE s == todo[w]
<1>1. Len(s) \in Nat /\ Len(s) >= 1 /\ s[1] = a
  BY DEF Upcoming, IsTail
<1>2. Owed(s, Kept, There)
  BY DEF Right
<1>3. Hashed(s, sha[w]) /\ Opened(s, sha[w], copied) /\ Stored(s, sha[w], StoredBy(files))
  BY DEF Right
<1>4. /\ Proven(s, sha[w], Assured) /\ Filled(s, sha[w], WholeBy(files))
      /\ ReadFirst(s, held[w], {index.now}) /\ Forgotten(s, stats[w], {"none"})
  BY DEF Right
<1> HIDE DEF s
<1>5. \A l \in Stores, n \in Numbers : Tells(a, l, n) => <<l, n>> \in Kept
  BY <1>1, <1>2, OwedFirst
<1>6. a.do \in {"copyopens", "copyfills", "store", "syncstore", "push"} => sha[w] \in Contents
  BY <1>1, <1>3, BeforeFirst DEF Hashed
<1>7. a.do = "copyfills" => sha[w] \in copied
  BY <1>1, <1>3, BeforeFirst DEF Opened
<1>8. a.do = "syncstore" => sha[w] \in StoredBy(files)
  BY <1>1, <1>3, BeforeFirst DEF Stored
<1>9. a.do = "push" => sha[w] \in Assured
  BY <1>1, <1>4, BeforeFirst DEF Proven
<1>10. a.do = "push" => sha[w] \in WholeBy(files)
  BY <1>1, <1>4, BeforeFirst DEF Filled
<1>11. a.do \in {"push", "link"} => held[w] = index.now
  <2>1. a.do \in {"push", "link"} => held[w] \in {index.now}
    BY <1>1, <1>4, BeforeFirst DEF ReadFirst
  <2>. QED  BY <2>1
<1>12. a.do \in {"write", "push", "link", "find"} => stats[w] = "none"
  <2>1. a.do \in {"write", "push", "link", "find"} => stats[w] \in {"none"}
    BY <1>1, <1>4, BeforeFirst DEF Forgotten
  <2>. QED  BY <2>1
<1>. QED  BY <1>5, <1>6, <1>7, <1>8, <1>9, <1>10, <1>11, <1>12 DEF Finding

(***************************************************************************)
(* What is left to do after a step.                                        *)
(***************************************************************************)
Ready == todo' \in [Windows -> Seq(Steps)] /\ LockInv' /\ TodoInv'

(* Nobody has anything to do.                                              *)
LEMMA Ended ==
    ASSUME \A v \in Windows : todo'[v] = <<>>, todo' \in [Windows -> Seq(Steps)],
           \A v \in Windows : v \in open' => lock' = v
    PROVE  Ready
<1>1. TodoInv'
  BY RightIdle DEF TodoInv
<1>2. LockInv'
  BY DEF LockInv
<1>. QED  BY <1>1, <1>2 DEF Ready

LEMMA Stopped ==
    ASSUME IInv, NEW w \in Windows, w \in open, todo' = [todo EXCEPT ![w] = <<>>],
           \A v \in Windows : v \in open' => v \in open, lock' = lock \/ w \notin open'
    PROVE  Ready
<1>1. todo \in [Windows -> Seq(Steps)] /\ <<>> \in Seq(Steps)
  BY EmptySeq DEF IInv, Types, WindowTypes
<1>2. lock = w /\ \A v \in Windows \ {w} : v \notin open /\ todo[v] = <<>>
  BY DEF IInv, LockInv
<1>3. \A v \in Windows : todo'[v] = <<>>
  BY <1>1, <1>2
<1>4. todo' \in [Windows -> Seq(Steps)]
  BY <1>1
<1>5. \A v \in Windows : v \in open' => lock' = v
  BY <1>2
<1>. QED  BY <1>3, <1>4, <1>5, Ended

(* Window w begins.                                                        *)
LEMMA Begun ==
    ASSUME IInv, NEW w \in Windows, NEW s, Prepared(s), Hashed(s, sha'[w]),
           todo' = [todo EXCEPT ![w] = s], w \in open', lock' = w,
           \A v \in Windows \ {w} : v \notin open' /\ todo[v] = <<>>
    PROVE  Ready
<1>1. todo \in [Windows -> Seq(Steps)] /\ s \in Seq(Steps)
  BY DEF IInv, Types, WindowTypes, Prepared
<1>2. todo' \in [Windows -> Seq(Steps)]
  BY <1>1
<1>3. todo'[w] = s /\ \A v \in Windows \ {w} : todo'[v] = <<>>
  BY <1>1
<1>4. Right(w)'
  BY <1>3, RightBegun
<1>5. TodoInv'
  BY <1>3, <1>4, RightIdle DEF TodoInv
<1>6. LockInv'
  BY <1>3 DEF LockInv
<1>. QED  BY <1>2, <1>5, <1>6 DEF Ready

(* Window w makes a step.                                                  *)
LEMMA Advanced ==
    ASSUME IInv, NEW w \in Windows, NEW a, Upcoming(w, a), Advance(w), UNCHANGED <<lock, open>>,
           StoresEffect(a), FilesEffect(w, a), ReadsEffect(w, a), SizeEffect(w, a)
    PROVE  Ready
<1>1. todo \in [Windows -> Seq(Steps)] /\ Tail(todo[w]) \in Seq(Steps)
  BY DEF IInv, Types, WindowTypes, Upcoming, IsTail
<1>2. todo' \in [Windows -> Seq(Steps)]
  BY <1>1 DEF Advance
<1>3. todo'[w] = Tail(todo[w]) /\ \A v \in Windows \ {w} : todo'[v] = <<>>
  BY <1>1 DEF Advance, Upcoming
<1>4. Right(w) /\ todo[w][1] = a /\ IsTail(todo'[w], todo[w])
  BY <1>3 DEF IInv, TodoInv, Upcoming
<1>5. Right(w)'
  BY <1>4, RightTail
<1>6. TodoInv'
  BY <1>3, <1>5, RightIdle DEF TodoInv
<1>7. LockInv'
  BY <1>3 DEF LockInv, Upcoming
<1>. QED  BY <1>2, <1>6, <1>7 DEF Ready

(***************************************************************************)
(* Steps that leave a part of the vault alone.                             *)
(***************************************************************************)
LEMMA StoresStay ==
    ASSUME UNCHANGED <<logs, index, lost, unfiled>>
    PROVE  Kept' = Kept /\ There' = There
<1>1. Sure' = Sure
  BY DEF Sure, Safe, Filed, Everywhere, Has
<1>2. There' = There
  BY DEF There, Has
<1>. QED  BY <1>1, <1>2 DEF Kept

LEMMA QuietStores ==
    ASSUME IInv, UNCHANGED <<logs, index, lost, unfiled>>, NEW a,
           a.do \notin {"write", "push", "sync", "syncindex"}
    PROVE  StoresEffect(a)
BY StoresStay DEF StoresEffect, Puts, Settles

LEMMA QuietFiles ==
    ASSUME UNCHANGED <<sha, files, copied, unstored>>, NEW w, NEW a,
           a.do \notin {"hash", "copyopens", "copyfills", "store", "syncstore"}
    PROVE  FilesEffect(w, a)
<1>1. Assured' = Assured
  BY DEF Assured
<1>. QED  BY <1>1 DEF FilesEffect

LEMMA QuietReads ==
    ASSUME UNCHANGED <<held, index>>, NEW w, NEW a, a.do # "readindex"
    PROVE  ReadsEffect(w, a)
BY DEF ReadsEffect

LEMMA QuietSize ==
    ASSUME UNCHANGED stats, NEW w, NEW a, a.do # "invalidate"
    PROVE  SizeEffect(w, a)
BY DEF SizeEffect

LEMMA ChangedSize ==
    ASSUME NEW w \in Windows,
           stats' = [v \in Windows |-> IF stats[v] = "fresh" THEN "stale" ELSE stats[v]],
           NEW a, a.do # "invalidate"
    PROVE  SizeEffect(w, a)
BY DEF SizeEffect

(* What was told stays so.                                                 *)
LEMMA TruthGrows ==
    ASSUME Truth, Kept \subseteq Kept',
           Assured \subseteq Assured'
    PROVE  /\ AnsweredIn(answered, Kept')
           /\ AuditedIn(logs["audit"].lines, Kept')
           /\ LinkedIn(index.left, Kept')
           /\ ProvenIn(index.left, Assured')
<1>1. AnsweredIn(answered, Kept')
  BY DEF Truth, AnsweredIn
<1>2. AuditedIn(logs["audit"].lines, Kept')
  BY DEF Truth, AuditedIn
<1>3. LinkedIn(index.left, Kept')
  BY DEF Truth, LinkedIn
<1>4. ProvenIn(index.left, Assured')
  BY DEF Truth, ProvenIn
<1>. QED  BY <1>1, <1>2, <1>3, <1>4

LEMMA TruthStays ==
    ASSUME Truth, UNCHANGED <<logs, index, answered, lost, unfiled>>,
           Assured \subseteq Assured'
    PROVE  Truth'
<1>1. Kept \subseteq Kept'
  BY StoresStay
<1>. QED  BY <1>1, TruthGrows DEF Truth

(* ... and in particular when nothing is changed.                          *)
LEMMA FilesStay ==
    ASSUME UNCHANGED <<files, copied, unstored>>
    PROVE  Assured \subseteq Assured'
BY DEF Assured

LEMMA TruthQuiet ==
    ASSUME Truth, UNCHANGED <<logs, index, answered, lost, unfiled, files, copied, unstored>>
    PROVE  Truth'
BY FilesStay, TruthStays

(***************************************************************************)
(* The steps of an operation, one by one.                                  *)
(***************************************************************************)
LEMMA Doings ==
    ASSUME IInv, NEW w \in Windows, NEW d, Doing(w, d)
    PROVE  \E a \in Steps : Upcoming(w, a) /\ Finding(w, a) /\ a.do = d /\ Current(w) = a
<1>1. Upcoming(w, todo[w][1])
  BY DoingFirst DEF Doing
<1>2. Finding(w, todo[w][1])
  BY <1>1, FindsRight DEF IInv, TodoInv
<1>3. Current(w) = todo[w][1] /\ todo[w][1] \in Steps /\ todo[w][1].do = d
  BY <1>1 DEF Upcoming, Doing
<1>. QED  BY <1>1, <1>2, <1>3

LEMMA InvalidateKeeps ==
    ASSUME IInv, NEW w \in Windows, Invalidate(w)
    PROVE  IInv'
<1>1. PICK a \in Steps : Upcoming(w, a) /\ a.do = "invalidate"
  BY Doings DEF Invalidate
<1>2. StoresEffect(a)
  BY <1>1, QuietStores DEF Invalidate, folders
<1>3. FilesEffect(w, a)
  BY <1>1, QuietFiles DEF Invalidate, folders
<1>4. ReadsEffect(w, a)
  BY <1>1, QuietReads DEF Invalidate
<1>5. SizeEffect(w, a) /\ stats' \in [Windows -> {"none", "fresh", "stale"}]
  BY DEF Invalidate, SizeEffect, IInv, Types, WindowTypes
<1>6. Ready
  BY <1>1, <1>2, <1>3, <1>4, <1>5, Advanced DEF Invalidate
<1>7. Types'
  BY <1>5, <1>6 DEF Invalidate, Ready, IInv, Types, WindowTypes, LogTypes, IndexTypes, FileTypes,
                    OtherTypes, folders
<1>8. Truth'
  BY TruthQuiet DEF Invalidate, folders, IInv
<1>. QED  BY <1>6, <1>7, <1>8 DEF Ready, IInv

LEMMA FindEntryKeeps ==
    ASSUME IInv, NEW w \in Windows, FindEntry(w)
    PROVE  IInv'
<1>1. PICK a \in Steps : Upcoming(w, a) /\ a.do = "find"
  BY Doings DEF FindEntry
<1>2. UNCHANGED <<lock, open, sha, held, stats, logs, index, files, ops, answered, copied, folders>>
  BY DEF FindEntry
<1>3. Advance(w) \/ todo' = [todo EXCEPT ![w] = <<>>]
  BY DEF FindEntry
<1>4. ASSUME Advance(w) PROVE Ready
  <2>1. StoresEffect(a)
    BY <1>1, <1>2, QuietStores DEF folders
  <2>2. FilesEffect(w, a)
    BY <1>1, <1>2, QuietFiles DEF folders
  <2>3. ReadsEffect(w, a)
    BY <1>1, <1>2, QuietReads
  <2>4. SizeEffect(w, a)
    BY <1>1, <1>2, QuietSize
  <2>. QED  BY <1>1, <1>2, <1>4, <2>1, <2>2, <2>3, <2>4, Advanced
<1>5. ASSUME todo' = [todo EXCEPT ![w] = <<>>] PROVE Ready
  BY <1>1, <1>2, <1>5, Stopped DEF Upcoming
<1>6. Ready
  BY <1>3, <1>4, <1>5
<1>7. Types'
  BY <1>2, <1>6 DEF Ready, IInv, Types, WindowTypes, LogTypes, IndexTypes, FileTypes,
                    OtherTypes, folders
<1>8. Truth'
  BY <1>2, TruthQuiet DEF folders, IInv
<1>. QED  BY <1>6, <1>7, <1>8 DEF Ready, IInv

LEMMA StepFailsKeeps ==
    ASSUME IInv, NEW w \in Windows, StepFails(w)
    PROVE  IInv'
<1>1. PICK d : Doing(w, d)
  BY DEF StepFails
<1>2. PICK a \in Steps : Upcoming(w, a)
  BY <1>1, Doings
<1>3. Ready
  BY <1>2, Stopped DEF StepFails, Upcoming
<1>7. Types'
  BY <1>3 DEF StepFails, Ready, IInv, Types, WindowTypes, LogTypes, IndexTypes, FileTypes,
             OtherTypes, folders
<1>8. Truth'
  BY TruthQuiet DEF StepFails, folders, IInv
<1>. QED  BY <1>3, <1>7, <1>8 DEF Ready, IInv

LEMMA ReturnOkKeeps ==
    ASSUME IInv, NEW w \in Windows, ReturnOk(w)
    PROVE  IInv'
<1>1. PICK a \in Steps : Upcoming(w, a) /\ Finding(w, a) /\ a.do = "answer" /\ Current(w) = a
  BY Doings DEF ReturnOk
<1>2. StoresEffect(a)
  BY <1>1, QuietStores DEF ReturnOk, folders
<1>3. FilesEffect(w, a)
  BY <1>1, QuietFiles DEF ReturnOk, folders
<1>4. ReadsEffect(w, a)
  BY <1>1, QuietReads DEF ReturnOk
<1>5. SizeEffect(w, a)
  BY <1>1, QuietSize DEF ReturnOk
<1>6. Ready
  BY <1>1, <1>2, <1>3, <1>4, <1>5, Advanced DEF ReturnOk
<1>7. a.kind \in Kinds /\ a.n \in Numbers
  BY <1>1, StepFields
<1>8. Types'
  <2>1. answered' \subseteq Answers
    BY <1>1, <1>7 DEF ReturnOk, IInv, Types, OtherTypes, Answers, Kinds
  <2>. QED
    BY <1>6, <2>1 DEF ReturnOk, Ready, IInv, Types, WindowTypes, LogTypes, IndexTypes, FileTypes,
                      OtherTypes, folders
<1>9. Truth'
  <2>1. <<StoreOf(a.kind), a.n>> \in Kept
    <3>1. Tells(a, StoreOf(a.kind), a.n) /\ StoreOf(a.kind) \in Stores
      BY <1>1, <1>7 DEF Tells, AnswerTells, StoreOf, Kinds, Stores, Recorded
    <3>. QED  BY <1>1, <1>7, <3>1 DEF Finding
  <2>2. AnsweredIn(answered', Kept)
    BY <1>1, <2>1 DEF ReturnOk, IInv, Truth, AnsweredIn
  <2>3. UNCHANGED <<logs, index, files, copied, lost, unfiled, unstored>>
    BY DEF ReturnOk, folders
  <2>4. Kept' = Kept /\ Assured' = Assured
    BY <2>3, StoresStay DEF Assured
  <2>. QED  BY <2>2, <2>3, <2>4 DEF IInv, Truth
<1>. QED  BY <1>6, <1>8, <1>9 DEF Ready, IInv

LEMMA ReadIndexKeeps ==
    ASSUME IInv, NEW w \in Windows, ReadIndex(w)
    PROVE  IInv'
<1>1. PICK a \in Steps : Upcoming(w, a) /\ a.do = "readindex"
  BY Doings DEF ReadIndex
<1>2. StoresEffect(a)
  BY <1>1, QuietStores DEF ReadIndex, folders
<1>3. FilesEffect(w, a)
  BY <1>1, QuietFiles DEF ReadIndex, folders
<1>4. ReadsEffect(w, a) /\ held' \in [Windows -> Seq(Entries)]
  BY DEF ReadIndex, ReadsEffect, IInv, Types, WindowTypes, IndexTypes
<1>5. SizeEffect(w, a)
  BY <1>1, QuietSize DEF ReadIndex
<1>6. Ready
  BY <1>1, <1>2, <1>3, <1>4, <1>5, Advanced DEF ReadIndex
<1>7. Types'
  BY <1>4, <1>6 DEF ReadIndex, Ready, IInv, Types, WindowTypes, LogTypes, IndexTypes, FileTypes,
                    OtherTypes, folders
<1>8. Truth'
  BY TruthQuiet DEF ReadIndex, folders, IInv
<1>. QED  BY <1>6, <1>7, <1>8 DEF Ready, IInv

LEMMA HashFileKeeps ==
    ASSUME IInv, NEW w \in Windows, HashFile(w)
    PROVE  IInv'
<1>1. PICK a \in Steps : Upcoming(w, a) /\ a.do = "hash"
  BY Doings DEF HashFile
<1>2. StoresEffect(a)
  BY <1>1, QuietStores DEF HashFile, folders
<1>3. sha'[w] \in Contents /\ sha' \in [Windows -> Contents \union {None}]
  BY DEF HashFile, IInv, Types, WindowTypes, OtherTypes
<1>4. FilesEffect(w, a)
  <2>1. Assured' = Assured /\ UNCHANGED <<files, copied>>
    BY DEF HashFile, folders, Assured
  <2>. QED  BY <1>1, <1>3, <2>1 DEF FilesEffect
<1>5. ReadsEffect(w, a)
  BY <1>1, QuietReads DEF HashFile
<1>6. SizeEffect(w, a)
  BY <1>1, QuietSize DEF HashFile
<1>7. Ready
  BY <1>1, <1>2, <1>4, <1>5, <1>6, Advanced DEF HashFile
<1>8. Types'
  BY <1>3, <1>7 DEF HashFile, Ready, IInv, Types, WindowTypes, LogTypes, IndexTypes, FileTypes,
                    OtherTypes, folders
<1>9. Truth'
  BY TruthQuiet DEF HashFile, folders, IInv
<1>. QED  BY <1>7, <1>8, <1>9 DEF Ready, IInv

(* A step that changes a document.                                         *)
LEMMA FileChangeKeeps ==
    ASSUME IInv, NEW w \in Windows, NEW a \in Steps, Upcoming(w, a), Advance(w),
           a.do \in {"copyopens", "copyfills", "store", "syncstore"}, FilesEffect(w, a), FileTypes',
           SizeEffect(w, a), stats' \in [Windows -> {"none", "fresh", "stale"}],
           UNCHANGED <<lock, open, sha, held, logs, index, ops, answered, named, lost, unfiled>>
    PROVE  IInv'
<1>1. StoresEffect(a)
  BY QuietStores
<1>2. ReadsEffect(w, a)
  BY QuietReads
<1>3. Ready
  BY <1>1, <1>2, Advanced
<1>4. Types'
  BY <1>3 DEF Ready, IInv, Types, WindowTypes, LogTypes, IndexTypes, OtherTypes
<1>5. Truth'
  BY TruthStays DEF FilesEffect, IInv
<1>. QED  BY <1>3, <1>4, <1>5 DEF Ready, IInv

(* The document w has in hand becomes r, and nothing else changes.         *)
Becomes(w, r) ==
    /\ files' = [files EXCEPT ![sha[w]] = r]
    /\ files'[sha[w]] = r
    /\ \A c \in Contents : c # sha[w] => files'[c] = files[c]

LEMMA FileChanges ==
    ASSUME FileTypes, NEW w, sha[w] \in Contents, NEW r, files' = [files EXCEPT ![sha[w]] = r]
    PROVE  Becomes(w, r)
BY DEF FileTypes, Becomes

LEMMA FileTyped ==
    ASSUME FileTypes, NEW w, sha[w] \in Contents, NEW r, Becomes(w, r),
           r \in [now : Contained, left : SUBSET Contained], r.now \in r.left,
           copied' \subseteq Contents, copied \subseteq copied', unstored' \subseteq Contents,
           sha[w] \notin copied' => r.left \subseteq {sha[w], Absent}
    PROVE  FileTypes'
<1>1. files' \in [Contents -> [now : Contained, left : SUBSET Contained]]
  BY DEF FileTypes, Becomes
<1>2. \A c \in Contents : files'[c].now \in files'[c].left
  BY DEF FileTypes, Becomes
<1>3. \A c \in Contents \ copied' : files'[c].left \subseteq {c, Absent}
  BY DEF FileTypes, Becomes
<1>. QED  BY <1>1, <1>2, <1>3 DEF FileTypes

LEMMA CopyOpensKeeps ==
    ASSUME IInv, NEW w \in Windows, CopyOpens(w)
    PROVE  IInv'
<1> DEFINE c == sha[w]
           r == Put(files[c], Partial)
<1>1. PICK a \in Steps : Upcoming(w, a) /\ Finding(w, a) /\ a.do = "copyopens"
  BY Doings DEF CopyOpens
<1>2. c \in Contents
  BY <1>1 DEF Finding
<1>3. FileTypes
  BY DEF IInv, Types
<1>4. Becomes(w, r) /\ copied' = copied \union {c} /\ unstored' = unstored
  BY <1>2, <1>3, FileChanges DEF CopyOpens, folders
<1>5. r \in [now : Contained, left : SUBSET Contained] /\ r.now \in r.left
  BY <1>2, <1>3 DEF FileTypes, Put, Contained
<1>6. FileTypes'
  <2>1. copied' \subseteq Contents /\ unstored' \subseteq Contents
    BY <1>2, <1>3, <1>4 DEF FileTypes
  <2>. QED  BY <1>2, <1>3, <1>4, <1>5, <2>1, FileTyped
<1>7. Assured \subseteq Assured' /\ c \in Assured'
  BY <1>2, <1>4 DEF Assured, Becomes
<1>8. FilesEffect(w, a)
  BY <1>1, <1>2, <1>4, <1>7 DEF FilesEffect, CopyOpens
<1>9. SizeEffect(w, a) /\ stats' \in [Windows -> {"none", "fresh", "stale"}]
  BY <1>1 DEF CopyOpens, Changed, SizeEffect, IInv, Types, WindowTypes
<1>. QED  BY <1>1, <1>6, <1>8, <1>9, FileChangeKeeps DEF CopyOpens, folders

LEMMA CopyFillsKeeps ==
    ASSUME IInv, NEW w \in Windows, CopyFills(w)
    PROVE  IInv'
<1>0. PICK x \in Contents : files' = [files EXCEPT ![sha[w]] = Put(@, x)]
  BY DEF CopyFills
<1> DEFINE c == sha[w]
           r == Put(files[c], x)
<1>1. PICK a \in Steps : Upcoming(w, a) /\ Finding(w, a) /\ a.do = "copyfills"
  BY Doings DEF CopyFills
<1>2. c \in Contents /\ c \in copied 
  BY <1>1 DEF Finding
<1>3. FileTypes
  BY DEF IInv, Types
<1>4. Becomes(w, r) /\ copied' = copied /\ sha' = sha /\ unstored' = unstored
  BY <1>0, <1>2, <1>3, FileChanges DEF CopyFills, folders
<1>5. r \in [now : Contained, left : SUBSET Contained] /\ r.now \in r.left /\ r.now \in Contents
  BY <1>2, <1>3 DEF FileTypes, Put, Contained
<1>6. FileTypes'
  <2>1. copied' \subseteq Contents /\ unstored' \subseteq Contents
    BY <1>3, <1>4 DEF FileTypes
  <2>. QED  BY <1>2, <1>3, <1>4, <1>5, <2>1, FileTyped
<1>7. Assured \subseteq Assured'
  BY <1>2, <1>4 DEF Assured, Becomes
<1>8. c \in WholeBy(files')
  BY <1>2, <1>4, <1>5 DEF WholeBy, Becomes
<1>9. FilesEffect(w, a)
  BY <1>1, <1>2, <1>4, <1>7, <1>8 DEF FilesEffect
<1>10. SizeEffect(w, a) /\ stats' \in [Windows -> {"none", "fresh", "stale"}]
  BY <1>1, QuietSize DEF CopyFills, IInv, Types, WindowTypes
<1>. QED  BY <1>1, <1>6, <1>9, <1>10, FileChangeKeeps DEF CopyFills, folders

LEMMA StoreBytesKeeps ==
    ASSUME IInv, NEW w \in Windows, StoreBytes(w)
    PROVE  IInv'
<1> DEFINE c == sha[w]
           r == Put(files[c], c)
<1>1. PICK a \in Steps : Upcoming(w, a) /\ Finding(w, a) /\ a.do = "store"
  BY Doings DEF StoreBytes
<1>2. c \in Contents
  BY <1>1 DEF Finding
<1>3. FileTypes
  BY DEF IInv, Types
<1>4. Becomes(w, r) /\ copied' = copied /\ sha' = sha /\ unstored' = unstored
  BY <1>2, <1>3, FileChanges DEF StoreBytes, folders
<1>5. /\ r \in [now : Contained, left : SUBSET Contained] /\ r.now \in r.left
      /\ r.now = c /\ r.left = files[c].left \union {c}
  BY <1>2, <1>3 DEF FileTypes, Put, Contained
<1>6. FileTypes'
  <2>1. copied' \subseteq Contents /\ unstored' \subseteq Contents
    BY <1>3, <1>4 DEF FileTypes
  <2>2. c \notin copied' => r.left \subseteq {c, Absent}
    BY <1>2, <1>3, <1>4, <1>5 DEF FileTypes
  <2>. QED  BY <1>2, <1>3, <1>4, <1>5, <2>1, <2>2, FileTyped
<1>7. Assured \subseteq Assured'
  BY <1>2, <1>4, <1>5 DEF Assured, Becomes
<1>8. c \in WholeBy(files') /\ c \in StoredBy(files')
  BY <1>2, <1>4, <1>5 DEF WholeBy, StoredBy, Becomes
<1>9. FilesEffect(w, a)
  BY <1>1, <1>2, <1>4, <1>7, <1>8 DEF FilesEffect
<1>10. SizeEffect(w, a) /\ stats' \in [Windows -> {"none", "fresh", "stale"}]
  BY <1>1 DEF StoreBytes, Changed, SizeEffect, IInv, Types, WindowTypes
<1>. QED  BY <1>1, <1>6, <1>9, <1>10, FileChangeKeeps DEF StoreBytes, folders

LEMMA SyncStoreFailsKeeps ==
    ASSUME IInv, NEW w \in Windows, SyncStoreFails(w)
    PROVE  IInv'
<1>1. PICK a \in Steps : Upcoming(w, a) /\ Finding(w, a) /\ a.do = "syncstore"
  BY Doings DEF SyncStoreFails
<1>2. sha[w] \in Contents /\ sha[w] \in StoredBy(files)
  BY <1>1 DEF Finding
<1>3. UNCHANGED <<files, copied, sha>> /\ unstored \subseteq unstored'
  BY DEF SyncStoreFails
<1>4. unstored' \subseteq Contents
  BY <1>2 DEF SyncStoreFails, IInv, Types, FileTypes
<1>5. FileTypes'
  BY <1>3, <1>4 DEF FileTypes, IInv, Types
<1>6. Assured \subseteq Assured' /\ sha[w] \in Assured'
  BY <1>2, <1>3 DEF SyncStoreFails, Assured
<1>7. FilesEffect(w, a)
  BY <1>1, <1>2, <1>3, <1>6 DEF FilesEffect
<1>8. SizeEffect(w, a) /\ stats' \in [Windows -> {"none", "fresh", "stale"}]
  BY <1>1, QuietSize DEF SyncStoreFails, IInv, Types, WindowTypes
<1>. QED  BY <1>1, <1>5, <1>7, <1>8, FileChangeKeeps DEF SyncStoreFails

(***************************************************************************)
(* Steps that change a log or the index.                                   *)
(***************************************************************************)
LinesKept ==
    \A m \in Logs : /\ logs[m].synced <= logs'[m].synced
                    /\ \A k \in 1 .. logs[m].synced : logs'[m].lines[k] = logs[m].lines[k]
(* No index that could be found has fewer documents.                       *)
AtsKept ==
    \A e \in index'.left : \E d \in index.left :
        \A k \in DOMAIN d : \E j \in DOMAIN e : e[j].at = d[k].at
AllEntered ==
    /\ \A m \in Logs : \A k \in DOMAIN logs[m].lines :
          k \in DOMAIN logs'[m].lines /\ logs'[m].lines[k] = logs[m].lines[k]
    /\ \A k \in DOMAIN index.now : \E j \in DOMAIN index'.now : index'.now[j].at = index.now[k].at

UnfiledKept ==
    \A n \in unfiled :
        Has(index.now, n) =>
            /\ \E j \in DOMAIN index'.now : index'.now[j].at = n
            /\ n \in unfiled' \/ \A e \in index'.left : \E j \in DOMAIN e : e[j].at = n

LEMMA KeptGrows ==
    ASSUME LogTypes, LogTypes', LinesKept, AtsKept, UnfiledKept, lost \subseteq lost'
    PROVE  Kept \subseteq Kept'
<1> SUFFICES ASSUME NEW f \in Kept, f \notin lost PROVE f \in Kept'
  BY DEF Kept
<1>1. f \in Sure /\ f \in Stores \X Numbers
  BY DEF Kept, Sure
<1>2. CASE f[1] = "index" /\ \A e \in index.left : \E k \in DOMAIN e : e[k].at = f[2]
  <2>1. \A e \in index'.left : \E k \in DOMAIN e : e[k].at = f[2]
    <3> TAKE e \in index'.left
    <3>1. PICK d \in index.left : \A k \in DOMAIN d : \E j \in DOMAIN e : e[j].at = d[k].at
      BY DEF AtsKept
    <3>2. PICK k \in DOMAIN d : d[k].at = f[2]
      BY <1>2
    <3>. QED  BY <3>1, <3>2
  <2>. QED  BY <1>1, <1>2, <2>1 DEF Kept, Sure, Filed, Everywhere, Has
<1>3. CASE f[1] = "index" /\ f[2] \in unfiled /\ Has(index.now, f[2])
  <2>1. /\ \E j \in DOMAIN index'.now : index'.now[j].at = f[2]
        /\ f[2] \in unfiled' \/ \A e \in index'.left : \E j \in DOMAIN e : e[j].at = f[2]
    BY <1>3 DEF UnfiledKept
  <2>. QED  BY <1>1, <1>3, <2>1 DEF Kept, Sure, Filed, Everywhere, Has
<1>4. CASE f[1] # "index"
  <2>1. f[1] \in Logs
    BY <1>1, <1>4 DEF Stores, Logs
  <2>2. PICK k \in 1 .. logs[f[1]].synced : logs[f[1]].lines[k][2] = f[2]
    BY <1>1, <1>4 DEF Sure, Safe
  <2>3. /\ logs'[f[1]].lines[k] = logs[f[1]].lines[k]
        /\ logs[f[1]].synced \in Nat /\ logs'[f[1]].synced \in Nat
        /\ logs[f[1]].synced <= logs'[f[1]].synced
    BY <2>1 DEF LinesKept, LogTypes
  <2>4. k \in 1 .. logs'[f[1]].synced
    BY <2>3
  <2>5. \E j \in 1 .. logs'[f[1]].synced : logs'[f[1]].lines[j][2] = f[2]
    BY <2>2, <2>3, <2>4
  <2>. QED  BY <1>1, <1>4, <2>5 DEF Kept, Sure, Safe
<1>. QED  BY <1>1, <1>2, <1>3, <1>4 DEF Sure, Filed, Everywhere, Has

LEMMA ThereGrows ==
    ASSUME AllEntered
    PROVE  There \subseteq There'
<1> SUFFICES ASSUME NEW f \in There PROVE f \in There'
  OBVIOUS
<1>1. f \in Stores \X Numbers
  BY DEF There
<1>2. CASE f[1] = "index"
  <2>1. PICK k \in DOMAIN index.now : index.now[k].at = f[2]
    BY <1>2 DEF There, Has
  <2>2. \E j \in DOMAIN index'.now : index'.now[j].at = f[2]
    BY <2>1 DEF AllEntered
  <2>. QED  BY <1>1, <1>2, <2>2 DEF There, Has
<1>3. CASE f[1] # "index"
  <2>1. f[1] \in Logs
    BY <1>1, <1>3 DEF Stores, Logs
  <2>2. PICK k \in DOMAIN logs[f[1]].lines : logs[f[1]].lines[k][2] = f[2]
    BY <1>3 DEF There
  <2>3. \E j \in DOMAIN logs'[f[1]].lines : logs'[f[1]].lines[j][2] = f[2]
    BY <2>1, <2>2 DEF AllEntered
  <2>. QED  BY <1>1, <1>3, <2>3 DEF There
<1>. QED  BY <1>2, <1>3

LEMMA IndexStays ==
    ASSUME UNCHANGED <<index, unfiled>>
    PROVE  /\ AtsKept /\ UnfiledKept
           /\ \A k \in DOMAIN index.now :
                 \E j \in DOMAIN index'.now : index'.now[j].at = index.now[k].at
BY DEF AtsKept, UnfiledKept, Has

LEMMA LogsStay ==
    ASSUME LogTypes, UNCHANGED logs
    PROVE  /\ LinesKept
           /\ \A m \in Logs : \A k \in DOMAIN logs[m].lines :
                 k \in DOMAIN logs'[m].lines /\ logs'[m].lines[k] = logs[m].lines[k]
BY DEF LinesKept, LogTypes

(* Line x is appended to log l.                                            *)
LineAdded(l, x) ==
    /\ logs' \in [Logs -> [lines : Seq(Lines), synced : Nat]]
    /\ \A m \in Logs \ {l} : logs'[m] = logs[m]
    /\ logs'[l].synced = logs[l].synced /\ Len(logs[l].lines) \in Nat
    /\ Len(logs'[l].lines) = Len(logs[l].lines) + 1
    /\ DOMAIN logs'[l].lines = 1 .. Len(logs[l].lines) + 1
    /\ DOMAIN logs[l].lines = 1 .. Len(logs[l].lines)
    /\ \A k \in 1 .. Len(logs[l].lines) : logs'[l].lines[k] = logs[l].lines[k]
    /\ logs'[l].lines[Len(logs[l].lines) + 1] = x

LEMMA Appended ==
    ASSUME LogTypes, NEW l \in Logs, NEW x \in Lines,
           logs' = [logs EXCEPT ![l].lines = Append(@, x)]
    PROVE  LineAdded(l, x)
<1> DEFINE old == logs[l].lines
           new == Append(old, x)
<1>1. old \in Seq(Lines) /\ logs[l].synced \in Nat
  BY DEF LogTypes
<1>2. /\ new \in Seq(Lines) /\ Len(old) \in Nat /\ Len(new) = Len(old) + 1
      /\ DOMAIN new = 1 .. Len(old) + 1 /\ DOMAIN old = 1 .. Len(old)
      /\ \A k \in 1 .. Len(old) : new[k] = old[k]
      /\ new[Len(old) + 1] = x
  BY <1>1, AppendProperties, LenProperties
<1>3. /\ logs'[l] = [lines |-> new, synced |-> logs[l].synced]
      /\ \A m \in Logs \ {l} : logs'[m] = logs[m]
      /\ DOMAIN logs' = Logs
  BY DEF LogTypes
<1> HIDE DEF new
<1>4. logs'[l] \in [lines : Seq(Lines), synced : Nat]
  BY <1>1, <1>2, <1>3
<1>5. logs' \in [Logs -> [lines : Seq(Lines), synced : Nat]]
  <2>1. \A m \in Logs : logs'[m] \in [lines : Seq(Lines), synced : Nat]
    BY <1>3, <1>4 DEF LogTypes
  <2>2. logs' = [m \in Logs |-> logs'[m]]
    BY DEF LogTypes
  <2>. QED  BY <2>1, <2>2
<1>. QED  BY <1>1, <1>2, <1>3, <1>5 DEF LineAdded

LEMMA WriteLineKeeps ==
    ASSUME IInv, NEW w \in Windows, WriteLine(w)
    PROVE  IInv'
<1>1. PICK a \in Steps : Upcoming(w, a) /\ Finding(w, a) /\ a.do = "write" /\ Current(w) = a
  BY Doings DEF WriteLine
<1> DEFINE l == a.log
           x == a.line
           old == logs[l].lines
<1>2. l \in Logs /\ x \in Lines /\ x[2] \in Numbers
  BY <1>1, StepFields DEF Lines
<1>3. LogTypes
  BY DEF IInv, Types
<1>4. logs' = [logs EXCEPT ![l].lines = Append(@, x)] /\ UNCHANGED <<index, lost, unfiled>>
  BY <1>1 DEF WriteLine, folders
<1> HIDE DEF l, x
<1>5. LineAdded(l, x)
  BY <1>2, <1>3, <1>4, Appended
<1>6. LogTypes'
  <2>1. \A m \in Logs : logs'[m].synced <= Len(logs'[m].lines)
    <3> TAKE m \in Logs
    <3>1. CASE m = l
      BY <1>2, <1>3, <1>5, <3>1 DEF LogTypes, LineAdded
    <3>2. CASE m # l
      BY <1>3, <1>5, <3>2 DEF LogTypes, LineAdded
    <3>. QED  BY <3>1, <3>2
  <2>. QED  BY <1>5, <2>1 DEF LogTypes, LineAdded
<1>7. LinesKept
  <2> SUFFICES ASSUME NEW m \in Logs
               PROVE  /\ logs[m].synced <= logs'[m].synced
                      /\ \A k \in 1 .. logs[m].synced : logs'[m].lines[k] = logs[m].lines[k]
    BY DEF LinesKept
  <2>1. CASE m = l
    <3>1. logs[l].synced \in Nat /\ logs[l].synced <= Len(old)
      BY <1>2, <1>3 DEF LogTypes
    <3>2. \A k \in 1 .. logs[l].synced : k \in 1 .. Len(old)
      BY <1>5, <3>1 DEF LineAdded
    <3>. QED  BY <1>5, <2>1, <3>1, <3>2 DEF LineAdded
  <2>2. CASE m # l
    BY <1>3, <1>5, <2>2 DEF LogTypes, LineAdded
  <2>. QED  BY <2>1, <2>2
<1>8. Kept \subseteq Kept'
  BY <1>3, <1>4, <1>6, <1>7, IndexStays, KeptGrows
<1>9. There \subseteq There'
  <2>1. \A m \in Logs : \A k \in DOMAIN logs[m].lines :
           k \in DOMAIN logs'[m].lines /\ logs'[m].lines[k] = logs[m].lines[k]
    <3> TAKE m \in Logs
    <3> TAKE k \in DOMAIN logs[m].lines
    <3>1. CASE m = l
      BY <1>5, <3>1 DEF LineAdded
    <3>2. CASE m # l
      BY <1>5, <3>2 DEF LineAdded
    <3>. QED  BY <3>1, <3>2
  <2>. QED  BY <1>4, <2>1, IndexStays, ThereGrows DEF AllEntered
<1>10. \A s \in Stores, n \in Numbers : Puts(a, s, n) => <<s, n>> \in There'
  <2> SUFFICES ASSUME NEW s \in Stores, NEW n \in Numbers, Puts(a, s, n)
               PROVE  <<s, n>> \in There'
    OBVIOUS
  <2>1. s = l /\ x[2] = n
    BY <1>1 DEF Puts, l, x
  <2>2. s # "index"
    BY <1>2, <2>1 DEF Logs
  <2>3. \E k \in DOMAIN logs'[s].lines : logs'[s].lines[k][2] = n
    <3>1. Len(old) + 1 \in DOMAIN logs'[l].lines
      BY <1>5 DEF LineAdded
    <3>2. logs'[l].lines[Len(old) + 1][2] = n
      BY <1>5, <2>1 DEF LineAdded
    <3>. QED  BY <2>1, <3>1, <3>2
  <2>. QED  BY <2>2, <2>3 DEF There
<1>11. StoresEffect(a)
  BY <1>1, <1>8, <1>9, <1>10 DEF StoresEffect, Settles
<1>12. FilesEffect(w, a)
  BY <1>1, QuietFiles DEF WriteLine, folders
<1>13. ReadsEffect(w, a)
  BY <1>1, QuietReads DEF WriteLine
<1>14. SizeEffect(w, a) /\ stats' \in [Windows -> {"none", "fresh", "stale"}]
  BY <1>1 DEF WriteLine, Changed, SizeEffect, IInv, Types, WindowTypes
<1>15. Ready
  BY <1>1, <1>11, <1>12, <1>13, <1>14, Advanced DEF WriteLine
<1>16. Types'
  BY <1>6, <1>14, <1>15 DEF WriteLine, Ready, IInv, Types, WindowTypes, IndexTypes, FileTypes,
                            OtherTypes, folders
<1>17. UNCHANGED <<index, files, copied, answered, unstored>>
  BY DEF WriteLine, folders
<1>18. /\ AnsweredIn(answered, Kept')
       /\ AuditedIn(logs["audit"].lines, Kept')
       /\ LinkedIn(index.left, Kept')
       /\ ProvenIn(index.left, Assured')
  <2>1. Assured \subseteq Assured'
    BY <1>17, FilesStay
  <2>. QED  BY <1>8, <2>1, TruthGrows DEF IInv
<1>19. AuditedIn(logs'["audit"].lines, Kept')
  <2> SUFFICES ASSUME NEW k \in 1 .. Len(logs'["audit"].lines), NEW s \in Stores,
                      AuditTells(logs'["audit"].lines[k][1], s)
               PROVE  <<s, logs'["audit"].lines[k][2]>> \in Kept'
    BY DEF AuditedIn
  <2>1. CASE l # "audit"
    <3>1. logs'["audit"] = logs["audit"]
      BY <1>5, <2>1 DEF LineAdded, Logs
    <3>. QED  BY <1>18, <3>1 DEF AuditedIn
  <2>2. CASE l = "audit"
    <3>1. CASE k \in 1 .. Len(old)
      <4>1. logs'["audit"].lines[k] = logs["audit"].lines[k]
        BY <1>5, <2>2, <3>1 DEF LineAdded
      <4>. QED  BY <1>18, <2>2, <3>1, <4>1 DEF AuditedIn
    <3>2. CASE k = Len(old) + 1
      <4>1. logs'["audit"].lines[k] = x
        BY <1>5, <2>2, <3>2 DEF LineAdded
      <4>2. Tells(a, s, x[2])
        BY <1>1, <2>2, <4>1 DEF Tells, l, x
      <4>3. <<s, x[2]>> \in Kept
        BY <1>1, <1>2, <4>2 DEF Finding
      <4>. QED  BY <1>8, <4>1, <4>3
    <3>. QED  BY <1>5, <2>2, <3>1, <3>2 DEF LineAdded
  <2>. QED  BY <2>1, <2>2
<1>20. Truth'
  BY <1>17, <1>18, <1>19 DEF Truth
<1>. QED  BY <1>15, <1>16, <1>20 DEF Ready, IInv

LEMMA SyncLineKeeps ==
    ASSUME IInv, NEW w \in Windows, SyncLine(w)
    PROVE  IInv'
<1>1. PICK a \in Steps : Upcoming(w, a) /\ a.do = "sync" /\ Current(w) = a
  BY Doings DEF SyncLine
<1> DEFINE l == a.log
<1>2. l \in Logs
  BY <1>1, StepFields
<1>3. LogTypes
  BY DEF IInv, Types
<1>4. logs' = [logs EXCEPT ![l].synced = Len(logs[l].lines)] /\ UNCHANGED <<index, lost, unfiled>>
  BY <1>1 DEF SyncLine, folders
<1> HIDE DEF l
<1>5. /\ logs[l].lines \in Seq(Lines) /\ Len(logs[l].lines) \in Nat
      /\ DOMAIN logs[l].lines = 1 .. Len(logs[l].lines)
      /\ logs'[l] = [lines |-> logs[l].lines, synced |-> Len(logs[l].lines)]
      /\ \A m \in Logs \ {l} : logs'[m] = logs[m]
  BY <1>2, <1>3, <1>4, LenProperties DEF LogTypes
<1>6. LogTypes'
  <2>1. \A m \in Logs : /\ logs'[m] \in [lines : Seq(Lines), synced : Nat]
                        /\ logs'[m].synced <= Len(logs'[m].lines)
    BY <1>3, <1>5 DEF LogTypes
  <2>2. logs' = [m \in Logs |-> logs'[m]]
    BY <1>3, <1>4 DEF LogTypes
  <2>. QED  BY <2>1, <2>2 DEF LogTypes
<1>7. LinesKept /\ \A m \in Logs : logs'[m].lines = logs[m].lines
  <2>1. \A m \in Logs : logs'[m].lines = logs[m].lines
    BY <1>5
  <2>2. \A m \in Logs : logs[m].synced <= logs'[m].synced
    <3> TAKE m \in Logs
    <3>1. logs[m].synced \in Nat /\ logs[m].synced <= Len(logs[m].lines)
      BY <1>3 DEF LogTypes
    <3>2. CASE m = l
      BY <1>5, <3>1, <3>2
    <3>3. CASE m # l
      BY <1>5, <3>1, <3>3
    <3>. QED  BY <3>2, <3>3
  <2>. QED  BY <2>1, <2>2 DEF LinesKept
<1>8. Kept \subseteq Kept'
  BY <1>3, <1>4, <1>6, <1>7, IndexStays, KeptGrows
<1>9. There \subseteq There'
  BY <1>4, <1>7, IndexStays, ThereGrows DEF AllEntered
<1>10. \A s \in Stores, n \in Numbers :
          Settles(a, s) /\ <<s, n>> \in There =>
             <<s, n>> \in Kept'
  <2> SUFFICES ASSUME NEW s \in Stores, NEW n \in Numbers, Settles(a, s),
                      <<s, n>> \in There
               PROVE  <<s, n>> \in Kept'
    OBVIOUS
  <2>1. s = l /\ s # "index"
    BY <1>1, <1>2 DEF Settles, l, Logs
  <2>2. \E k \in 1 .. logs'[s].synced : logs'[s].lines[k][2] = n
    BY <1>5, <2>1 DEF There
  <2>. QED  BY <2>1, <2>2 DEF Kept, Sure, Safe
<1>11. StoresEffect(a)
  BY <1>1, <1>8, <1>9, <1>10 DEF StoresEffect, Puts
<1>12. FilesEffect(w, a)
  BY <1>1, QuietFiles DEF SyncLine, folders
<1>13. ReadsEffect(w, a)
  BY <1>1, QuietReads DEF SyncLine
<1>14. SizeEffect(w, a)
  BY <1>1, QuietSize DEF SyncLine
<1>15. Ready
  BY <1>1, <1>11, <1>12, <1>13, <1>14, Advanced DEF SyncLine
<1>16. Types'
  BY <1>6, <1>15 DEF SyncLine, Ready, IInv, Types, WindowTypes, IndexTypes, FileTypes,
                     OtherTypes, folders
<1>17. /\ UNCHANGED <<index, files, copied, answered, unstored>>
       /\ logs'["audit"].lines = logs["audit"].lines
  BY <1>7 DEF SyncLine, Logs, folders
<1>18. Truth'
  <2>1. Assured \subseteq Assured'
    BY <1>17, FilesStay
  <2>2. /\ AnsweredIn(answered, Kept')
        /\ AuditedIn(logs["audit"].lines, Kept')
        /\ LinkedIn(index.left, Kept')
        /\ ProvenIn(index.left, Assured')
    BY <1>8, <2>1, TruthGrows DEF IInv
  <2>. QED  BY <1>17, <2>2 DEF Truth
<1>. QED  BY <1>15, <1>16, <1>18 DEF Ready, IInv

LEMMA ReplacedKeeps ==
    ASSUME IInv, NEW w \in Windows, NEW a \in Steps, Upcoming(w, a), a.do \in {"push", "link"},
           Advance(w), NEW i \in Seq(Entries), index' = Put(index, i), Changed,
           UNCHANGED <<lock, open, sha, held, logs, files, ops, answered, copied, folders>>,
           \A k \in DOMAIN index.now : \E j \in DOMAIN i : i[j].at = index.now[k].at,
           a.do = "push" => \E j \in DOMAIN i : i[j].at = a.at,
           \A k \in DOMAIN i :
              i[k].invoice # None => <<"invoices", i[k].invoice>> \in Kept,
           \A k \in DOMAIN i : i[k].file \in Assured
    PROVE  IInv'
<1>1. LogTypes /\ IndexTypes
  BY DEF IInv, Types
<1>2. index'.now = i /\ index'.left = index.left \union {i} /\ IndexTypes' /\ UnfiledKept
  <2>1. index'.now = i /\ index'.left = index.left \union {i}
    BY DEF Put
  <2>2. index' \in [now : Seq(Entries), left : SUBSET Seq(Entries)] /\ unfiled' = unfiled
    BY <1>1 DEF Put, IndexTypes, folders
  <2>3. \A n \in unfiled : \E j \in DOMAIN i : i[j].at = n
    BY <1>1 DEF IndexTypes, Has
  <2>. QED  BY <1>1, <2>1, <2>2, <2>3 DEF IndexTypes, Has, UnfiledKept
<1>3. LogTypes'
  BY <1>1 DEF LogTypes
<1>4. AtsKept
  <2> SUFFICES ASSUME NEW e \in index'.left
               PROVE  \E d \in index.left :
                         \A k \in DOMAIN d : \E j \in DOMAIN e : e[j].at = d[k].at
    BY DEF AtsKept
  <2>1. CASE e = i
    BY <1>1, <2>1 DEF IndexTypes
  <2>2. CASE e \in index.left
    BY <2>2
  <2>. QED  BY <1>2, <2>1, <2>2
<1>5. Kept \subseteq Kept'
  BY <1>1, <1>2, <1>3, <1>4, LogsStay, KeptGrows DEF folders
<1>6. There \subseteq There'
  <2>1. AllEntered
    BY <1>1, <1>2, LogsStay DEF AllEntered
  <2>. QED  BY <2>1, ThereGrows
<1>7. \A s \in Stores, n \in Numbers : Puts(a, s, n) => <<s, n>> \in There'
  BY <1>2 DEF Puts, There, Has
<1>8. StoresEffect(a)
  BY <1>5, <1>6, <1>7 DEF StoresEffect, Settles
<1>9. FilesEffect(w, a)
  BY QuietFiles DEF folders
<1>10. ReadsEffect(w, a)
  BY DEF ReadsEffect
<1>11. SizeEffect(w, a) /\ stats' \in [Windows -> {"none", "fresh", "stale"}]
  BY DEF Changed, SizeEffect, IInv, Types, WindowTypes
<1>12. Ready
  BY <1>8, <1>9, <1>10, <1>11, Advanced
<1>13. Types'
  BY <1>2, <1>3, <1>11, <1>12 DEF Ready, IInv, Types, WindowTypes, FileTypes, OtherTypes, folders
<1>14. Truth'
  <2>0. Assured' = Assured
    BY DEF Assured, folders
  <2>1. /\ AnsweredIn(answered, Kept')
        /\ AuditedIn(logs["audit"].lines, Kept')
        /\ LinkedIn(index.left, Kept')
        /\ ProvenIn(index.left, Assured')
    BY <1>5, <2>0, TruthGrows DEF IInv
  <2>2. LinkedIn(index'.left, Kept')
    BY <1>2, <1>5, <2>1 DEF LinkedIn
  <2>3. ProvenIn(index'.left, Assured')
    BY <1>2, <2>0, <2>1 DEF ProvenIn
  <2>. QED  BY <2>1, <2>2, <2>3 DEF Truth
<1>. QED  BY <1>12, <1>13, <1>14 DEF Ready, IInv

LEMMA PushEntryKeeps ==
    ASSUME IInv, NEW w \in Windows, PushEntry(w)
    PROVE  IInv'
<1>1. PICK a \in Steps : Upcoming(w, a) /\ Finding(w, a) /\ a.do = "push" /\ Current(w) = a
  BY Doings DEF PushEntry
<1> DEFINE h == held[w]
           x == [file |-> sha[w], at |-> a.at, invoice |-> None]
           i == Append(h, x)
<1>2. h = index.now /\ h \in Seq(Entries) /\ index.now \in index.left
  BY <1>1 DEF Finding, IInv, Types, WindowTypes, IndexTypes
<1>3. x \in Entries /\ x.at = a.at /\ x.invoice = None /\ x.file = sha[w]
  BY <1>1, StepFields DEF Finding, Entries
<1>4. /\ Advance(w) /\ index' = Put(index, i) /\ Changed
      /\ UNCHANGED <<lock, open, sha, held, logs, files, ops, answered, copied, folders>>
  BY <1>1 DEF PushEntry, Replaced
<1> HIDE DEF h, x
<1>5. /\ i \in Seq(Entries) /\ Len(h) \in Nat /\ DOMAIN h = 1 .. Len(h)
      /\ DOMAIN i = 1 .. Len(h) + 1
      /\ \A k \in 1 .. Len(h) : i[k] = h[k]
      /\ i[Len(h) + 1] = x
  BY <1>2, <1>3, AppendProperties, LenProperties
<1> HIDE DEF i
<1>6. \A k \in DOMAIN i : (k \in DOMAIN h /\ i[k] = h[k]) \/ i[k] = x
  BY <1>5
<1>7. \A k \in DOMAIN index.now : \E j \in DOMAIN i : i[j].at = index.now[k].at
  BY <1>2, <1>5
<1>8. \E j \in DOMAIN i : i[j].at = a.at
  <2>1. Len(h) + 1 \in DOMAIN i
    BY <1>5
  <2>. QED  BY <1>3, <1>5, <2>1
<1>9. \A k \in DOMAIN i :
         i[k].invoice # None => <<"invoices", i[k].invoice>> \in Kept
  BY <1>2, <1>3, <1>6 DEF IInv, Truth, LinkedIn
<1>10. \A k \in DOMAIN i : i[k].file \in Assured
  BY <1>1, <1>2, <1>3, <1>6 DEF IInv, Truth, ProvenIn, Finding
<1>. QED  BY <1>1, <1>4, <1>5, <1>7, <1>8, <1>9, <1>10, ReplacedKeeps

(* An entry is linked, and everything else of the index stays.             *)
LinkedAt(h, i, n) ==
    /\ i \in Seq(Entries) /\ DOMAIN i = DOMAIN h
    /\ \A k \in DOMAIN h : /\ i[k].at = h[k].at /\ i[k].file = h[k].file
                           /\ i[k].invoice \in {h[k].invoice, n}

LEMMA Relinked ==
    ASSUME NEW h \in Seq(Entries), NEW k, NEW n \in Numbers
    PROVE  LinkedAt(h, [h EXCEPT ![k].invoice = n], n)
<1> DEFINE i == [h EXCEPT ![k].invoice = n]
<1>1. PICK m \in Nat : h \in [1 .. m -> Entries]
  BY SeqDef
<1>2. DOMAIN i = 1 .. m /\ DOMAIN h = 1 .. m /\ i = [j \in 1 .. m |-> i[j]]
  BY <1>1
<1>3. ASSUME NEW j \in 1 .. m
      PROVE  /\ i[j] \in Entries /\ i[j].at = h[j].at /\ i[j].file = h[j].file
             /\ i[j].invoice \in {h[j].invoice, n}
  <2>1. h[j] \in Entries
    BY <1>1
  <2>2. CASE j = k
    <3>1. i[j] = [h[j] EXCEPT !.invoice = n]
      BY <1>1, <2>2
    <3>. QED  BY <2>1, <3>1 DEF Entries
  <2>3. CASE j # k
    <3>1. i[j] = h[j]
      BY <1>1, <2>3
    <3>. QED  BY <2>1, <3>1
  <2>. QED  BY <2>2, <2>3
<1> HIDE DEF i
<1>4. i \in [1 .. m -> Entries]
  BY <1>2, <1>3
<1>5. i \in Seq(Entries)
  BY <1>4, SeqDef
<1>6. LinkedAt(h, i, n)
  BY <1>2, <1>3, <1>5 DEF LinkedAt
<1>. QED  BY <1>6 DEF i

LEMMA LinkEntryKeeps ==
    ASSUME IInv, NEW w \in Windows, LinkEntry(w)
    PROVE  IInv'
<1>1. PICK a \in Steps : Upcoming(w, a) /\ Finding(w, a) /\ a.do = "link" /\ Current(w) = a
  BY Doings DEF LinkEntry
<1> DEFINE h == held[w]
           p == Min(Places(held[w], Current(w).file))
           n == a.invoice
           i == [h EXCEPT ![p].invoice = n]
<1>2. h = index.now /\ h \in Seq(Entries) /\ index.now \in index.left
  BY <1>1 DEF Finding, IInv, Types, WindowTypes, IndexTypes
<1>3. n \in Numbers /\ Tells(a, "invoices", n)
  BY <1>1, StepFields DEF Tells
<1>4. /\ Advance(w) /\ index' = Put(index, i) /\ Changed
      /\ UNCHANGED <<lock, open, sha, held, logs, files, ops, answered, copied, folders>>
  BY <1>1 DEF LinkEntry, Replaced
<1>5. <<"invoices", n>> \in Kept
  BY <1>1, <1>3 DEF Finding, Stores, Recorded
<1> HIDE DEF h, p, n
<1>6. LinkedAt(h, i, n)
  BY <1>2, <1>3, Relinked
<1> HIDE DEF i
<1>7. \A k \in DOMAIN index.now : \E j \in DOMAIN i : i[j].at = index.now[k].at
  BY <1>2, <1>6 DEF LinkedAt
<1>8. \A k \in DOMAIN i :
         i[k].invoice # None => <<"invoices", i[k].invoice>> \in Kept
  BY <1>2, <1>5, <1>6 DEF IInv, Truth, LinkedIn, LinkedAt
<1>9. \A k \in DOMAIN i : i[k].file \in Assured
  BY <1>2, <1>6 DEF IInv, Truth, ProvenIn, LinkedAt
<1>10. i \in Seq(Entries)
  BY <1>6 DEF LinkedAt
<1>. QED  BY <1>1, <1>4, <1>7, <1>8, <1>9, <1>10, ReplacedKeeps

(* documents/ is synced, and with it the index and what was stored.        *)
LEMMA FolderSettles ==
    ASSUME IInv, NEW R, R \subseteq StoredBy(files), SyncFolder(R),
           UNCHANGED <<logs, copied, answered>>
    PROVE  /\ index'.now = index.now /\ index'.left = {index.now}
           /\ IndexTypes' /\ FileTypes' /\ LogTypes'
           /\ Kept \subseteq Kept' /\ There \subseteq There'
           /\ \A n \in Numbers : <<"index", n>> \in There => <<"index", n>> \in Kept'
           /\ Assured \subseteq Assured' /\ R \subseteq Assured'
           /\ \A c \in Contents : files'[c].now = files[c].now
           /\ Truth'
<1>1. LogTypes /\ IndexTypes /\ FileTypes
  BY DEF IInv, Types
<1>2. index' = [now |-> index.now, left |-> {index.now}] /\ unfiled' = {} /\ lost' = lost
  BY DEF SyncFolder, Settle, Register
<1>3. index'.now = index.now /\ index'.left = {index.now} /\ index.now \in index.left
  BY <1>1, <1>2 DEF IndexTypes
<1>4. IndexTypes'
  BY <1>1, <1>2, <1>3 DEF IndexTypes
<1>5. LogTypes'
  BY <1>1 DEF LogTypes
<1>6. AtsKept /\ UnfiledKept
  BY <1>1, <1>3 DEF AtsKept, UnfiledKept, Has
<1>7. Kept \subseteq Kept'
  BY <1>1, <1>2, <1>5, <1>6, LogsStay, KeptGrows
<1>8. There \subseteq There'
  <2>1. AllEntered
    BY <1>1, <1>3, LogsStay DEF AllEntered
  <2>. QED  BY <2>1, ThereGrows
<1>9. \A n \in Numbers : <<"index", n>> \in There => <<"index", n>> \in Kept'
  BY <1>3 DEF There, Kept, Sure, Filed, Everywhere, Has, Stores
<1>10. ASSUME NEW c \in Contents
       PROVE  /\ files'[c] \in [now : Contained, left : SUBSET Contained]
              /\ files'[c].now = files[c].now /\ files'[c].now \in files'[c].left
              /\ files'[c].left \subseteq files[c].left
              /\ c \notin copied \ R => files'[c].left = {files[c].now}
  <2>1. files'[c] = IF c \in copied \ R THEN NameSettled(files[c]) ELSE Settle(files[c])
    BY DEF SyncFolder
  <2>2. files[c] \in [now : Contained, left : SUBSET Contained] /\ files[c].now \in files[c].left
    BY <1>1 DEF FileTypes
  <2>3. CASE c \in copied \ R
    <3>1. files'[c] = [files[c] EXCEPT !.left = IF files[c].now = Absent THEN files[c].left
                                                ELSE files[c].left \ {Absent}]
      BY <2>1, <2>3 DEF NameSettled
    <3>. QED  BY <2>2, <2>3, <3>1
  <2>4. CASE c \notin copied \ R
    <3>1. files'[c] = [now |-> files[c].now, left |-> {files[c].now}]
      BY <2>1, <2>4 DEF Settle, Register
    <3>. QED  BY <2>2, <2>4, <3>1
  <2>. QED  BY <2>3, <2>4
<1>11. FileTypes'
  <2>1. files' = [c \in Contents |-> files'[c]]
    BY DEF SyncFolder
  <2>2. files' \in [Contents -> [now : Contained, left : SUBSET Contained]]
    BY <1>10, <2>1
  <2>3. \A c \in Contents : files'[c].now \in files'[c].left
    BY <1>10
  <2>4. copied' \subseteq Contents /\ unstored' \subseteq Contents
    BY <1>1 DEF FileTypes, SyncFolder
  <2>5. \A c \in Contents \ copied' : files'[c].left \subseteq {c, Absent}
    BY <1>1, <1>10 DEF FileTypes
  <2>. QED  BY <2>2, <2>3, <2>4, <2>5 DEF FileTypes
<1>12. R \subseteq Assured'
  BY <1>10 DEF StoredBy, Assured
<1>13. Assured \subseteq Assured'
  <2> SUFFICES ASSUME NEW c \in Contents, c \in Assured, c \notin copied PROVE c \in Assured'
    BY DEF Assured
  <2>1. files'[c].left = {files[c].now} /\ files[c].now \in files[c].left
    BY <1>1, <1>10 DEF FileTypes
  <2>2. CASE files[c].left = {c}
    BY <2>1, <2>2 DEF Assured
  <2>3. CASE c \in unstored /\ files[c].now = c
    BY <2>1, <2>3 DEF Assured
  <2>4. CASE c \in unstored /\ files[c].now # c
    BY <2>4 DEF Assured, SyncFolder
  <2>. QED  BY <2>2, <2>3, <2>4 DEF Assured
<1>14. Truth'
  <2>1. /\ AnsweredIn(answered, Kept') /\ AuditedIn(logs["audit"].lines, Kept')
        /\ LinkedIn(index.left, Kept') /\ ProvenIn(index.left, Assured')
    BY <1>7, <1>13, TruthGrows DEF IInv
  <2>2. \A e \in index'.left : e \in index.left
    BY <1>3
  <2>3. LinkedIn(index'.left, Kept')
    BY <2>1, <2>2 DEF LinkedIn
  <2>4. ProvenIn(index'.left, Assured')
    BY <2>1, <2>2 DEF ProvenIn
  <2>. QED  BY <2>1, <2>3, <2>4 DEF Truth
<1>. QED
  BY <1>3, <1>4, <1>5, <1>7, <1>8, <1>9, <1>10, <1>11, <1>12, <1>13, <1>14

LEMMA FolderSyncKeeps ==
    ASSUME IInv, NEW w \in Windows, NEW a \in Steps, Upcoming(w, a), Finding(w, a), Advance(w),
           NEW R, SyncFolder(R),
           \/ a.do = "syncindex" /\ R = {}
           \/ a.do = "syncstore" /\ R = {sha[w]},
           UNCHANGED <<lock, open, sha, held, stats, logs, ops, answered, copied>>
    PROVE  IInv'
<1>1. R \subseteq StoredBy(files)
  BY DEF Finding
<1>2. /\ index'.now = index.now /\ index'.left = {index.now}
      /\ IndexTypes' /\ FileTypes' /\ LogTypes'
      /\ Kept \subseteq Kept' /\ There \subseteq There'
      /\ \A n \in Numbers : <<"index", n>> \in There => <<"index", n>> \in Kept'
      /\ Assured \subseteq Assured' /\ R \subseteq Assured'
      /\ \A c \in Contents : files'[c].now = files[c].now
      /\ Truth'
  BY <1>1, FolderSettles
<1>3. StoresEffect(a)
  BY <1>2 DEF StoresEffect, Puts, Settles
<1>4. StoredBy(files') = StoredBy(files) /\ WholeBy(files') = WholeBy(files)
  BY <1>2 DEF StoredBy, WholeBy
<1>5. FilesEffect(w, a)
  BY <1>2, <1>4 DEF FilesEffect
<1>6. ReadsEffect(w, a)
  BY <1>2 DEF ReadsEffect
<1>7. SizeEffect(w, a)
  BY QuietSize
<1>8. Ready
  BY <1>3, <1>5, <1>6, <1>7, Advanced
<1>9. UNCHANGED <<named, lost>>
  BY DEF SyncFolder
<1>10. Types'
  BY <1>2, <1>8, <1>9 DEF Ready, IInv, Types, WindowTypes, OtherTypes
<1>. QED  BY <1>2, <1>8, <1>10 DEF Ready, IInv

LEMMA SyncStoreKeeps ==
    ASSUME IInv, NEW w \in Windows, SyncStore(w)
    PROVE  IInv'
<1>1. PICK a \in Steps : Upcoming(w, a) /\ Finding(w, a) /\ a.do = "syncstore"
  BY Doings DEF SyncStore
<1>. QED  BY <1>1, FolderSyncKeeps DEF SyncStore

LEMMA SyncIndexKeeps ==
    ASSUME IInv, NEW w \in Windows, SyncIndex(w)
    PROVE  IInv'
<1>1. PICK a \in Steps : Upcoming(w, a) /\ Finding(w, a) /\ a.do = "syncindex"
  BY Doings DEF SyncIndex
<1>. QED  BY <1>1, FolderSyncKeeps DEF SyncIndex

(* The folder is not synced: the entries it holds back are noted.          *)
LEMMA SyncIndexFailsKeeps ==
    ASSUME IInv, NEW w \in Windows, SyncIndexFails(w)
    PROVE  IInv'
<1>1. PICK a \in Steps : Upcoming(w, a) /\ a.do = "syncindex"
  BY Doings DEF SyncIndexFails
<1>2. LogTypes /\ IndexTypes
  BY DEF IInv, Types
<1>3. /\ UNCHANGED <<lock, open, sha, held, stats, logs, index, files, ops, answered, copied>>
      /\ UNCHANGED <<named, lost, unstored>>
      /\ unfiled' = unfiled \union {n \in Numbers : Has(index.now, n) /\ ~Filed(n)}
  BY DEF SyncIndexFails
<1>4. IndexTypes'
  BY <1>2, <1>3 DEF IndexTypes, Has
<1>5. LogTypes'
  BY <1>2, <1>3 DEF LogTypes
<1>6. AtsKept /\ UnfiledKept
  BY <1>3 DEF AtsKept, UnfiledKept, Has
<1>7. Kept \subseteq Kept'
  BY <1>2, <1>3, <1>5, <1>6, LogsStay, KeptGrows
<1>8. There' = There
  BY <1>3 DEF There, Has
<1>9. \A n \in Numbers : <<"index", n>> \in There => <<"index", n>> \in Kept'
  <2> SUFFICES ASSUME NEW n \in Numbers, Has(index.now, n) PROVE <<"index", n>> \in Kept'
    BY DEF There
  <2>1. CASE Filed(n)
    BY <1>3, <2>1 DEF Kept, Sure, Filed, Everywhere, Has, Stores
  <2>2. CASE ~Filed(n)
    <3>1. n \in unfiled' /\ Has(index'.now, n)
      BY <1>3, <2>2
    <3>. QED  BY <3>1 DEF Kept, Sure, Stores
  <2>. QED  BY <2>1, <2>2
<1>10. StoresEffect(a)
  BY <1>1, <1>7, <1>8, <1>9 DEF StoresEffect, Puts, Settles
<1>11. FilesEffect(w, a)
  BY <1>1, <1>3, QuietFiles
<1>12. ReadsEffect(w, a)
  BY <1>1, <1>3, QuietReads
<1>13. SizeEffect(w, a)
  BY <1>1, <1>3, QuietSize
<1>14. Ready
  BY <1>1, <1>3, <1>10, <1>11, <1>12, <1>13, Advanced DEF SyncIndexFails
<1>15. Types'
  BY <1>3, <1>4, <1>5, <1>14 DEF Ready, IInv, Types, WindowTypes, FileTypes, OtherTypes
<1>16. Truth'
  <2>1. Assured \subseteq Assured'
    BY <1>3, FilesStay
  <2>. QED  BY <1>3, <1>7, <2>1, TruthGrows DEF IInv, Truth
<1>. QED  BY <1>14, <1>15, <1>16 DEF Ready, IInv

(***************************************************************************)
(* The windows and the environment.                                        *)
(***************************************************************************)
LEMMA OpenKeeps ==
    ASSUME IInv, NEW w \in Windows, Open(w)
    PROVE  IInv'
<1> DEFINE s == AppendAudit("vault.opened", ops + 1)
<1>1. ops + 1 \in Numbers
  BY MaxOpsAssumption DEF Open, IInv, Types, OtherTypes, Numbers
<1>2. Prepared(s) /\ \A c : Hashed(s, c)
  BY <1>1, OpeningPrepared
<1>3. \A v \in Windows : v \notin open /\ todo[v] = <<>>
  BY NoneAssumption DEF Open, IInv, LockInv
<1>4. /\ todo' = [todo EXCEPT ![w] = s] /\ w \in open' /\ lock' = w
      /\ open' = open \union {w} /\ ops' = ops + 1
      /\ UNCHANGED <<sha, held, stats, logs, index, files, answered, copied, folders>>
  BY DEF Open
<1> HIDE DEF s
<1>5. \A v \in Windows \ {w} : v \notin open' /\ todo[v] = <<>>
  BY <1>3, <1>4
<1>6. Ready
  BY <1>2, <1>4, <1>5, Begun
<1>7. Types'
  BY <1>1, <1>4, <1>6 DEF Ready, IInv, Types, WindowTypes, LogTypes, IndexTypes, FileTypes,
                          OtherTypes, folders
<1>8. Truth'
  BY <1>4, TruthQuiet DEF folders, IInv
<1>. QED  BY <1>6, <1>7, <1>8 DEF Ready, IInv

LEMMA GoneKeeps ==
    ASSUME IInv, NEW w \in Windows, w \in open, Gone(w),
           UNCHANGED <<logs, index, files, ops, answered, copied, folders>>
    PROVE  IInv'
<1>1. lock = w
  BY DEF IInv, LockInv
<1>2. /\ todo' = [todo EXCEPT ![w] = <<>>] /\ w \notin open'
      /\ lock' = None /\ open' = open \ {w}
      /\ stats' = [stats EXCEPT ![w] = "none"]
      /\ sha' = [sha EXCEPT ![w] = None] /\ held' = [held EXCEPT ![w] = <<>>]
  BY <1>1 DEF Gone
<1>3. Ready
  BY <1>2, Stopped
<1>4. WindowTypes'
  <2>1. <<>> \in Seq(Entries)
    BY EmptySeq
  <2>2. lock' \in Windows \union {None} /\ open' \subseteq Windows
    BY <1>2 DEF IInv, Types, WindowTypes
  <2>3. sha' \in [Windows -> Contents \union {None}]
    BY <1>2 DEF IInv, Types, WindowTypes
  <2>4. held' \in [Windows -> Seq(Entries)]
    BY <1>2, <2>1 DEF IInv, Types, WindowTypes
  <2>5. stats' \in [Windows -> {"none", "fresh", "stale"}]
    BY <1>2 DEF IInv, Types, WindowTypes
  <2>. QED  BY <1>3, <2>2, <2>3, <2>4, <2>5 DEF Ready, WindowTypes
<1>5. Types'
  BY <1>4 DEF IInv, Types, LogTypes, IndexTypes, FileTypes, OtherTypes, folders
<1>6. Truth'
  BY TruthQuiet DEF folders, IInv
<1>. QED  BY <1>3, <1>5, <1>6 DEF Ready, IInv

LEMMA BeginKeeps ==
    ASSUME IInv, NEW w \in Windows, NEW s, Begin(w, s), Prepared(s), Hashed(s, sha'[w]),
           sha' \in [Windows -> Contents \union {None}]
    PROVE  IInv'
<1>1. ops + 1 \in Numbers
  BY MaxOpsAssumption DEF Begin, IInv, Types, OtherTypes, Numbers
<1>2. /\ todo' = [todo EXCEPT ![w] = s] /\ w \in open /\ ops' = ops + 1
      /\ UNCHANGED <<lock, open, held, stats, logs, index, files, answered, copied, folders>>
  BY DEF Begin, Idle
<1>3. w \in open' /\ lock' = w /\ \A v \in Windows \ {w} : v \notin open' /\ todo[v] = <<>>
  BY <1>2 DEF IInv, LockInv
<1>4. Ready
  BY <1>2, <1>3, Begun
<1>5. Types'
  BY <1>1, <1>2, <1>4 DEF Ready, IInv, Types, WindowTypes, LogTypes, IndexTypes, FileTypes,
                          OtherTypes, folders
<1>6. Truth'
  BY <1>2, TruthQuiet DEF folders, IInv
<1>. QED  BY <1>4, <1>5, <1>6 DEF Ready, IInv

LEMMA NextNumber ==
    ASSUME IInv, NEW w, NEW s, Begin(w, s)
    PROVE  ops + 1 \in Numbers
BY MaxOpsAssumption DEF Begin, IInv, Types, OtherTypes, Numbers

LEMMA ArchiveKeeps ==
    ASSUME IInv, NEW w \in Windows, Archive(w)
    PROVE  IInv'
<1> DEFINE s == AddDocument(ops + 1)
<1>1. Begin(w, s) /\ sha' = sha
  BY DEF Archive
<1>2. ops + 1 \in Numbers
  BY <1>1, NextNumber
<1>3. Prepared(s) /\ \A c : Hashed(s, c)
  <2>1. IsAdding(s, ops + 1)
    BY <1>2, AddingSteps
  <2> HIDE DEF s
  <2>. QED  BY <1>2, <2>1, AddingPrepared
<1>4. sha' \in [Windows -> Contents \union {None}]
  BY <1>1 DEF IInv, Types, WindowTypes
<1> HIDE DEF s
<1>. QED  BY <1>1, <1>3, <1>4, BeginKeeps

LEMMA ArchiveBytesKeeps ==
    ASSUME IInv, NEW w \in Windows, ArchiveBytes(w)
    PROVE  IInv'
<1> DEFINE s == AddDocumentBytes(ops + 1)
<1>1. Begin(w, s)
  BY DEF ArchiveBytes
<1>2. ops + 1 \in Numbers
  BY <1>1, NextNumber
<1>3. PICK c \in Contents : sha' = [sha EXCEPT ![w] = c]
  BY DEF ArchiveBytes
<1>4. sha'[w] \in Contents /\ sha' \in [Windows -> Contents \union {None}]
  BY <1>3 DEF IInv, Types, WindowTypes
<1>5. Prepared(s) /\ \A d \in Contents : Hashed(s, d)
  <2>1. IsStoring(s, ops + 1)
    BY <1>2, StoringSteps
  <2> HIDE DEF s
  <2>. QED  BY <1>2, <2>1, StoringPrepared
<1> HIDE DEF s
<1>. QED  BY <1>1, <1>4, <1>5, BeginKeeps

LEMMA RecordReceiptKeeps ==
    ASSUME IInv, NEW w \in Windows, RecordReceipt(w)
    PROVE  IInv'
<1>1. PICK c \in {index.now[i].file : i \in DOMAIN index.now} \union {None} :
         Begin(w, SaveReceipt(c, ops + 1))
  BY DEF RecordReceipt
<1>2. ops + 1 \in Numbers
  BY <1>1, NextNumber
<1>3. c \in Contents \union {None}
  <2>1. \A k \in DOMAIN index.now : index.now[k] \in Entries
    BY ElementOfSeq, LenProperties DEF IInv, Types, IndexTypes
  <2>2. \A e \in Entries : e.file \in Contents
    BY DEF Entries
  <2>. QED  BY <2>1, <2>2
<1> DEFINE s == SaveReceipt(c, ops + 1)
<1>4. Prepared(s) /\ \A d : Hashed(s, d)
  <2>1. IsReceipt(s, ops + 1)
    BY <1>2, <1>3, ReceiptSteps
  <2> HIDE DEF s
  <2>. QED  BY <1>2, <2>1, ReceiptPrepared
<1>5. Begin(w, s)
  BY <1>1
<1>6. sha' \in [Windows -> Contents \union {None}]
  BY DEF RecordReceipt, IInv, Types, WindowTypes
<1> HIDE DEF s
<1>. QED  BY <1>4, <1>5, <1>6, BeginKeeps

LEMMA CompleteKeeps ==
    ASSUME IInv, NEW w \in Windows, Complete(w)
    PROVE  IInv'
<1> DEFINE s == MarkCompleted(ops + 1)
<1>1. Begin(w, s) /\ sha' = sha
  BY DEF Complete
<1>2. ops + 1 \in Numbers
  BY <1>1, NextNumber
<1>3. Prepared(s) /\ \A c : Hashed(s, c)
  <2>1. IsRecorded(s, "completions", "completion", "obligation.completed", "completion", ops + 1)
    BY <1>2, RecordedSteps DEF MarkCompleted, Recorded, Tags, Kinds
  <2> HIDE DEF s
  <2>. QED  BY <1>2, <2>1, RecordedPrepared DEF Recorded, Tags, Kinds
<1>4. sha' \in [Windows -> Contents \union {None}]
  BY <1>1 DEF IInv, Types, WindowTypes
<1> HIDE DEF s
<1>. QED  BY <1>1, <1>3, <1>4, BeginKeeps

LEMMA DescribeKeeps ==
    ASSUME IInv, NEW w \in Windows, Describe(w)
    PROVE  IInv'
<1>1. w \in open /\ todo[w] = <<>> /\ stats' = [stats EXCEPT ![w] = "fresh"]
  BY DEF Describe, Idle
<1>2. UNCHANGED <<lock, open, todo, sha, held, logs, index, files, ops, answered, copied, folders>>
  BY DEF Describe
<1>3. \A v \in Windows : todo'[v] = <<>>
  BY <1>1, <1>2 DEF IInv, LockInv
<1>4. todo' \in [Windows -> Seq(Steps)] /\ \A v \in Windows : v \in open' => lock' = v
  BY <1>2 DEF IInv, LockInv, Types, WindowTypes
<1>5. Ready
  BY <1>3, <1>4, Ended
<1>6. Types'
  BY <1>1, <1>2, <1>5 DEF Ready, IInv, Types, WindowTypes, LogTypes, IndexTypes, FileTypes,
                          OtherTypes, folders
<1>7. Truth'
  BY <1>2, TruthQuiet DEF folders, IInv
<1>. QED  BY <1>5, <1>6, <1>7 DEF Ready, IInv

(* The machine stops: a log keeps its first n lines, all on the disk, and  *)
(* those that were synced are among them if its name was.                  *)
Survives(l, n) ==
    /\ n \in Nat /\ n <= Len(logs[l].lines) /\ (l \in named => logs[l].synced <= n)
    /\ logs'[l].synced = n /\ logs'[l].lines \in Seq(Lines) /\ Len(logs'[l].lines) = n
    /\ \A k \in 1 .. n : logs'[l].lines[k] = logs[l].lines[k]

LEMMA PrefixSurvives ==
    ASSUME LogTypes, NEW l \in Logs, logs'[l] \in LogAfter(l)
    PROVE  /\ \E n : Survives(l, n)
           /\ logs'[l] \in [lines : Seq(Lines), synced : Nat]
<1>0. logs[l].lines \in Seq(Lines) /\ logs[l].synced \in Nat /\ Len(logs[l].lines) \in Nat
  BY LenProperties DEF LogTypes
<1>1. CASE logs'[l] = Untouched
  <2>1. logs'[l].lines = <<>> /\ logs'[l].synced = 0
    BY <1>1 DEF Untouched
  <2>2. <<>> \in Seq(Lines) /\ Len(<<>>) = 0
    BY EmptySeq
  <2>3. Survives(l, 0)
    <3>1. l \in named => logs[l].synced <= 0
      <4> SUFFICES ASSUME l \in named PROVE logs[l].synced <= 0
        OBVIOUS
      <4>1. PICK n \in logs[l].synced .. Len(logs[l].lines) :
               logs'[l] = [lines |-> SubSeq(logs[l].lines, 1, n), synced |-> n]
        BY DEF LogAfter
      <4>. QED  BY <1>0, <2>1, <4>1
    <3>. QED  BY <1>0, <2>1, <2>2, <3>1 DEF Survives
  <2>4. logs'[l] \in [lines : Seq(Lines), synced : Nat]
    BY <1>1, <2>2 DEF Untouched
  <2>. QED  BY <2>3, <2>4
<1>2. CASE logs'[l] # Untouched
  <2>1. PICK n \in logs[l].synced .. Len(logs[l].lines) :
           logs'[l] = [lines |-> SubSeq(logs[l].lines, 1, n), synced |-> n]
    BY <1>2 DEF LogAfter
  <2> DEFINE old == logs[l].lines
             new == SubSeq(old, 1, n)
  <2>2. n \in Nat /\ n <= Len(old) /\ logs[l].synced <= n
    BY <1>0, <2>1
  <2>3. new \in Seq(Lines) /\ Len(new) = n /\ \A k \in 1 .. n : new[k] = old[k]
    <3>1. /\ new \in Seq(Lines) /\ Len(new) = IF 1 <= n THEN n - 1 + 1 ELSE 0
          /\ \A k \in 1 .. n - 1 + 1 : new[k] = old[1 + k - 1]
      <4>1. \A k \in 1 .. n : k \in 1 .. Len(old)
        BY <1>0, <2>2
      <4>2. \A k \in 1 .. n : old[k] \in Lines
        BY <1>0, <4>1, ElementOfSeq
      <4>. QED  BY <1>0, <2>2, <4>1, <4>2, SubSeqProperties
    <3>. QED  BY <2>2, <3>1
  <2> HIDE DEF new
  <2>. QED  BY <2>1, <2>2, <2>3 DEF Survives
<1>. QED  BY <1>1, <1>2

(* What was sure is there after a power cut, unless its name or its rename *)
(* was not, ...                                                            *)
LEMMA SureStays ==
    ASSUME LogTypes, IndexTypes, \A l \in Logs : \E n : Survives(l, n),
           DocumentsStay \/ DocumentsGo, NEW f \in Sure, f \notin Exposed
    PROVE  f \in There'
<1>1. f \in Stores \X Numbers /\ f[1] \in named /\ (f[1] = "index" => Filed(f[2]))
  BY DEF Sure, Exposed
<1>2. CASE f[1] = "index"
  <2>1. index'.now \in index.left
    BY <1>1, <1>2 DEF DocumentsStay, DocumentsGo, Register
  <2>2. Has(index'.now, f[2])
    BY <1>1, <1>2, <2>1 DEF Filed, Everywhere, Has
  <2>. QED  BY <1>1, <1>2, <2>2 DEF There, Has
<1>3. CASE f[1] # "index"
  <2>1. f[1] \in Logs
    BY <1>1, <1>3 DEF Stores, Logs
  <2>2. PICK k \in 1 .. logs[f[1]].synced : logs[f[1]].lines[k][2] = f[2]
    BY <1>1, <1>3 DEF Sure, Safe
  <2>3. PICK n : Survives(f[1], n)
    BY <2>1
  <2>4. logs[f[1]].synced \in Nat
    BY <2>1 DEF LogTypes
  <2>5. k \in 1 .. n
    BY <1>1, <2>2, <2>3, <2>4 DEF Survives
  <2>6. k \in DOMAIN logs'[f[1]].lines /\ logs'[f[1]].lines[k][2] = f[2]
    BY <2>2, <2>3, <2>5, LenProperties DEF Survives
  <2>. QED  BY <1>1, <1>3, <2>6 DEF There
<1>. QED  BY <1>2, <1>3

(* ... and then it is there for good.                                      *)
LEMMA SureOrLost ==
    ASSUME LogTypes, IndexTypes, \A l \in Logs : \E n : Survives(l, n),
           DocumentsStay \/ DocumentsGo, index'.left = {index'.now},
           lost' = lost \union (Exposed \ There')
    PROVE  Kept \subseteq Kept'
<1>0. \A f \in Sure : f \in There' \/ f \in Exposed
  BY SureStays
<1> SUFFICES ASSUME NEW f \in Sure, f \in There' PROVE f \in Sure'
  BY <1>0 DEF Kept
<1>1. f \in Stores \X Numbers
  BY DEF Sure
<1>2. CASE f[1] = "index"
  <2>1. Has(index'.now, f[2])
    BY <1>2 DEF There
  <2>2. \A e \in index'.left : Has(e, f[2])
    BY <2>1
  <2>. QED  BY <1>1, <1>2, <2>2 DEF Sure, Filed, Everywhere, Has
<1>3. CASE f[1] # "index"
  <2>1. f[1] \in Logs
    BY <1>1, <1>3 DEF Stores, Logs
  <2>2. PICK k \in DOMAIN logs'[f[1]].lines : logs'[f[1]].lines[k][2] = f[2]
    BY <1>3 DEF There
  <2>3. PICK n : Survives(f[1], n)
    BY <2>1
  <2>4. DOMAIN logs'[f[1]].lines = 1 .. logs'[f[1]].synced
    BY <2>3, LenProperties DEF Survives
  <2>5. f[2] \in {logs'[f[1]].lines[j][2] : j \in 1 .. logs'[f[1]].synced}
    BY <2>2, <2>4
  <2>. QED  BY <1>1, <1>3, <2>5 DEF Sure, Safe
<1>. QED  BY <1>2, <1>3

(* What is found of documents/, with or without the folder.                *)
LEMMA DocumentsAfter ==
    ASSUME IndexTypes, FileTypes, DocumentsStay \/ DocumentsGo,
           UNCHANGED <<copied, unstored>>, unfiled' = {}, ProvenIn(index.left, Assured)
    PROVE  /\ index'.left = {index'.now} /\ index'.now \in index.left \union {<<>>}
           /\ IndexTypes' /\ FileTypes' /\ ProvenIn(index'.left, Assured')
<1>1. /\ index'.left = {index'.now} /\ index'.now \in index.left \union {<<>>}
      /\ index' = [now |-> index'.now, left |-> {index'.now}]
  BY DEF DocumentsStay, DocumentsGo, Register
<1>2. IndexTypes'
  <2>1. index'.now \in Seq(Entries)
    BY <1>1, EmptySeq DEF IndexTypes
  <2>. QED  BY <1>1, <2>1 DEF IndexTypes
<1>3. /\ files' = [c \in Contents |-> files'[c]]
      /\ \A c \in Contents : /\ files'[c] = Register(files'[c].now)
                             /\ files'[c].now \in files[c].left \union {Absent}
  <2>1. CASE DocumentsGo
    BY <2>1 DEF DocumentsGo, Register
  <2>2. CASE DocumentsStay
    <3>1. /\ files' \in [Contents -> {Register(v) : v \in Contents \union {Absent, Partial}}]
          /\ \A c \in Contents : files'[c].now \in files[c].left
      BY <2>2 DEF DocumentsStay
    <3>. QED  BY <3>1 DEF Register
  <2>. QED  BY <2>1, <2>2
<1>4. ASSUME NEW c \in Contents
      PROVE  /\ files'[c].now \in Contained /\ files'[c].left = {files'[c].now}
             /\ files'[c] \in [now : Contained, left : SUBSET Contained]
  <2>1. files'[c].now \in Contained
    BY <1>3 DEF FileTypes, Contained
  <2>2. files'[c] = [now |-> files'[c].now, left |-> {files'[c].now}]
    BY <1>3 DEF Register
  <2>. QED  BY <2>1, <2>2
<1>5. FileTypes'
  <2>1. files' \in [Contents -> [now : Contained, left : SUBSET Contained]]
    BY <1>3, <1>4
  <2>2. \A c \in Contents : files'[c].now \in files'[c].left
    BY <1>4
  <2>3. \A c \in Contents \ copied' : files'[c].left \subseteq {c, Absent}
    BY <1>3, <1>4 DEF FileTypes
  <2>. QED  BY <2>1, <2>2, <2>3 DEF FileTypes
<1>6. ProvenIn(index'.left, Assured')
  <2>1. CASE index'.now = <<>>
    <3>1. \A k \in DOMAIN <<>> : FALSE
      BY EmptySeq
    <3>. QED  BY <1>1, <2>1, <3>1 DEF ProvenIn
  <2>2. CASE index'.now # <<>>
    <3>1. DocumentsStay
      BY <2>2 DEF DocumentsGo, Register
    <3>2. \A c \in Contents : files'[c].now \in files[c].left
      BY <3>1 DEF DocumentsStay
    <3>3. Assured \subseteq Assured'
      BY <1>4, <3>2 DEF Assured
    <3>4. index'.now \in index.left
      BY <1>1, <2>2
    <3>. QED  BY <1>1, <3>3, <3>4 DEF ProvenIn
  <2>. QED  BY <2>1, <2>2
<1>. QED  BY <1>1, <1>2, <1>5, <1>6

LEMMA PowerCutKeeps ==
    ASSUME IInv, PowerCut
    PROVE  IInv'
<1>1. LogTypes /\ IndexTypes /\ FileTypes
  BY DEF IInv, Types
<1>2. /\ lock' = None /\ open' = {}
      /\ todo' = [w \in Windows |-> <<>>] /\ sha' = [w \in Windows |-> None]
      /\ held' = [w \in Windows |-> <<>>] /\ stats' = [w \in Windows |-> "none"]
      /\ UNCHANGED <<ops, answered, copied, unstored>>
      /\ DocumentsStay \/ DocumentsGo
      /\ lost' = lost \union (Exposed \ There') /\ unfiled' = {}
  BY DEF PowerCut
<1>3. DOMAIN logs' = Logs /\ \A l \in Logs : logs'[l] \in LogAfter(l)
  BY DEF PowerCut, Logs
<1>4. <<>> \in Seq(Steps) /\ <<>> \in Seq(Entries)
  BY EmptySeq
<1>5. WindowTypes'
  BY <1>2, <1>4 DEF WindowTypes
<1>6. Ready
  BY <1>2, <1>5, Ended DEF WindowTypes
<1>7. \A l \in Logs : \E n : Survives(l, n)
  BY <1>1, <1>3, PrefixSurvives
<1>8. LogTypes'
  <2>1. \A l \in Logs : logs'[l] \in [lines : Seq(Lines), synced : Nat]
    BY <1>1, <1>3, PrefixSurvives
  <2>2. logs' \in [Logs -> [lines : Seq(Lines), synced : Nat]]
    <3>1. PICK p \in LogAfter("invoices"), c \in LogAfter("completions"), a \in LogAfter("audit") :
             logs' = [l \in Logs |-> CASE l = "invoices" -> p
                                       [] l = "completions" -> c
                                       [] l = "audit" -> a]
      BY DEF PowerCut
    <3>2. p = logs'["invoices"] /\ c = logs'["completions"] /\ a = logs'["audit"]
      BY <3>1 DEF Logs
    <3> DEFINE R == [lines : Seq(Lines), synced : Nat]
    <3>3. p \in R /\ c \in R /\ a \in R
      BY <2>1, <3>2 DEF Logs
    <3> HIDE DEF R
    <3>4. logs' \in [Logs -> R]
      BY <3>1, <3>3 DEF Logs
    <3>. QED  BY <3>4 DEF R
  <2>3. \A l \in Logs : logs'[l].synced <= Len(logs'[l].lines)
    BY <1>7 DEF Survives
  <2>. QED  BY <2>2, <2>3 DEF LogTypes
<1>9. /\ index'.left = {index'.now} /\ index'.now \in index.left \union {<<>>}
      /\ IndexTypes' /\ FileTypes' /\ ProvenIn(index'.left, Assured')
  BY <1>1, <1>2, DocumentsAfter DEF IInv, Truth
<1>10. Kept \subseteq Kept'
  BY <1>1, <1>2, <1>7, <1>9, SureOrLost
<1>11. OtherTypes'
  <2>1. Exposed \subseteq Stores \X Numbers
    BY DEF Exposed, Sure
  <2>2. lost' \subseteq Stores \X Numbers
    BY <1>2, <2>1 DEF IInv, Types, OtherTypes
  <2>3. named' \subseteq Logs \union Stores
    BY DEF PowerCut, IInv, Types, OtherTypes, Stores
  <2>. QED  BY <1>2, <2>2, <2>3 DEF IInv, Types, OtherTypes
<1>12. Types'
  BY <1>5, <1>8, <1>9, <1>11 DEF Types
<1>13. AuditedIn(logs'["audit"].lines, Kept')
  <2>1. PICK n : Survives("audit", n)
    BY <1>7 DEF Logs
  <2>2. Len(logs["audit"].lines) \in Nat
    BY <1>1, LenProperties DEF LogTypes, Logs
  <2>3. \A k \in 1 .. Len(logs'["audit"].lines) :
           k \in 1 .. Len(logs["audit"].lines) /\ logs'["audit"].lines[k] = logs["audit"].lines[k]
    BY <2>1, <2>2 DEF Survives
  <2>. QED  BY <1>10, <2>3 DEF IInv, Truth, AuditedIn
<1>14. AnsweredIn(answered', Kept')
  BY <1>2, <1>10 DEF IInv, Truth, AnsweredIn
<1>15. LinkedIn(index'.left, Kept')
  <2>1. \A k \in DOMAIN <<>> : FALSE
    BY EmptySeq
  <2>. QED  BY <1>9, <1>10, <2>1 DEF IInv, Truth, LinkedIn
<1>. QED  BY <1>6, <1>9, <1>12, <1>13, <1>14, <1>15 DEF Ready, IInv, Truth

LEMMA NextIInv == IInv /\ [Next]_vars => IInv'
<1> SUFFICES ASSUME IInv, [Next]_vars PROVE IInv'
  OBVIOUS
<1>1. ASSUME NEW w \in Windows, Open(w) PROVE IInv'
  BY <1>1, OpenKeeps
<1>2. ASSUME NEW w \in Windows, Close(w) \/ Kill(w) PROVE IInv'
  BY <1>2, GoneKeeps DEF Close, Kill, Idle
<1>3. ASSUME NEW w \in Windows,
             Archive(w) \/ ArchiveBytes(w) \/ RecordReceipt(w) \/ Complete(w)
      PROVE  IInv'
  BY <1>3, ArchiveKeeps, ArchiveBytesKeeps, RecordReceiptKeeps, CompleteKeeps
<1>4. ASSUME NEW w \in Windows, Describe(w) \/ Invalidate(w) \/ WriteLine(w) \/ SyncLine(w)
      PROVE  IInv'
  BY <1>4, DescribeKeeps, InvalidateKeeps, WriteLineKeeps, SyncLineKeeps
<1>5. ASSUME NEW w \in Windows,
             \/ HashFile(w) \/ CopyOpens(w) \/ CopyFills(w) \/ StoreBytes(w)
             \/ SyncStore(w) \/ SyncStoreFails(w)
      PROVE  IInv'
  BY <1>5, HashFileKeeps, CopyOpensKeeps, CopyFillsKeeps, StoreBytesKeeps, SyncStoreKeeps,
     SyncStoreFailsKeeps
<1>6. ASSUME NEW w \in Windows,
             \/ ReadIndex(w) \/ FindEntry(w) \/ PushEntry(w) \/ LinkEntry(w)
             \/ SyncIndex(w) \/ SyncIndexFails(w)
      PROVE  IInv'
  BY <1>6, ReadIndexKeeps, FindEntryKeeps, PushEntryKeeps, LinkEntryKeeps, SyncIndexKeeps,
     SyncIndexFailsKeeps
<1>7. ASSUME NEW w \in Windows, ReturnOk(w) \/ StepFails(w) PROVE IInv'
  BY <1>7, ReturnOkKeeps, StepFailsKeeps
<1>8. CASE UNCHANGED vars
  <2>1. UNCHANGED <<lock, open, todo, sha, held, stats, logs, index, files, ops, answered,
                    copied, named, lost, unfiled, unstored>>
    BY <1>8 DEF vars, memory, folders
  <2>2. Types'
    BY <2>1 DEF IInv, Types, WindowTypes, LogTypes, IndexTypes, FileTypes, OtherTypes, Has
  <2>3. LockInv' /\ TodoInv'
    <3>1. Kept' = Kept /\ There' = There
      BY <2>1, StoresStay
    <3>2. Assured' = Assured
      BY <2>1 DEF Assured
    <3>. QED  BY <2>1, <3>1, <3>2 DEF IInv, LockInv, TodoInv, Right
  <2>4. Truth'
    BY <2>1, TruthQuiet DEF IInv
  <2>. QED  BY <2>2, <2>3, <2>4 DEF IInv
<1>. QED
  BY <1>1, <1>2, <1>3, <1>4, <1>5, <1>6, <1>7, <1>8, PowerCutKeeps DEF Next

LEMMA AlwaysIInv == Spec => []IInv
BY InitIInv, NextIInv, PTL DEF Spec

(***************************************************************************)
(* The index that is there has every document of those that could be.      *)
(***************************************************************************)
NowHasAll ==
    \A e \in index.left : \A k \in DOMAIN e :
        \E j \in DOMAIN index.now : index.now[j].at = e[k].at

(* A new index, with the entries of the old one.                           *)
Rewritten ==
    /\ index'.left = index.left \union {index'.now}
    /\ \A k \in DOMAIN index.now : k \in DOMAIN index'.now /\ index'.now[k].at = index.now[k].at

LEMMA PushedIndex ==
    ASSUME IInv, NEW w \in Windows, PushEntry(w)
    PROVE  /\ Rewritten /\ files' = files
           /\ \A k \in DOMAIN index'.now :
                 k \in DOMAIN index.now \/ files[index'.now[k].file].now \in Contents
<1>1. PICK a \in Steps : Finding(w, a) /\ a.do = "push" /\ Current(w) = a
  BY Doings DEF PushEntry
<1> DEFINE h == held[w]
           x == [file |-> sha[w], at |-> a.at, invoice |-> None]
           i == Append(h, x)
<1>2. h = index.now /\ h \in Seq(Entries)
  BY <1>1 DEF Finding, IInv, Types, WindowTypes
<1>3. x \in Entries /\ x.file = sha[w] /\ files[sha[w]].now \in Contents
  BY <1>1, StepFields DEF Finding, Entries, WholeBy
<1>4. index' = Put(index, i) /\ files' = files
  BY <1>1 DEF PushEntry, Replaced
<1> HIDE DEF h, x
<1>5. /\ Len(h) \in Nat /\ DOMAIN h = 1 .. Len(h) /\ DOMAIN i = 1 .. Len(h) + 1
      /\ \A k \in 1 .. Len(h) : i[k] = h[k]
      /\ i[Len(h) + 1] = x
  BY <1>2, <1>3, AppendProperties, LenProperties
<1> HIDE DEF i
<1>6. index'.now = i /\ index'.left = index.left \union {i}
  BY <1>4 DEF Put
<1>7. Rewritten
  BY <1>2, <1>5, <1>6 DEF Rewritten
<1>8. \A k \in DOMAIN i : k \in DOMAIN h \/ i[k] = x
  BY <1>5
<1>. QED  BY <1>2, <1>3, <1>4, <1>6, <1>7, <1>8

LEMMA LinkedIndex ==
    ASSUME IInv, NEW w \in Windows, LinkEntry(w)
    PROVE  Rewritten /\ \A k \in DOMAIN index'.now : k \in DOMAIN index.now
<1>1. PICK a \in Steps : Finding(w, a) /\ a.do = "link" /\ Current(w) = a
  BY Doings DEF LinkEntry
<1> DEFINE h == held[w]
           p == Min(Places(held[w], Current(w).file))
           n == a.invoice
           i == [h EXCEPT ![p].invoice = n]
<1>2. h = index.now /\ h \in Seq(Entries)
  BY <1>1 DEF Finding, IInv, Types, WindowTypes
<1>3. n \in Numbers
  BY <1>1, StepFields
<1>4. index' = Put(index, i)
  BY <1>1 DEF LinkEntry, Replaced
<1> HIDE DEF h, p, n
<1>5. LinkedAt(h, i, n)
  BY <1>2, <1>3, Relinked
<1> HIDE DEF i
<1>6. index'.now = i /\ index'.left = index.left \union {i}
  BY <1>4 DEF Put
<1>. QED  BY <1>2, <1>5, <1>6 DEF LinkedAt, Rewritten

(* How the index can change.                                               *)
LEMMA IndexSteps ==
    ASSUME [Next]_vars
    PROVE  \/ index' = index
           \/ \E w \in Windows : PushEntry(w) \/ LinkEntry(w) \/ SyncIndex(w) \/ SyncStore(w)
           \/ PowerCut
<1>1. ASSUME NEW w \in Windows,
             \/ Open(w) \/ Close(w) \/ Kill(w)
             \/ Archive(w) \/ ArchiveBytes(w) \/ RecordReceipt(w) \/ Complete(w)
             \/ Describe(w)
      PROVE  index' = index
  BY <1>1 DEF Open, Close, Kill, Archive, ArchiveBytes, RecordReceipt, Complete, Begin, Describe
<1>2. ASSUME NEW w \in Windows,
             \/ Invalidate(w) \/ WriteLine(w) \/ SyncLine(w)
             \/ HashFile(w) \/ CopyOpens(w) \/ CopyFills(w) \/ StoreBytes(w)
             \/ SyncStoreFails(w) \/ SyncIndexFails(w)
      PROVE  index' = index
  BY <1>2 DEF Invalidate, WriteLine, SyncLine, HashFile, CopyOpens, CopyFills, StoreBytes,
              SyncStoreFails, SyncIndexFails
<1>3. ASSUME NEW w \in Windows, ReadIndex(w) \/ FindEntry(w) \/ ReturnOk(w) \/ StepFails(w)
      PROVE  index' = index
  BY <1>3 DEF ReadIndex, FindEntry, ReturnOk, StepFails
<1>4. UNCHANGED vars => index' = index
  BY DEF vars
<1>. QED  BY <1>1, <1>2, <1>3, <1>4 DEF Next

LEMMA NowHasAllStays ==
    ASSUME IInv, NowHasAll, [Next]_vars
    PROVE  NowHasAll'
<1>1. CASE index' = index
  BY <1>1 DEF NowHasAll
<1>2. CASE Rewritten
  BY <1>2 DEF NowHasAll, Rewritten
<1>3. ASSUME NEW w \in Windows, SyncIndex(w) \/ SyncStore(w) PROVE NowHasAll'
  BY <1>3 DEF NowHasAll, SyncIndex, SyncStore, SyncFolder, Settle, Register
<1>4. CASE PowerCut
  <2>1. PICK i : index' = Register(i)
    BY <1>4 DEF PowerCut, DocumentsStay, DocumentsGo
  <2>. QED  BY <2>1 DEF NowHasAll, Register
<1>. QED  BY <1>1, <1>2, <1>3, <1>4, IndexSteps, PushedIndex, LinkedIndex

LEMMA WholeStep ==
    ASSUME IInv, NowHasAll, [Next]_vars
    PROVE  WholeWhenIndexed
<1> SUFFICES ASSUME NEW k \in DOMAIN index'.now,
                    \A j \in DOMAIN index.now : index.now[j].at # index'.now[k].at
             PROVE  files[index'.now[k].file].now \notin {Absent, Partial}
  BY DEF WholeWhenIndexed
<1>1. index' # index
  OBVIOUS
<1>2. ~(\E w \in Windows : SyncIndex(w) \/ SyncStore(w))
  BY DEF SyncIndex, SyncStore, SyncFolder, Settle, Register
<1>3. ~PowerCut
  <2> SUFFICES ASSUME PowerCut PROVE FALSE
    OBVIOUS
  <2>1. PICK i \in index.left \union {<<>>} : index' = Register(i)
    BY DEF PowerCut, DocumentsStay, DocumentsGo
  <2>2. index'.now = i
    BY <2>1 DEF Register
  <2>3. i # <<>>
    <3>1. \A m \in DOMAIN <<>> : FALSE
      BY EmptySeq
    <3>. QED  BY <2>2, <3>1
  <2>. QED  BY <2>2, <2>3 DEF NowHasAll
<1>4. ASSUME NEW w \in Windows, LinkEntry(w) PROVE FALSE
  BY <1>4, LinkedIndex DEF Rewritten
<1>5. ASSUME NEW w \in Windows, PushEntry(w)
      PROVE  files[index'.now[k].file].now \notin {Absent, Partial}
  <2>1. Rewritten /\ files' = files
    BY <1>5, PushedIndex
  <2>2. k \notin DOMAIN index.now
    BY <2>1 DEF Rewritten
  <2>3. files[index'.now[k].file].now \in Contents
    BY <1>5, <2>2, PushedIndex
  <2>. QED  BY <2>1, <2>3, ContentsAssumption DEF Absent, Partial
<1>. QED  BY <1>1, <1>2, <1>3, <1>4, <1>5, IndexSteps

(***************************************************************************)
(* The size.                                                               *)
(***************************************************************************)
LeftPartial == \E c \in Contents : files[c].now = Partial
Sized ==
    \A w \in Windows : /\ w \notin open => stats[w] = "none"
                       /\ stats[w] = "stale" => LeftPartial \/ Forgets(todo[w], 1)

LEMMA SizedStep ==
    ASSUME IInv, Sized, NEW w \in Windows, NEW a, Upcoming(w, a), UNCHANGED open,
           \A v \in Windows \ {w} : stats[v] = "none" => stats'[v] = "none",
           stats'[w] = "stale" => LeftPartial' \/ Forgets(todo'[w], 1)
    PROVE  Sized'
BY DEF Upcoming, Sized

LEMMA SizedAdvance ==
    ASSUME IInv, Sized, NEW w \in Windows, NEW a, Upcoming(w, a), Advance(w), UNCHANGED <<open,
           stats>>,
           LeftPartial => LeftPartial', a.do # "invalidate"
    PROVE  Sized'
<1>1. IsTail(Tail(todo[w]), todo[w]) /\ todo[w][1] = a
  BY DEF Upcoming
<1>2. todo'[w] = Tail(todo[w])
  BY DEF Advance, IInv, Types, WindowTypes
<1>3. Forgets(todo[w], 1) => Forgets(todo'[w], 1)
  BY <1>1, <1>2, ForgetsTail
<1>4. stats'[w] = "stale" => LeftPartial' \/ Forgets(todo'[w], 1)
  BY <1>3 DEF Sized
<1>. QED  BY <1>4, SizedStep

LEMMA SizedStays ==
    ASSUME IInv, Sized, [Next]_vars
    PROVE  Sized'
<1>1. ASSUME NEW w \in Windows, Open(w) PROVE Sized'
  <2>1. \A v \in Windows : stats[v] = "none"
    BY <1>1, NoneAssumption DEF Open, Sized, IInv, LockInv
  <2>. QED  BY <1>1, <2>1 DEF Open, Sized
<1>2. ASSUME NEW w \in Windows, Close(w) \/ Kill(w) PROVE Sized'
  <2>1. w \in open /\ open' = open \ {w} /\ stats' = [stats EXCEPT ![w] = "none"]
    BY <1>2 DEF Close, Kill, Gone, Idle
  <2>2. \A v \in Windows : stats'[v] = "none"
    BY <2>1 DEF Sized, IInv, LockInv, Types, WindowTypes
  <2>. QED  BY <2>2 DEF Sized
<1>3. ASSUME NEW w \in Windows,
             Archive(w) \/ ArchiveBytes(w) \/ RecordReceipt(w) \/ Complete(w)
      PROVE  Sized'
  <2>1. PICK s : Begin(w, s)
    BY <1>3 DEF Archive, ArchiveBytes, RecordReceipt, Complete
  <2>2. w \in open /\ todo[w] = <<>> /\ UNCHANGED <<open, stats, files>>
    BY <2>1 DEF Begin, Idle
  <2>3. ~Forgets(todo[w], 1)
    <3>1. \A j \in 1 .. Len(<<>>) : FALSE
      BY EmptySeq
    <3>. QED  BY <2>2, <3>1 DEF Forgets
  <2>4. stats[w] = "stale" => LeftPartial
    BY <2>3 DEF Sized
  <2>5. \A v \in Windows \ {w} : stats[v] = "none"
    BY <2>2 DEF Sized, IInv, LockInv
  <2>. QED  BY <2>2, <2>4, <2>5 DEF Sized, LeftPartial
<1>4. ASSUME NEW w \in Windows, Describe(w) PROVE Sized'
  <2>1. w \in open /\ stats' = [stats EXCEPT ![w] = "fresh"] /\ open' = open
    BY <1>4 DEF Describe, Idle
  <2>2. \A v \in Windows \ {w} : stats[v] = "none"
    BY <2>1 DEF Sized, IInv, LockInv
  <2>. QED  BY <2>1, <2>2 DEF Sized, IInv, Types, WindowTypes
<1>5. ASSUME NEW w \in Windows, Invalidate(w) PROVE Sized'
  <2>1. PICK a \in Steps : Upcoming(w, a)
    BY <1>5, Doings DEF Invalidate
  <2>2. stats' = [stats EXCEPT ![w] = "none"] /\ stats'[w] = "none" /\ open' = open
    BY <1>5 DEF Invalidate, IInv, Types, WindowTypes
  <2>. QED  BY <2>1, <2>2, SizedStep DEF IInv, Types, WindowTypes
<1>6. ASSUME NEW w \in Windows, WriteLine(w) \/ PushEntry(w) \/ LinkEntry(w) PROVE Sized'
  <2>1. PICK a \in Steps : Upcoming(w, a) /\ Finding(w, a) /\ a.do \in {"write", "push", "link"}
    BY <1>6, Doings DEF WriteLine, PushEntry, LinkEntry
  <2>2. Changed /\ open' = open
    BY <1>6 DEF WriteLine, PushEntry, LinkEntry, Replaced
  <2>3. stats'[w] = "none"
    BY <2>1, <2>2 DEF Finding, Changed
  <2>. QED  BY <2>1, <2>2, <2>3, SizedStep DEF Changed
<1>7. ASSUME NEW w \in Windows, CopyOpens(w) PROVE Sized'
  <2>1. PICK a \in Steps : Upcoming(w, a) /\ Finding(w, a) /\ a.do = "copyopens"
    BY <1>7, Doings DEF CopyOpens
  <2>2. Changed /\ open' = open
    BY <1>7 DEF CopyOpens
  <2>3. sha[w] \in Contents
    BY <2>1 DEF Finding
  <2>4. files'[sha[w]].now = Partial
    BY <1>7, <2>3 DEF CopyOpens, Put, IInv, Types, FileTypes
  <2>5. LeftPartial'
    BY <2>3, <2>4 DEF LeftPartial
  <2>. QED  BY <2>1, <2>2, <2>5, SizedStep DEF Changed
<1>8. ASSUME NEW w \in Windows, CopyFills(w) \/ StoreBytes(w) PROVE Sized'
  <2>1. PICK a \in Steps : Upcoming(w, a) /\ a.do \in {"copyfills", "store"}
    BY <1>8, Doings DEF CopyFills, StoreBytes
  <2>2. Advance(w) /\ open' = open /\ (Changed \/ stats' = stats)
    BY <1>8 DEF CopyFills, StoreBytes
  <2>3. IsTail(Tail(todo[w]), todo[w]) /\ todo[w][1] = a
    BY <2>1 DEF Upcoming
  <2>4. todo'[w] = Tail(todo[w]) /\ ForgetsAfter(todo[w])
    BY <2>2 DEF Advance, IInv, Types, WindowTypes, TodoInv, Right
  <2>5. Forgets(todo'[w], 1)
    BY <2>1, <2>3, <2>4, ForgetsTail
  <2>. QED  BY <2>1, <2>2, <2>5, SizedStep DEF Changed
<1>9. ASSUME NEW w \in Windows,
             \/ SyncLine(w) \/ HashFile(w) \/ ReadIndex(w) \/ ReturnOk(w)
             \/ SyncIndexFails(w) \/ SyncStoreFails(w)
      PROVE  Sized'
  <2>1. PICK a \in Steps : Upcoming(w, a) /\ a.do # "invalidate"
    BY <1>9, Doings DEF SyncLine, HashFile, ReadIndex, SyncIndexFails, SyncStoreFails, ReturnOk
  <2>2. Advance(w) /\ UNCHANGED <<open, stats, files>>
    BY <1>9 DEF SyncLine, HashFile, ReadIndex, SyncIndexFails, SyncStoreFails, ReturnOk
  <2>. QED  BY <2>1, <2>2, SizedAdvance DEF LeftPartial
<1>10. ASSUME NEW w \in Windows, SyncStore(w) \/ SyncIndex(w) PROVE Sized'
  <2>1. PICK a \in Steps : Upcoming(w, a) /\ a.do # "invalidate"
    BY <1>10, Doings DEF SyncStore, SyncIndex
  <2>2. Advance(w) /\ UNCHANGED <<open, stats>> /\ \E R : SyncFolder(R)
    BY <1>10 DEF SyncStore, SyncIndex
  <2>3. \A c \in Contents : files'[c].now = files[c].now
    BY <2>2 DEF SyncFolder, Settle, NameSettled, Register, IInv, Types, FileTypes
  <2>. QED  BY <2>1, <2>2, <2>3, SizedAdvance DEF LeftPartial
<1>11. ASSUME NEW w \in Windows, FindEntry(w) PROVE Sized'
  <2>1. PICK a \in Steps : Upcoming(w, a) /\ Finding(w, a) /\ a.do = "find"
    BY <1>11, Doings DEF FindEntry
  <2>2. UNCHANGED <<open, stats>>
    BY <1>11 DEF FindEntry
  <2>3. stats'[w] = "none"
    BY <2>1, <2>2 DEF Finding
  <2>. QED  BY <2>1, <2>2, <2>3, SizedStep
<1>12. ASSUME NEW w \in Windows, StepFails(w) PROVE Sized'
  <2>1. PICK d \in CanFail : Doing(w, d)
    BY <1>12 DEF StepFails, CanFail
  <2>2. PICK a \in Steps : Upcoming(w, a) /\ a.do \in CanFail
    BY <2>1, Doings
  <2>3. UNCHANGED <<open, stats, files>>
    BY <1>12 DEF StepFails
  <2>4. ~Forgets(todo[w], 1)
    <3> SUFFICES ASSUME Forgets(todo[w], 1) PROVE FALSE
      OBVIOUS
    <3>1. PICK j \in 1 .. Len(todo[w]) :
             /\ todo[w][j].do = "invalidate"
             /\ \A m \in 1 .. j - 1 : todo[w][m].do \notin CanFail
      BY DEF Forgets
    <3>2. todo[w][1].do \in CanFail
      BY <2>2 DEF Upcoming
    <3>3. j = 1
      BY <3>1, <3>2
    <3>. QED  BY <3>1, <3>2, <3>3 DEF CanFail
  <2>5. stats[w] = "stale" => LeftPartial'
    BY <2>3, <2>4 DEF Sized, LeftPartial
  <2>. QED  BY <2>2, <2>3, <2>5, SizedStep
<1>13. CASE UNCHANGED vars
  BY <1>13 DEF vars, memory, Sized, LeftPartial
<1>14. CASE PowerCut
  BY <1>14 DEF PowerCut, Sized
<1>. QED
  BY <1>1, <1>2, <1>3, <1>4, <1>5, <1>6, <1>7, <1>8, <1>9, <1>10, <1>11, <1>12, <1>13,
     <1>14 DEF Next

(***************************************************************************)
(* What follows.                                                           *)
(***************************************************************************)

(* Every variable has its type, whatever windows, contents, routes and     *)
(* faults there are: the operations never put into the logs or the index   *)
(* something that is not a line or an entry (vault.rs).                    *)
THEOREM TypeCorrect == Spec => []TypeOK
<1>1. IInv => TypeOK
  <2> SUFFICES ASSUME IInv PROVE TypeOK
    OBVIOUS
  <2>1. \A l \in Logs : /\ logs[l].lines \in Seq(Tags \X Numbers)
                        /\ logs[l].synced \in 0 .. Len(logs[l].lines)
    <3> TAKE l \in Logs
    <3>1. /\ logs[l].lines \in Seq(Lines) /\ logs[l].synced \in Nat
          /\ logs[l].synced <= Len(logs[l].lines)
      BY DEF IInv, Types, LogTypes
    <3>2. Len(logs[l].lines) \in Nat
      BY <3>1, LenProperties
    <3>. QED  BY <3>1, <3>2 DEF Lines
  <2>2. \A w \in Windows : held[w] \in Seq(Entries)
    BY DEF IInv, Types, WindowTypes
  <2>3. index.now \in index.left /\ \A i \in index.left : i \in Seq(Entries)
    BY DEF IInv, Types, IndexTypes
  <2>4. \A c \in Contents : /\ files[c].now \in files[c].left
                            /\ files[c].left \subseteq Contents \union {Absent, Partial}
    BY DEF IInv, Types, FileTypes, Contained
  <2>5. /\ lock \in Windows \union {None} /\ open \subseteq Windows
        /\ sha \in [Windows -> Contents \union {None}]
        /\ stats \in [Windows -> {"none", "fresh", "stale"}]
        /\ ops \in Numbers /\ answered \subseteq Answers
        /\ copied \subseteq Contents
        /\ named \subseteq Logs \union Stores /\ lost \subseteq Stores \X Numbers
        /\ unfiled \subseteq Numbers /\ unstored \subseteq Contents
    BY DEF IInv, Types, WindowTypes, IndexTypes, FileTypes, OtherTypes
  <2>. QED  BY <2>1, <2>2, <2>3, <2>4, <2>5 DEF TypeOK
<1>. QED  BY <1>1, AlwaysIInv, PTL

(* What an operation that returned Ok recorded stays recorded, for any     *)
(* number of windows and operations: through deaths, errors at any step,   *)
(* power cuts and the rewriting of the index (append_typed, write_json and *)
(* the lock of lock.rs).  All a power cut can take is what has no name on  *)
(* the disk: a log or documents/ that no power cut has left before, or an  *)
(* index whose folder's sync failed (append_text, sync_parent).            *)
THEOREM AnswersAreKept == Spec => []AnsweredKept
<1>1. IInv => AnsweredKept
  <2> SUFFICES ASSUME IInv, NEW a \in answered
               PROVE  CASE a[1] = "invoice"    -> <<"invoices", a[2]>> \in Kept
                        [] a[1] = "completion" -> <<"completions", a[2]>> \in Kept
                        [] a[1] = "document"   -> <<"index", a[2]>> \in Kept
    BY DEF AnsweredKept
  <2>1. <<StoreOf(a[1]), a[2]>> \in Kept
    BY DEF IInv, Truth, AnsweredIn
  <2>2. a[1] \in {"invoice", "completion", "document"}
    BY DEF IInv, Types, OtherTypes, Answers
  <2> HIDE DEF Kept
  <2>. QED  BY <2>1, <2>2 DEF StoreOf
<1>. QED  BY <1>1, AlwaysIInv, PTL

(* No line of the audit log, on the disk or not yet, tells of a record     *)
(* that is not kept (append_invoice, mark_completed and index_document     *)
(* write it last); a power cut that takes a log or documents/ with its     *)
(* name can leave the line behind (append_text).                           *)
THEOREM AuditTellsTheTruth == Spec => []AuditNeverAhead
<1>1. IInv => AuditNeverAhead
  <2> DEFINE lines == logs["audit"].lines
  <2> SUFFICES ASSUME IInv, NEW k \in DOMAIN lines
               PROVE  CASE lines[k][1] = "invoice.recorded"     ->
                               <<"invoices", lines[k][2]>> \in Kept
                        [] lines[k][1] = "obligation.completed" ->
                               <<"completions", lines[k][2]>> \in Kept
                        [] lines[k][1] = "document.added"       -> <<"index", lines[k][2]>> \in Kept
                        [] OTHER                                -> TRUE
    BY DEF AuditNeverAhead
  <2>1. k \in 1 .. Len(lines)
    BY LenProperties DEF IInv, Types, LogTypes, Logs
  <2>2. \A l \in Stores : AuditTells(lines[k][1], l) => <<l, lines[k][2]>> \in Kept
    BY <2>1 DEF IInv, Truth, AuditedIn
  <2> HIDE DEF lines, Kept
  <2>3. lines[k][1] = "invoice.recorded" => <<"invoices", lines[k][2]>> \in Kept
    BY <2>2 DEF AuditTells, Stores
  <2>4. lines[k][1] = "obligation.completed" => <<"completions", lines[k][2]>> \in Kept
    BY <2>2 DEF AuditTells, Stores
  <2>5. lines[k][1] = "document.added" => <<"index", lines[k][2]>> \in Kept
    BY <2>2 DEF AuditTells, Stores
  <2>. QED  BY <2>3, <2>4, <2>5
<1>. QED  BY <1>1, AlwaysIInv, PTL

(* Every index that could be read, now or after a power cut, names only    *)
(* documents that can be proven (or were copied, or are not there when the *)
(* sync of their folder failed) and invoices that were kept in the ledger; *)
(* and a document that enters it is whole (add_document,                   *)
(* add_document_bytes, save_receipt).                                      *)
THEOREM IndexIsSound == Spec => IndexSound
<1>1. IInv => Everywhere(HasContent) /\ Everywhere(LinksRecorded)
  <2> SUFFICES ASSUME IInv, NEW i \in index.left
               PROVE  HasContent(i) /\ LinksRecorded(i)
    BY DEF Everywhere
  <2>1. \A c \in Assured : \/ files[c].left = {c}
                          \/ (c \in unstored /\ files[c].left \subseteq {c, Absent})
                          \/ c \in copied
    BY DEF IInv, Types, FileTypes, Assured
  <2>2. \A k \in DOMAIN i : i[k].file \in Assured
    BY DEF IInv, Truth, ProvenIn
  <2> HIDE DEF Assured
  <2>3. HasContent(i)
    BY <2>1, <2>2 DEF HasContent
  <2>4. \A k \in DOMAIN i : i[k].invoice # None => <<"invoices", i[k].invoice>> \in Kept
    BY DEF IInv, Truth, LinkedIn
  <2>5. LinksRecorded(i)
    BY <2>4 DEF LinksRecorded
  <2>. QED  BY <2>3, <2>5
<1>2. Init => NowHasAll
  BY DEF Init, Register, NowHasAll
<1>3. IInv /\ NowHasAll /\ [Next]_vars => NowHasAll'
  BY NowHasAllStays
<1>4. IInv /\ NowHasAll /\ [Next]_vars => WholeWhenIndexed
  BY WholeStep
<1>. QED  BY <1>1, <1>2, <1>3, <1>4, AlwaysIInv, PTL DEF Spec, IndexSound

(* The size on the screen is stale between operations only when a copy     *)
(* that failed left part of a document behind (Vault::invalidate).         *)
THEOREM SizeIsFresh == Spec => []StatsFresh
<1>1. Init => Sized
  BY DEF Init, Sized
<1>2. IInv /\ Sized /\ [Next]_vars => Sized'
  BY SizedStays
<1>3. Sized => StatsFresh
  <2> SUFFICES ASSUME Sized, NEW w \in Windows, Idle(w), stats[w] = "stale"
               PROVE  \E c \in Contents : files[c].now = Partial
    BY DEF StatsFresh
  <2>1. \A j \in 1 .. Len(<<>>) : FALSE
    BY EmptySeq
  <2>. QED  BY <2>1 DEF Sized, Idle, Forgets, LeftPartial
<1>. QED  BY <1>1, <1>2, <1>3, AlwaysIInv, PTL DEF Spec
=============================================================================
