-------------------------- MODULE AlarmIngestProofs --------------------------
(***************************************************************************)
(* Proofs about alarm ingestion, for every set of detectors, alarm types,  *)
(* rules and every bound: type correctness, and the three facts that one   *)
(* reading, and hence one transaction, keeps about the alarm table.        *)
(***************************************************************************)
EXTENDS AlarmIngest, SequenceTheorems, TLAPS

\* Rewriting rows one by one keeps the length and the kind of the table.
LEMMA MapRows ==
    ASSUME NEW S, NEW s \in Seq(S), NEW t, t = [i \in DOMAIN s |-> t[i]],
           \A i \in DOMAIN s : t[i] \in S
    PROVE  t \in Seq(S) /\ Len(t) = Len(s) /\ DOMAIN t = DOMAIN s
<1>1. DOMAIN s = 1..Len(s) /\ Len(s) \in Nat
  BY LenProperties
<1>2. t \in [1..Len(s) -> S]
  BY <1>1
<1>3. QED
  BY <1>1, <1>2, SeqDef

\* RecoverOthers rewrites statuses only.
LEMMA RecoverRows ==
    ASSUME NEW s \in Seq(Row), NEW d, NEW t
    PROVE  LET rows == RecoverOthers(s, d, t)
           IN  /\ rows \in Seq(Row) /\ Len(rows) = Len(s) /\ DOMAIN rows = DOMAIN s
               /\ \A i \in DOMAIN s :
                    /\ rows[i].det = s[i].det /\ rows[i].type = s[i].type
                    /\ rows[i].fired = s[i].fired
                    /\ rows[i].status = "active" <=>
                         s[i].status = "active" /\ (s[i].det # d \/ s[i].type = t)
                    /\ rows[i].status = "deleted" <=> s[i].status = "deleted"
<1> DEFINE rows == RecoverOthers(s, d, t)
<1>1. \A i \in DOMAIN s : s[i] \in Row
  BY ElementOfSeq, LenProperties
<1>2. \A i \in DOMAIN s : rows[i] =
        IF s[i].status = "active" /\ s[i].det = d /\ s[i].type # t
        THEN [s[i] EXCEPT !.status = "recovered"] ELSE s[i]
  BY DEF RecoverOthers
<1>3. \A i \in DOMAIN s : /\ rows[i] \in Row
                          /\ rows[i].det = s[i].det /\ rows[i].type = s[i].type
                          /\ rows[i].fired = s[i].fired
                          /\ rows[i].status = "active" <=>
                               s[i].status = "active" /\ (s[i].det # d \/ s[i].type = t)
                          /\ rows[i].status = "deleted" <=> s[i].status = "deleted"
  BY <1>1, <1>2 DEF Row
<1>4. rows = [i \in DOMAIN s |-> rows[i]]
  BY DEF RecoverOthers
<1> HIDE DEF rows
<1>5. rows \in Seq(Row) /\ Len(rows) = Len(s) /\ DOMAIN rows = DOMAIN s
  BY <1>3, <1>4, MapRows
<1>6. QED
  BY <1>3, <1>5 DEF rows

\* What one meaningful reading does to the tables, row by row.
LEMMA IngestEffect ==
    ASSUME NEW D \in Tables, NEW rd \in Reading, ~ Ignored(rd)
    PROVE  LET s    == D.alarms
               E    == IngestOne(D, rd)
               rows == RecoverOthers(s, rd.det, rd.status)
               new  == Opens(rows, rd)
               n    == Len(s) + 1
           IN  /\ E \in Tables
               /\ E.cond = [D.cond EXCEPT ![rd.det] = rd.status]
               /\ ~ new => E.alarms = rows
               /\ new => /\ E.alarms = Append(rows, E.alarms[n])
                         /\ E.alarms[n].det = rd.det /\ E.alarms[n].type = rd.status
                         /\ E.alarms[n].status = "active"
                         /\ E.alarms[n].fired \in [RuleIds -> 0..1]
                         /\ E.alarms[n] \in Row
               /\ \A d \in Detectors \ {rd.det} : E.episode[d] = D.episode[d]
               /\ \A r \in RuleIds :
                     E.episode[rd.det][r] =
                        (IF D.cond[rd.det] = rd.status THEN D.episode[rd.det][r] ELSE 0)
                        + (IF new THEN E.alarms[n].fired[r] ELSE 0)
<1> DEFINE s     == D.alarms
           rows  == RecoverOthers(s, rd.det, rd.status)
           new   == Opens(rows, rd)
           n     == Len(s) + 1
           F     == IF new THEN TriggerForAlarm(Silence, Matching(rd.det, rd.status))
                    ELSE Silence
           base  == IF D.cond[rd.det] = rd.status THEN D.episode[rd.det] ELSE Silence
           row   == [det |-> rd.det, type |-> rd.status, status |-> "active", fired |-> F]
           ep    == [r \in RuleIds |-> base[r] + F[r]]
           E     == IngestOne(D, rd)
<1>1. E = [alarms  |-> IF new THEN Append(rows, row) ELSE rows,
           cond    |-> [D.cond EXCEPT ![rd.det] = rd.status],
           episode |-> [D.episode EXCEPT ![rd.det] = ep]]
  BY Zenon DEF IngestOne
<1>2. /\ s \in Seq(Row) /\ D.cond \in [Detectors -> AlarmTypes \union {Normal}]
      /\ D.episode \in [Detectors -> [RuleIds -> Nat]]
  BY DEF Tables
<1>3. rows \in Seq(Row) /\ Len(rows) = Len(s) /\ Len(s) \in Nat
  BY <1>2, RecoverRows, LenProperties
<1>4. rd.det \in Detectors /\ rd.status \in AlarmTypes \union {Normal}
  BY DEF Reading, Statuses, Ignored
<1>5. F \in [RuleIds -> 0..1] /\ (~ new => F = Silence)
  BY DEF TriggerForAlarm, Silence, AddLinkage
<1>6. new => row \in Row
  <2>1. F \in [RuleIds -> Nat]
    BY <1>5
  <2>2. new => rd.status \in AlarmTypes
    BY DEF Opens
  <2> HIDE DEF F, new
  <2>3. QED
    BY <1>4, <2>1, <2>2 DEF Row
<1>7. base \in [RuleIds -> Nat]
  BY <1>2, <1>4 DEF Silence
<1>8. ep \in [RuleIds -> Nat]
  <2> HIDE DEF base, F
  <2>1. QED
    BY <1>5, <1>7
<1>9. \A r \in RuleIds : base[r] = IF D.cond[rd.det] = rd.status
                                   THEN D.episode[rd.det][r] ELSE 0
  BY DEF Silence
<1>10. \A r \in RuleIds : F[r] = IF new THEN F[r] ELSE 0
  BY <1>5 DEF Silence
<1> HIDE DEF rows, new, F, base, ep, row
<1>11. E.cond = [D.cond EXCEPT ![rd.det] = rd.status]
       /\ E.cond \in [Detectors -> AlarmTypes \union {Normal}]
  BY <1>1, <1>2, <1>4
<1>12. E.episode = [D.episode EXCEPT ![rd.det] = ep]
       /\ E.episode \in [Detectors -> [RuleIds -> Nat]]
  BY <1>1, <1>2, <1>4, <1>8
<1>13. CASE new
  <2>1. E.alarms = Append(rows, row)
    BY <1>1, <1>13
  <2>2. E.alarms \in Seq(Row) /\ E.alarms[n] = row
    BY <1>3, <1>6, <1>13, <2>1, AppendProperties
  <2>3. E.alarms[n].det = rd.det /\ E.alarms[n].type = rd.status
        /\ E.alarms[n].status = "active" /\ E.alarms[n].fired = F
    BY <2>2 DEF row
  <2>4. E \in Tables
    BY <1>1, <1>11, <1>12, <2>2 DEF Tables
  <2>5. \A r \in RuleIds : E.episode[rd.det][r] = base[r] + F[r]
    BY <1>2, <1>4, <1>12 DEF ep
  <2>6. \A d \in Detectors \ {rd.det} : E.episode[d] = D.episode[d]
    BY <1>2, <1>12
  <2>7. QED
    BY <1>5, <1>6, <1>9, <1>11, <1>13, <2>1, <2>2, <2>3, <2>4, <2>5, <2>6
    DEF rows, new
<1>14. CASE ~ new
  <2>1. E.alarms = rows
    BY <1>1, <1>14
  <2>4. E \in Tables
    BY <1>1, <1>3, <1>11, <1>12, <2>1 DEF Tables
  <2>5. \A r \in RuleIds : E.episode[rd.det][r] = base[r] + F[r]
    BY <1>2, <1>4, <1>12 DEF ep
  <2>6. \A d \in Detectors \ {rd.det} : E.episode[d] = D.episode[d]
    BY <1>2, <1>12
  <2>7. QED
    BY <1>9, <1>10, <1>11, <1>14, <2>1, <2>4, <2>5, <2>6 DEF rows, new
<1>15. QED
  BY <1>13, <1>14

\* One reading keeps the tables consistent.  The reading's detector has no
\* active row of another type left, and a row is inserted only when it has
\* none at all, that is when nothing was triggered in the period so far.
LEMMA IngestConsistent ==
    ASSUME NEW D \in Tables, NEW rd \in Reading, Consistent(D)
    PROVE  IngestOne(D, rd) \in Tables /\ Consistent(IngestOne(D, rd))
<1> DEFINE s    == D.alarms
           E    == IngestOne(D, rd)
           A    == E.alarms
           rows == RecoverOthers(s, rd.det, rd.status)
           new  == Opens(rows, rd)
           n    == Len(s) + 1
<1>1. CASE Ignored(rd)
  BY <1>1 DEF IngestOne
<1>2. CASE ~ Ignored(rd)
  <2>1. /\ s \in Seq(Row) /\ D.cond \in [Detectors -> AlarmTypes \union {Normal}]
        /\ D.episode \in [Detectors -> [RuleIds -> Nat]]
    BY DEF Tables
  <2>2. Len(s) \in Nat /\ DOMAIN s = 1..Len(s) /\ \A i \in DOMAIN s : s[i] \in Row
    BY <2>1, LenProperties, ElementOfSeq
  <2>3. /\ rows \in Seq(Row) /\ Len(rows) = Len(s) /\ DOMAIN rows = DOMAIN s
        /\ \A i \in DOMAIN s :
             /\ rows[i].det = s[i].det /\ rows[i].type = s[i].type
             /\ rows[i].fired = s[i].fired
             /\ rows[i].status = "active" <=>
                  s[i].status = "active" /\ (s[i].det # rd.det \/ s[i].type = rd.status)
    BY <2>1, RecoverRows
  <2>4. /\ E \in Tables
        /\ E.cond = [D.cond EXCEPT ![rd.det] = rd.status]
        /\ ~ new => A = rows
        /\ new => /\ A = Append(rows, A[n])
                  /\ A[n].det = rd.det /\ A[n].type = rd.status
                  /\ A[n].status = "active"
                  /\ A[n].fired \in [RuleIds -> 0..1] /\ A[n] \in Row
        /\ \A d \in Detectors \ {rd.det} : E.episode[d] = D.episode[d]
        /\ \A r \in RuleIds :
              E.episode[rd.det][r] =
                 (IF D.cond[rd.det] = rd.status THEN D.episode[rd.det][r] ELSE 0)
                 + (IF new THEN A[n].fired[r] ELSE 0)
    BY <1>2, IngestEffect
  <2>5. rd.det \in Detectors /\ (\A i \in DOMAIN s : s[i].det \in Detectors)
    BY <2>2 DEF Reading, Row
  <2>6. new => \A i \in DOMAIN s :
                  ~ (rows[i].status = "active" /\ rows[i].det = rd.det)
    BY <2>3 DEF Opens, HasActive, IsActive
  <2> HIDE DEF rows, new, E
  <2>7. DOMAIN A = IF new THEN DOMAIN s \union {n} ELSE DOMAIN s
    <3>1. CASE new
      <4>0. PICK x \in Row : A = Append(rows, x)
        BY <2>4, <3>1
      <4>1. Len(A) = n /\ A \in Seq(Row)
        BY <2>3, <4>0, AppendProperties
      <4>2. DOMAIN A = 1..n
        BY <4>1, LenProperties
      <4>3. QED
        BY <2>2, <3>1, <4>2
    <3>2. CASE ~ new
      BY <2>3, <2>4, <3>2
    <3>3. QED
      BY <3>1, <3>2
  <2>8. \A i \in DOMAIN s : A[i] = rows[i] /\ i # n
    <3>1. CASE new
      BY <2>2, <2>3, <2>4, <3>1, AppendProperties
    <3>2. CASE ~ new
      BY <2>2, <2>4, <3>2
    <3>3. QED
      BY <3>1, <3>2
  <2>9. \A i \in DOMAIN s :
          /\ A[i].det = s[i].det /\ A[i].type = s[i].type /\ A[i].fired = s[i].fired
          /\ A[i].status = "active" <=>
               s[i].status = "active" /\ (s[i].det # rd.det \/ s[i].type = rd.status)
    BY <2>3, <2>8
  <2>10. new => \A i \in DOMAIN s : ~ (A[i].status = "active" /\ A[i].det = rd.det)
    BY <2>6, <2>8
  <2>11. \A i \in DOMAIN s : s[i].status = "active" =>
            /\ s[i].type = D.cond[s[i].det]
            /\ \A j \in DOMAIN s :
                  s[j].status = "active" /\ s[i].det = s[j].det => i = j
    BY DEF Consistent, OneActiveIn, CurrentIn, ActiveRow
  <2>12. \A d \in Detectors, r \in RuleIds :
            /\ D.episode[d][r] \in Nat /\ D.episode[d][r] <= 1
            /\ D.episode[d][r] # 0 =>
                  \E i \in DOMAIN s : /\ s[i].status = "active" /\ s[i].det = d
                                      /\ s[i].fired[r] # 0
    BY <2>1 DEF Consistent, OnceIn, WitnessIn, ActiveRow
  <2>13. OneActiveIn(E)
    <3> SUFFICES ASSUME NEW i \in DOMAIN A, NEW j \in DOMAIN A,
                        A[i].status = "active", A[j].status = "active",
                        A[i].det = A[j].det
                 PROVE  i = j
      BY DEF OneActiveIn, ActiveRow
    <3>1. CASE i \in DOMAIN s /\ j \in DOMAIN s
      BY <2>9, <2>11, <3>1
    <3>2. CASE new /\ (i = n \/ j = n)
      BY <2>4, <2>7, <2>10, <3>2
    <3>3. QED
      BY <2>7, <3>1, <3>2
  <2>14. CurrentIn(E)
    <3> SUFFICES ASSUME NEW i \in DOMAIN A, A[i].status = "active"
                 PROVE  A[i].type = E.cond[A[i].det]
      BY DEF CurrentIn, ActiveRow
    <3>1. CASE i \in DOMAIN s
      BY <2>1, <2>4, <2>5, <2>9, <2>11, <3>1
    <3>2. CASE new /\ i = n
      BY <2>1, <2>4, <2>5, <3>2
    <3>3. QED
      BY <2>7, <3>1, <3>2
  <2>15. ASSUME NEW r \in RuleIds, D.cond[rd.det] = rd.status,
                D.episode[rd.det][r] # 0
         PROVE  \E i \in DOMAIN s : /\ A[i].status = "active" /\ A[i].det = rd.det
                                    /\ A[i].fired[r] # 0
    BY <2>5, <2>9, <2>11, <2>12, <2>15
  <2>16. OnceIn(E)
    <3> SUFFICES ASSUME NEW d \in Detectors, NEW r \in RuleIds
                 PROVE  E.episode[d][r] <= 1
      BY DEF OnceIn
    <3>1. CASE d # rd.det
      BY <2>4, <2>12, <3>1
    <3>2. CASE d = rd.det /\ new
      <4>1. D.cond[rd.det] = rd.status => D.episode[rd.det][r] = 0
        BY <2>10, <2>15, <3>2
      <4>2. A[n].fired[r] \in 0..1
        BY <2>4, <3>2
      <4>3. QED
        BY <2>4, <3>2, <4>1, <4>2
    <3>3. CASE d = rd.det /\ ~ new
      BY <2>4, <2>5, <2>12, <3>3
    <3>4. QED
      BY <3>1, <3>2, <3>3
  <2>17. WitnessIn(E)
    <3> SUFFICES ASSUME NEW d \in Detectors, NEW r \in RuleIds, E.episode[d][r] # 0
                 PROVE  \E i \in DOMAIN A : /\ A[i].status = "active" /\ A[i].det = d
                                            /\ A[i].fired[r] # 0
      BY DEF WitnessIn, ActiveRow
    <3>1. CASE d # rd.det
      <4>1. D.episode[d][r] # 0
        BY <2>4, <3>1
      <4>2. PICK i \in DOMAIN s : /\ s[i].status = "active" /\ s[i].det = d
                                  /\ s[i].fired[r] # 0
        BY <2>12, <4>1
      <4>3. i \in DOMAIN A /\ A[i].status = "active" /\ A[i].det = d
            /\ A[i].fired = s[i].fired
        BY <2>7, <2>9, <3>1, <4>2
      <4>4. QED
        BY <4>2, <4>3
    <3>2. CASE d = rd.det /\ D.cond[rd.det] = rd.status /\ D.episode[rd.det][r] # 0
      BY <2>7, <2>15, <3>2
    <3>3. CASE d = rd.det /\ ~ (D.cond[rd.det] = rd.status /\ D.episode[rd.det][r] # 0)
      <4>1. E.episode[rd.det][r] = 0 + (IF new THEN A[n].fired[r] ELSE 0)
        BY <2>4, <3>3
      <4>2. new /\ A[n].fired[r] # 0
        BY <3>3, <4>1
      <4>3. n \in DOMAIN A /\ A[n].status = "active" /\ A[n].det = d
        BY <2>4, <2>7, <3>3, <4>2
      <4>4. QED
        BY <4>2, <4>3
    <3>4. QED
      BY <3>1, <3>2, <3>3
  <2>18. QED
    BY <2>4, <2>13, <2>14, <2>16, <2>17 DEF Consistent, E
<1>3. QED
  BY <1>1, <1>2

\* Continues is transitive.
LEMMA ContinuesTrans ==
    ASSUME NEW a, NEW b, NEW c, Continues(a, b), Continues(b, c),
           \A i \in DOMAIN b : b[i] \in Row
    PROVE  Continues(a, c)
  BY DEF Continues, Row

\* Ingesting one reading continues the alarm rows.
LEMMA IngestContinues ==
    ASSUME NEW D \in Tables, NEW rd \in Reading
    PROVE  Continues(D.alarms, IngestOne(D, rd).alarms)
<1> DEFINE s    == D.alarms
           A    == IngestOne(D, rd).alarms
           rows == RecoverOthers(s, rd.det, rd.status)
           n    == Len(s) + 1
<1>1. CASE Ignored(rd)
  BY <1>1 DEF IngestOne, Continues
<1>2. CASE ~ Ignored(rd)
  <2>1. s \in Seq(Row) /\ Len(s) \in Nat /\ DOMAIN s = 1..Len(s)
    BY LenProperties DEF Tables
  <2>2. rows \in Seq(Row) /\ Len(rows) = Len(s) /\ Continues(s, rows)
    BY <2>1, RecoverRows DEF Continues
  <2>3. ~ Opens(rows, rd) => A = rows
    BY <1>2, IngestEffect
  <2>4. Opens(rows, rd) => A[n] \in Row /\ A = Append(rows, A[n])
    BY <1>2, IngestEffect
  <2> HIDE DEF A, rows
  <2>5. CASE Opens(rows, rd)
    <3>1. PICK x \in Row : A = Append(rows, x)
      BY <2>4, <2>5
    <3>2. Len(A) = n /\ A \in Seq(Row) /\ \A i \in 1..Len(s) : A[i] = rows[i]
      BY <2>2, <3>1, AppendProperties
    <3>3. DOMAIN A = 1..n
      BY <3>2, LenProperties
    <3>4. Continues(s, A)
      BY <2>1, <2>2, <3>2, <3>3 DEF Continues
    <3>5. QED
      BY <3>4 DEF A
  <2>6. QED
    BY <2>2, <2>3, <2>5 DEF A
<1>3. QED
  BY <1>1, <1>2

\* Deleting rows that have triggered nothing keeps the tables consistent: the
\* rows that stand for a triggered rule are not among them.
LEMMA DeleteConsistent ==
    ASSUME TypeOK, Consistent(db), NEW S, DeleteRows(S)
    PROVE  db' \in Tables /\ Consistent(db') /\ Continues(db.alarms, db'.alarms)
<1> DEFINE s == db.alarms
           t == [i \in DOMAIN s |-> IF i \in S THEN [s[i] EXCEPT !.status = "deleted"]
                                    ELSE s[i]]
<1>1. db \in Tables
  BY DEF TypeOK
<1>2. s \in Seq(Row) /\ \A i \in DOMAIN s : s[i] \in Row
  BY <1>1, LenProperties, ElementOfSeq DEF Tables
<1>3. db' = [db EXCEPT !.alarms = t]
  BY DEF DeleteRows
<1>4. \A i \in DOMAIN s : /\ t[i] \in Row
                          /\ t[i].det = s[i].det /\ t[i].type = s[i].type
                          /\ t[i].fired = s[i].fired
                          /\ t[i].status = "active" => s[i].status = "active"
                          /\ s[i].status = "deleted" => t[i].status = "deleted"
                          /\ s[i].fired # Silence => t[i].status = s[i].status
  BY <1>2 DEF Row, DeleteRows, Deletable
<1>5. t = [i \in DOMAIN s |-> t[i]]
  OBVIOUS
<1> HIDE DEF t
<1>6. t \in Seq(Row) /\ DOMAIN t = DOMAIN s
  BY <1>2, <1>4, <1>5, MapRows
<1>7. db'.alarms = t /\ db'.cond = db.cond /\ db'.episode = db.episode
      /\ db' \in Tables
  BY <1>1, <1>3, <1>6 DEF Tables
<1>8. OneActiveIn(db') /\ CurrentIn(db') /\ OnceIn(db')
  BY <1>4, <1>6, <1>7 DEF Consistent, OneActiveIn, CurrentIn, OnceIn, ActiveRow
<1>9. WitnessIn(db')
  <2> SUFFICES ASSUME NEW d \in Detectors, NEW r \in RuleIds, db.episode[d][r] # 0
               PROVE  \E i \in DOMAIN t : /\ t[i].status = "active" /\ t[i].det = d
                                          /\ t[i].fired[r] # 0
    BY <1>7 DEF WitnessIn, ActiveRow
  <2>1. PICK i \in DOMAIN s : s[i].status = "active" /\ s[i].det = d /\ s[i].fired[r] # 0
    BY DEF Consistent, WitnessIn, ActiveRow
  <2>2. s[i].fired # Silence
    BY <2>1 DEF Silence
  <2>3. QED
    BY <1>4, <1>6, <2>1, <2>2
<1>10. Continues(s, t)
  BY <1>4, <1>6 DEF Continues
<1>11. QED
  BY <1>7, <1>8, <1>9, <1>10 DEF Consistent
-----------------------------------------------------------------------------
\* The empty tables are consistent.
LEMMA InitInv == Init => IInv
<1> SUFFICES ASSUME Init PROVE IInv
  OBVIOUS
<1>1. db \in Tables
  <2>1. <<>> \in Seq(Row)
    BY EmptySeq
  <2>2. Silence \in [RuleIds -> Nat]
    BY DEF Silence
  <2>3. QED
    BY <2>1, <2>2 DEF Init, Tables
<1>2. TypeOK
  BY <1>1 DEF Init, TypeOK
<1>3. Consistent(db)
  BY DEF Init, Consistent, OneActiveIn, CurrentIn, OnceIn, WitnessIn, ActiveRow, Silence
<1>4. QED
  BY <1>2, <1>3 DEF Init, IInv

\* The administrator's operations on rules, objects and detectors touch
\* neither the tables nor the open transaction.
LEMMA ConfigureInv ==
    ASSUME IInv, Configure
    PROVE  IInv'
<1>1. db' = db /\ txn' = txn
  BY DEF Configure, SaveObject, DeleteObject, ManualControl, SaveRule, DeleteRule,
         DeleteDetector
<1>2. TypeOK'
  <2> USE <1>1 DEF IInv, TypeOK
  <2>1. ASSUME NEW o \in ObjectIds, NEW e \in BOOLEAN, SaveObject(o, e) PROVE TypeOK'
    BY <2>1 DEF SaveObject
  <2>2. ASSUME NEW o \in ObjectIds, DeleteObject(o) PROVE TypeOK'
    BY <2>2 DEF DeleteObject
  <2>3. ASSUME NEW o \in ObjectIds, ManualControl(o) PROVE TypeOK'
    BY <2>3 DEF ManualControl
  <2>4. ASSUME NEW r \in RuleIds, NEW x \in RuleShapes, SaveRule(r, x) PROVE TypeOK'
    BY <2>4 DEF SaveRule
  <2>5. ASSUME NEW r \in RuleIds, DeleteRule(r) PROVE TypeOK'
    BY <2>5 DEF DeleteRule
  <2>6. ASSUME NEW d \in Detectors, DeleteDetector(d) PROVE TypeOK'
    BY <2>6 DEF DeleteDetector
  <2>7. QED
    BY <2>1, <2>2, <2>3, <2>4, <2>5, <2>6 DEF Configure
<1>3. QED
  BY <1>1, <1>2 DEF IInv, Consistent, OneActiveIn, CurrentIn, OnceIn, WitnessIn,
                       ActiveRow, Continues, Silence

\* Deleting records, in either form, is DeleteRows of some set.
LEMMA RecordsDelete ==
    ASSUME Records
    PROVE  \E S : DeleteRows(S)
<1>1. ASSUME NEW i \in 1..MaxAlarms, DeleteRecord(i) PROVE \E S : DeleteRows(S)
  BY <1>1 DEF DeleteRecord
<1>2. ASSUME NEW d, NEW s, NEW w, ClearRecords(d, s, w) PROVE \E S : DeleteRows(S)
  BY <1>2 DEF ClearRecords
<1>3. QED
  BY <1>1, <1>2 DEF Records

\* Every step keeps the tables, committed and pending, consistent.
LEMMA NextInv == IInv /\ [Next]_vars => IInv'
<1> SUFFICES ASSUME IInv, [Next]_vars PROVE IInv'
  OBVIOUS
<1> USE DEF IInv
<1>1. ASSUME NEW b \in Batches, BeginIngest(b) PROVE IInv'
  <2>1. b \in Seq(Reading)
    BY DEF Batches
  <2>2. txn' \in Txns /\ txn'.work = db /\ db' = db
    BY <1>1, <2>1 DEF BeginIngest, Txns, TypeOK
  <2>3. TypeOK'
    BY <1>1, <2>2 DEF BeginIngest, TypeOK, config
  <2>4. Continues(db.alarms, db.alarms)
    BY DEF Continues
  <2>5. QED
    BY <2>2, <2>3, <2>4 DEF Continues, Silence
<1>2. ASSUME IngestReading PROVE IInv'
  <2>1. txn \in Txns /\ txn # NoTxn /\ txn.done < Len(txn.batch)
    BY <1>2 DEF IngestReading, TypeOK
  <2>2. txn.work \in Tables /\ txn.batch \in Seq(Reading) /\ txn.done \in Nat
    BY <2>1 DEF Txns
  <2> DEFINE rd == txn.batch[txn.done + 1]
             W  == IngestOne(txn.work, rd)
  <2>3. rd \in Reading
    BY <2>1, <2>2, LenProperties, ElementOfSeq
  <2>4. W \in Tables /\ Consistent(W)
    BY <1>2, <2>2, <2>3, IngestConsistent DEF IngestReading
  <2>5. txn' = [txn EXCEPT !.done = @ + 1, !.work = W] /\ db' = db
    BY <1>2 DEF IngestReading
  <2> HIDE DEF W, rd
  <2>6. txn' \in Txns /\ txn'.work = W
    <3>1. txn' = [batch |-> txn.batch, done |-> txn.done + 1, work |-> W]
      BY <2>1, <2>5 DEF Txns
    <3>2. QED
      BY <2>2, <2>4, <3>1 DEF Txns
  <2>7. TypeOK'
    BY <1>2, <2>5, <2>6 DEF IngestReading, TypeOK, config
  <2>8. Continues(txn.work.alarms, W.alarms)
    BY <2>2, <2>3, IngestContinues DEF W
  <2>9. \A i \in DOMAIN txn.work.alarms : txn.work.alarms[i] \in Row
    BY <2>2, LenProperties, ElementOfSeq DEF Tables
  <2>10. Continues(db.alarms, W.alarms)
    BY <1>2, <2>8, <2>9, ContinuesTrans DEF IngestReading
  <2>11. QED
    BY <2>4, <2>5, <2>6, <2>7, <2>10
<1>3. ASSUME CommitIngest PROVE IInv'
  <2>1. db' = txn.work /\ txn' = NoTxn /\ Consistent(txn.work)
    BY <1>3 DEF CommitIngest, ReadyToCommit
  <2>2. txn.work \in Tables
    BY <1>3 DEF CommitIngest, ReadyToCommit, TypeOK, Txns
  <2>3. TypeOK'
    BY <1>3, <2>1, <2>2 DEF CommitIngest, TypeOK, config
  <2>4. QED
    BY <2>1, <2>3
<1>4. ASSUME RollbackIngest PROVE IInv'
  BY <1>4 DEF RollbackIngest, TypeOK, config
<1>5. ASSUME Records PROVE IInv'
  <2>1. PICK S : DeleteRows(S)
    BY <1>5, RecordsDelete
  <2>2. db' \in Tables /\ Consistent(db')
    BY <2>1, DeleteConsistent
  <2>3. txn' = NoTxn /\ config' = config
    BY <2>1 DEF DeleteRows
  <2>4. TypeOK'
    BY <2>2, <2>3 DEF TypeOK, config
  <2>5. QED
    BY <2>2, <2>3, <2>4
<1>6. ASSUME Configure PROVE IInv'
  BY <1>6, ConfigureInv
<1>7. ASSUME UNCHANGED vars PROVE IInv'
  BY <1>7 DEF vars, TypeOK, Consistent, OneActiveIn, CurrentIn, OnceIn, WitnessIn,
              ActiveRow, Continues, Silence
<1>8. QED
  BY <1>1, <1>2, <1>3, <1>4, <1>5, <1>6, <1>7 DEF Next, Ingest

\* IInv is an invariant of the specification.
THEOREM Invariance == Spec => []IInv
  BY InitInv, NextInv, PTL DEF Spec

\* Type correctness: tables, transaction and configuration keep their kinds.
THEOREM TypeCorrect == Spec => []TypeOK
<1>1. IInv => TypeOK
  BY DEF IInv
<1>2. QED
  BY <1>1, Invariance, PTL

\* A detector never has two active alarm rows (alarm_service.py:51-101).
THEOREM OneActiveHolds == Spec => []OneActive
<1>1. IInv => OneActive
  BY DEF IInv, OneActive, Consistent, OneActiveIn, ActiveRow
<1>2. QED
  BY <1>1, Invariance, PTL

\* An active alarm row always names its detector's last reported condition.
THEOREM ActiveIsCurrentHolds == Spec => []ActiveIsCurrent
<1>1. IInv => ActiveIsCurrent
  BY DEF IInv, ActiveIsCurrent, Consistent, CurrentIn, ActiveRow
<1>2. QED
  BY <1>1, Invariance, PTL

\* No rule is triggered twice in one alarm period of a detector, whatever the
\* administrator deletes or edits meanwhile.
THEOREM LinkageOnceHolds == Spec => []LinkageOncePerPeriod
<1>1. IInv => LinkageOncePerPeriod
  BY DEF IInv, LinkageOncePerPeriod, Consistent, OnceIn
<1>2. QED
  BY <1>1, Invariance, PTL

\* The committed alarm rows are never re-opened, relabelled or erased after
\* they triggered linkage, in one transaction or in any number of them.
THEOREM HistoryKeptHolds == Spec => HistoryKept
<1>1. IInv /\ [Next]_vars => [Continues(db.alarms, db'.alarms)]_db
  <2> SUFFICES ASSUME IInv, [Next]_vars, db' # db
               PROVE  Continues(db.alarms, db'.alarms)
    OBVIOUS
  <2>1. CASE CommitIngest
    BY <2>1 DEF CommitIngest, ReadyToCommit, IInv
  <2>2. CASE Records
    BY <2>2, RecordsDelete, DeleteConsistent DEF IInv
  <2>3. QED
    BY <2>1, <2>2 DEF Next, Ingest, Configure, BeginIngest, IngestReading,
       RollbackIngest, SaveObject, DeleteObject, ManualControl, SaveRule, DeleteRule,
       DeleteDetector, vars
<1>2. QED
  BY <1>1, Invariance, PTL DEF Spec, HistoryKept

\* The active rows tell what the detectors last said: the parts together.
THEOREM AlarmsTellConditionsAlways == Spec => []AlarmsTellConditions
  BY TypeCorrect, OneActiveHolds, ActiveIsCurrentHolds, PTL DEF AlarmsTellConditions
-----------------------------------------------------------------------------
(* The refinement of AlarmPeriods.                                         *)

\* The type of an active row is what the tables say of its detector.
LEMMA ActiveRowTells ==
    ASSUME NEW D \in Tables, Consistent(D), NEW i \in DOMAIN D.alarms,
           D.alarms[i].status = "active"
    PROVE  TypeIn(D, D.alarms[i].det) = D.alarms[i].type
<1> DEFINE d == D.alarms[i].det
           Of(j) == D.alarms[j].status = "active" /\ D.alarms[j].det = d
           c == CHOOSE j \in DOMAIN D.alarms : Of(j)
<1>1. c \in DOMAIN D.alarms /\ Of(c)
  OBVIOUS
<1>2. c = i
  BY <1>1 DEF Consistent, OneActiveIn, ActiveRow
<1>3. TypeIn(D, d) = D.alarms[c].type
  BY DEF TypeIn
<1>4. QED
  BY <1>2, <1>3

\* Without an active row they say that it is normal.
LEMMA NoRowTells ==
    ASSUME NEW D, NEW d,
           \A i \in DOMAIN D.alarms : ~ (D.alarms[i].status = "active" /\ D.alarms[i].det = d)
    PROVE  TypeIn(D, d) = Normal
  BY DEF TypeIn

\* A meaningful reading decides what the tables say of its detector, and leaves
\* alone what they say of the others.
LEMMA IngestTells ==
    ASSUME NEW D \in Tables, NEW rd \in Reading, Consistent(D), NEW d \in Detectors
    PROVE  TypeIn(IngestOne(D, rd), d) =
              IF rd.det = d /\ rd.status # Invalid THEN rd.status ELSE TypeIn(D, d)
<1> DEFINE s    == D.alarms
           E    == IngestOne(D, rd)
           A    == E.alarms
           rows == RecoverOthers(s, rd.det, rd.status)
           new  == Opens(rows, rd)
           n    == Len(s) + 1
<1>1. CASE Ignored(rd)
  BY <1>1 DEF IngestOne, Ignored
<1>2. CASE ~ Ignored(rd)
  <2>1. s \in Seq(Row) /\ Len(s) \in Nat /\ DOMAIN s = 1..Len(s)
    BY LenProperties DEF Tables
  <2>2. /\ rows \in Seq(Row) /\ Len(rows) = Len(s) /\ DOMAIN rows = DOMAIN s
        /\ \A i \in DOMAIN s :
             /\ rows[i].det = s[i].det /\ rows[i].type = s[i].type
             /\ rows[i].status = "active" <=>
                  s[i].status = "active" /\ (s[i].det # rd.det \/ s[i].type = rd.status)
    BY <2>1, RecoverRows
  <2>3. ~ new => A = rows
    BY <1>2, IngestEffect
  <2>4. new => /\ A = Append(rows, A[n]) /\ A[n] \in Row /\ A[n].status = "active"
               /\ A[n].det = rd.det /\ A[n].type = rd.status
    BY <1>2, IngestEffect
  <2>5. E \in Tables /\ Consistent(E)
    BY IngestConsistent
  <2>6. new <=> /\ rd.status \in AlarmTypes
                /\ \A i \in DOMAIN s : ~ (s[i].status = "active" /\ s[i].det = rd.det
                                             /\ s[i].type = rd.status)
    BY <2>2 DEF Opens, HasActive, IsActive
  <2>7. rd.status # Invalid /\ (rd.status \in AlarmTypes \/ rd.status = Normal)
    BY <1>2 DEF Ignored, Reading, Statuses
  <2>8. \A i \in DOMAIN s : s[i].type # Normal
    <3>1. \A i \in DOMAIN s : s[i] \in Row
      BY <2>1, ElementOfSeq
    <3>2. QED
      BY <3>1, ConstantsAssumption DEF Row
  <2> HIDE DEF rows, new, E
  <2>9. /\ DOMAIN s \subseteq DOMAIN A
        /\ \A i \in DOMAIN s : A[i] = rows[i]
        /\ \A i \in DOMAIN A : i \in DOMAIN s \/ (new /\ i = n)
        /\ new => n \in DOMAIN A
    <3>1. CASE new
      <4>1. PICK x \in Row : A = Append(rows, x)
        BY <2>4, <3>1
      <4>2. Len(A) = n /\ A \in Seq(Row) /\ \A i \in 1..Len(s) : A[i] = rows[i]
        BY <2>1, <2>2, <4>1, AppendProperties
      <4>3. DOMAIN A = 1..n
        BY <4>2, LenProperties
      <4>4. QED
        BY <2>1, <3>1, <4>2, <4>3
    <3>2. CASE ~ new
      BY <2>2, <2>3, <3>2
    <3>3. QED
      BY <3>1, <3>2
  <2>10. CASE rd.det = d
    <3>1. CASE new
      BY <2>4, <2>5, <2>7, <2>9, <2>10, <3>1, ActiveRowTells DEF E
    <3>2. CASE ~ new /\ rd.status \in AlarmTypes
      <4>1. PICK i \in DOMAIN s : s[i].status = "active" /\ s[i].det = rd.det
                                  /\ s[i].type = rd.status
        BY <2>6, <3>2
      <4>2. i \in DOMAIN A /\ A[i].status = "active" /\ A[i].det = d
            /\ A[i].type = rd.status
        BY <2>2, <2>9, <2>10, <4>1
      <4>3. TypeIn(E, d) = rd.status
        BY <2>5, <4>2, ActiveRowTells
      <4>4. QED
        BY <2>7, <2>10, <4>3 DEF E
    <3>3. CASE rd.status = Normal
      <4>1. ~ new
        BY <2>6, <3>3, ConstantsAssumption
      <4>2. \A i \in DOMAIN A : ~ (A[i].status = "active" /\ A[i].det = d)
        BY <2>2, <2>8, <2>9, <2>10, <3>3, <4>1
      <4>3. TypeIn(E, d) = Normal
        BY <4>2, NoRowTells
      <4>4. QED
        BY <2>7, <2>10, <3>3, <4>3 DEF E
    <3>4. QED
      BY <2>7, <3>1, <3>2, <3>3
  <2>11. CASE rd.det # d
    <3>1. CASE \E i \in DOMAIN s : s[i].status = "active" /\ s[i].det = d
      <4>1. PICK i \in DOMAIN s : s[i].status = "active" /\ s[i].det = d
        BY <3>1
      <4>2. i \in DOMAIN A /\ A[i].status = "active" /\ A[i].det = d
            /\ A[i].type = s[i].type
        BY <2>2, <2>9, <2>11, <4>1
      <4>3. TypeIn(E, d) = s[i].type
        BY <2>5, <4>2, ActiveRowTells
      <4>4. TypeIn(D, d) = s[i].type
        BY <4>1, ActiveRowTells
      <4>5. QED
        BY <2>11, <4>3, <4>4 DEF E
    <3>2. CASE \A i \in DOMAIN s : ~ (s[i].status = "active" /\ s[i].det = d)
      <4>1. \A i \in DOMAIN A : ~ (A[i].status = "active" /\ A[i].det = d)
        BY <2>2, <2>4, <2>9, <2>11, <3>2
      <4>2. TypeIn(E, d) = Normal /\ TypeIn(D, d) = Normal
        BY <3>2, <4>1, NoRowTells
      <4>3. QED
        BY <2>11, <4>2 DEF E
    <3>3. QED
      BY <3>1, <3>2
  <2>12. QED
    BY <2>10, <2>11
<1>3. QED
  BY <1>1, <1>2

\* Erasing rows changes what the tables say of a detector to normal or not at all.
LEMMA DeleteTells ==
    ASSUME IInv, NEW S, DeleteRows(S), NEW d \in Detectors
    PROVE  ActiveType(d)' \in {Normal, ActiveType(d)}
<1> DEFINE s == db.alarms
           t == db'.alarms
<1>1. db \in Tables /\ Consistent(db) /\ db' \in Tables /\ Consistent(db')
  BY DeleteConsistent DEF IInv, TypeOK
<1>2. DOMAIN t = DOMAIN s /\ \A i \in DOMAIN s :
        t[i].status = "active" => /\ s[i].status = "active"
                                  /\ t[i].det = s[i].det /\ t[i].type = s[i].type
  <2>1. \A i \in DOMAIN s : s[i] \in Row
    BY <1>1, LenProperties, ElementOfSeq DEF Tables
  <2>2. t = [i \in DOMAIN s |-> IF i \in S THEN [s[i] EXCEPT !.status = "deleted"] ELSE s[i]]
    BY <1>1 DEF DeleteRows, Tables
  <2>3. QED
    BY <2>1, <2>2 DEF Row
<1>3. ActiveType(d) = TypeIn(db, d) /\ ActiveType(d)' = TypeIn(db', d)
  BY DEF ActiveType, TypeIn
<1>4. CASE \E i \in DOMAIN t : t[i].status = "active" /\ t[i].det = d
  <2>1. PICK i \in DOMAIN t : t[i].status = "active" /\ t[i].det = d
    BY <1>4
  <2>2. TypeIn(db', d) = t[i].type
    BY <1>1, <2>1, ActiveRowTells
  <2>3. TypeIn(db, d) = s[i].type
    BY <1>1, <1>2, <2>1, ActiveRowTells
  <2>4. QED
    BY <1>2, <1>3, <2>1, <2>2, <2>3
<1>5. CASE \A i \in DOMAIN t : ~ (t[i].status = "active" /\ t[i].det = d)
  BY <1>3, <1>5, NoRowTells
<1>6. QED
  BY <1>4, <1>5

\* One reading more is taken in.
LEMMA ReadingTakenIn ==
    ASSUME IInv, TakenIn, IngestReading
    PROVE  TakenIn'
<1> DEFINE b == txn.batch
           k == txn.done + 1
           rd == b[k]
           W == IngestOne(txn.work, rd)
<1>1. txn \in Txns /\ txn # NoTxn /\ txn.done < Len(b) /\ Consistent(txn.work)
  BY DEF IngestReading, IInv, TypeOK
<1>2. txn.work \in Tables /\ b \in Seq(Reading) /\ txn.done \in Nat /\ Len(b) \in Nat
  BY <1>1, LenProperties DEF Txns
<1>3. rd \in Reading
  BY <1>1, <1>2, LenProperties, ElementOfSeq
<1>4. txn'.batch = b /\ txn'.done = k /\ txn'.work = W /\ db' = db /\ b \in Batches
  BY <1>1 DEF IngestReading, Txns, TakenIn
<1>5. \A d \in Detectors :
        TypeIn(W, d) = IF TellsOf(b, k, d) THEN b[k].status ELSE TypeIn(txn.work, d)
  BY <1>1, <1>2, <1>3, IngestTells DEF TellsOf
<1> HIDE DEF W, rd
<1>6. k <= Len(b) /\ 1..k = (1..txn.done) \union {k}
  BY <1>1, <1>2
<1>7. ASSUME NEW d \in Detectors
      PROVE  \/ \E i \in 1..k :
                   /\ TellsOf(b, i, d)
                   /\ \A j \in 1..k : TellsOf(b, j, d) => j <= i
                   /\ TypeIn(W, d) = b[i].status
             \/ /\ \A j \in 1..k : ~ TellsOf(b, j, d)
                /\ TypeIn(W, d) = TypeIn(db, d)
  <2>1. CASE TellsOf(b, k, d)
    <3>1. k \in 1..k /\ \A j \in 1..k : j <= k
      BY <1>2
    <3>2. QED
      BY <1>5, <2>1, <3>1
  <2>2. CASE ~ TellsOf(b, k, d)
    <3>1. TypeIn(W, d) = TypeIn(txn.work, d)
      BY <1>5, <2>2
    <3>2. CASE \E i \in 1..txn.done :
                  /\ TellsOf(b, i, d)
                  /\ \A j \in 1..txn.done : TellsOf(b, j, d) => j <= i
                  /\ TypeIn(txn.work, d) = b[i].status
      BY <1>6, <2>2, <3>1, <3>2
    <3>3. CASE /\ \A j \in 1..txn.done : ~ TellsOf(b, j, d)
               /\ TypeIn(txn.work, d) = TypeIn(db, d)
      BY <1>6, <2>2, <3>1, <3>3
    <3>4. QED
      BY <1>1, <3>2, <3>3 DEF TakenIn
  <2>3. QED
    BY <2>1, <2>2
<1>8. QED
  BY <1>4, <1>6, <1>7 DEF TakenIn

\* Every step keeps TakenIn.
LEMMA NextTakenIn == IInv /\ TakenIn /\ [Next]_vars => TakenIn'
<1> SUFFICES ASSUME IInv, TakenIn, [Next]_vars PROVE TakenIn'
  OBVIOUS
<1>1. ASSUME NEW b \in Batches, BeginIngest(b) PROVE TakenIn'
  <2>1. b \in Seq(Reading)
    BY DEF Batches
  <2>2. txn'.batch = b /\ b \in Batches /\ txn'.done = 0 /\ txn'.work = db /\ db' = db
    BY <1>1 DEF BeginIngest
  <2>3. 0 <= Len(b) /\ 1..0 = {}
    BY <2>1, LenProperties
  <2>4. QED
    BY <2>2, <2>3 DEF TakenIn
<1>2. ASSUME IngestReading PROVE TakenIn'
  BY <1>2, ReadingTakenIn
<1>3. ASSUME txn' = NoTxn PROVE TakenIn'
  BY <1>3 DEF TakenIn
<1>4. ASSUME Records PROVE TakenIn'
  BY <1>3, <1>4, RecordsDelete DEF DeleteRows
<1>5. ASSUME db' = db, txn' = txn PROVE TakenIn'
  BY <1>5 DEF TakenIn
<1>6. ASSUME Configure PROVE TakenIn'
  BY <1>5, <1>6 DEF Configure, SaveObject, DeleteObject, ManualControl, SaveRule,
                    DeleteRule, DeleteDetector
<1>7. QED
  BY <1>1, <1>2, <1>3, <1>4, <1>5, <1>6 DEF Next, Ingest, CommitIngest, RollbackIngest, vars

\* What a committed batch makes of the active types is what AlarmPeriods says.
LEMMA CommitAccepts ==
    ASSUME IInv, TakenIn, CommitIngest
    PROVE  Periods!Accept
<1> DEFINE b == txn.batch
<1>1. txn \in Txns /\ txn # NoTxn /\ txn.done = Len(b) /\ Consistent(txn.work)
  BY DEF CommitIngest, ReadyToCommit, IInv, TypeOK
<1>2. b \in Seq(Reading) /\ Len(b) \in Nat /\ DOMAIN b = 1..Len(b)
  BY <1>1, LenProperties DEF Txns
<1>3. db' = txn.work /\ txn' = NoTxn
  BY DEF CommitIngest
<1>4. ASSUME NEW d \in Detectors
      PROVE  ActiveType(d)' = Periods!After(b, d)
  <2>1. Periods!Telling(b, d) = {i \in 1..Len(b) : TellsOf(b, i, d)}
    BY <1>2 DEF Periods!Telling, TellsOf
  <2>2. ActiveType(d)' = TypeIn(txn.work, d) /\ ActiveType(d) = TypeIn(db, d)
    BY <1>3 DEF ActiveType, TypeIn
  <2>3. CASE \E i \in 1..Len(b) :
               /\ TellsOf(b, i, d)
               /\ \A j \in 1..Len(b) : TellsOf(b, j, d) => j <= i
               /\ TypeIn(txn.work, d) = b[i].status
    <3>1. PICK i \in Periods!Telling(b, d) :
               /\ \A j \in Periods!Telling(b, d) : j <= i
               /\ TypeIn(txn.work, d) = b[i].status
      BY <2>1, <2>3
    <3> DEFINE c == CHOOSE x \in Periods!Telling(b, d) : \A j \in Periods!Telling(b, d) : j <= x
    <3>2. c \in Periods!Telling(b, d) /\ \A j \in Periods!Telling(b, d) : j <= c
      BY <3>1
    <3>3. c = i
      BY <2>1, <3>1, <3>2, <1>2
    <3>4. Periods!After(b, d) = b[c].status
      BY <3>1 DEF Periods!After
    <3>5. QED
      BY <2>2, <3>1, <3>3, <3>4
  <2>4. CASE /\ \A j \in 1..Len(b) : ~ TellsOf(b, j, d)
             /\ TypeIn(txn.work, d) = TypeIn(db, d)
    <3>1. Periods!Telling(b, d) = {}
      BY <2>1, <2>4
    <3>2. QED
      BY <2>2, <2>4, <3>1 DEF Periods!After
  <2>5. QED
    BY <1>1, <2>3, <2>4 DEF TakenIn
<1>5. b # NoTxn
  BY <1>1, NoTxnAssumption DEF TakenIn
<1>6. QED
  BY <1>1, <1>3, <1>4, <1>5 DEF Periods!Accept

\* Every step of ingestion is a step of AlarmPeriods, or changes nothing it sees.
LEMMA StepRefines ==
    ASSUME IInv, TakenIn, [Next]_vars
    PROVE  [Periods!Next]_(Periods!vars)
<1> DEFINE current == [d \in Detectors |-> ActiveType(d)]
           pending == IF txn = NoTxn THEN NoTxn ELSE txn.batch
<1>1. UNCHANGED <<current, pending>> => UNCHANGED Periods!vars
  BY DEF Periods!vars
<1>2. ASSUME NEW b \in Batches, BeginIngest(b) PROVE Periods!Submit
  <2>1. txn = NoTxn /\ txn' # NoTxn /\ txn'.batch = b /\ db' = db
    <3>1. txn' \in Txns
      <4>1. b \in Seq(Reading)
        BY DEF Batches
      <4>2. QED
        BY <1>2, <4>1 DEF BeginIngest, Txns, IInv, TypeOK
    <3>2. QED
      BY <1>2, <3>1, NoTxnAssumption DEF BeginIngest
  <2>2. current' = current
    BY <2>1 DEF ActiveType, TypeIn
  <2>3. QED
    BY <2>1, <2>2 DEF Periods!Submit
<1>3. ASSUME IngestReading PROVE UNCHANGED <<current, pending>>
  <2>1. txn \in Txns /\ txn # NoTxn
    BY <1>3 DEF IngestReading, IInv, TypeOK
  <2>2. db' = db /\ txn'.batch = txn.batch
    BY <1>3, <2>1 DEF IngestReading, Txns
  <2>3. txn' # NoTxn
    <3>1. IInv'
      BY NextInv
    <3>2. txn'.batch \in Batches /\ txn.batch # NoTxn
      BY <2>1, <2>2, NoTxnAssumption DEF TakenIn
    <3>3. txn' = [batch |-> txn.batch, done |-> txn'.done, work |-> txn'.work]
      BY <1>3, <2>1 DEF IngestReading, Txns
    <3>4. txn'.done \in Nat /\ txn'.work \in Tables
      <4>1. txn.done \in Nat /\ txn.work \in Tables /\ Consistent(txn.work)
            /\ txn.batch[txn.done + 1] \in Reading
        <5>1. txn.batch \in Seq(Reading) /\ txn.done \in Nat /\ txn.work \in Tables
          BY <2>1 DEF Txns
        <5>2. QED
          BY <1>3, <2>1, <5>1, LenProperties, ElementOfSeq DEF IngestReading, IInv
      <4>2. QED
        BY <1>3, <2>1, <4>1, IngestConsistent DEF IngestReading, Txns
    <3>5. txn' \in Txns
      BY <2>1, <3>3, <3>4 DEF Txns
    <3>6. QED
      BY <3>5, NoTxnAssumption
  <2>4. current' = current
    BY <2>2 DEF ActiveType, TypeIn
  <2>5. QED
    BY <2>1, <2>2, <2>3, <2>4
<1>4. ASSUME CommitIngest PROVE Periods!Accept
  BY <1>4, CommitAccepts
<1>5. ASSUME RollbackIngest PROVE Periods!Abandon
  <2>1. txn # NoTxn /\ txn' = NoTxn /\ db' = db
    BY <1>5 DEF RollbackIngest
  <2>2. txn.batch # NoTxn
    BY <2>1, NoTxnAssumption DEF TakenIn
  <2>3. current' = current
    BY <2>1 DEF ActiveType, TypeIn
  <2>4. QED
    BY <2>1, <2>2, <2>3 DEF Periods!Abandon
<1>6. ASSUME Records PROVE Periods!Erase
  <2>1. PICK S : DeleteRows(S)
    BY <1>6, RecordsDelete
  <2>2. txn = NoTxn /\ txn' = NoTxn
    BY <2>1 DEF DeleteRows
  <2> DEFINE D == {d \in Detectors : ActiveType(d)' = Normal}
  <2>3. \A d \in Detectors : ActiveType(d)' = IF d \in D THEN Normal ELSE ActiveType(d)
    BY <2>1, DeleteTells
  <2>4. current' = [d \in Detectors |-> IF d \in D THEN Normal ELSE current[d]]
    BY <2>3
  <2>5. D \in SUBSET Detectors
    OBVIOUS
  <2> HIDE DEF D
  <2>6. QED
    BY <2>2, <2>4, <2>5 DEF Periods!Erase
<1>7. ASSUME db' = db, txn' = txn PROVE UNCHANGED <<current, pending>>
  BY <1>7 DEF ActiveType, TypeIn
<1>8. ASSUME Configure PROVE UNCHANGED <<current, pending>>
  BY <1>7, <1>8 DEF Configure, SaveObject, DeleteObject, ManualControl, SaveRule,
                    DeleteRule, DeleteDetector
<1>9. CASE UNCHANGED vars
  BY <1>1, <1>7, <1>9 DEF vars
<1> HIDE DEF current, pending
<1>10. CASE Next
  <2>1. CASE Ingest
    BY <1>1, <1>2, <1>3, <1>4, <1>5, <2>1, Zenon DEF Ingest, Periods!Next
  <2>2. QED
    BY <1>1, <1>6, <1>8, <1>10, <2>1, Zenon DEF Next, Periods!Next
<1>11. QED
  BY <1>1, <1>9, <1>10

\* The alarm table implements the view with one condition per detector: whatever is
\* read, deleted and configured, a batch is taken in as a whole or not at all, and
\* its last meaningful reading of a detector decides (alarm_service.py:51-101).
THEOREM PeriodsImplemented == Spec => ImplementsPeriods
<1>1. Init => Periods!Init
  BY DEF Init, Periods!Init, ActiveType, TypeIn
<1>2. Init => TakenIn
  BY DEF Init, TakenIn
<1>3. Spec => []TakenIn
  BY <1>2, NextTakenIn, Invariance, PTL DEF Spec
<1>4. QED
  BY <1>1, <1>3, StepRefines, Invariance, PTL DEF Spec, ImplementsPeriods, Periods!Spec
=============================================================================
