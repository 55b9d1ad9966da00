------------------------ MODULE StateApprovalProofs -------------------------
(* Theorems about StateApproval for any number of clients, experts, texts,  *)
(* versions and proposals, and then about StatePatch: what an approval does *)
(* to a file, for files and answers of any length.                          *)
EXTENDS MCProposals, FiniteSetTheorems, SequenceTheorems, WellFoundedInduction, TLAPS

USE DEF files

\* The values Init starts from are of their types.
LEMMA BlankTypes == Blank \in Document /\ NoRecords \in Records /\ NoEdit \in Edit
BY ConstantsAssumption DEF Blank, NoRecords, NoEdit, Document, Records, Versions, Edit, Kinds

\* A document with another body or with one more record is a document.
LEMMA DocumentTypes ==
    ASSUME NEW d \in Document, NEW e \in Document, NEW a \in Agents,
           NEW v \in Versions, NEW text \in Texts, NEW empty \in BOOLEAN
    PROVE  /\ Preserve(d, e) \in Document
           /\ Record(d, a, v) \in Document
           /\ Proposed(d, a, v, text, empty) \in Document
BY DEF Preserve, Record, Proposed, Document, Records

\* What Init establishes and every step keeps: the types of all variables.
LEMMA TypeInit == Init => TypeOK
BY BlankTypes, ConstantsAssumption
   DEF Init, TypeOK, Threads, Kinds, Steps, Records

\* Every step keeps the types; the author of a proposal is an expert by EditInv.
LEMMA TypeNext == TypeOK /\ EditInv /\ ProposalInv /\ [Next]_vars => TypeOK'
<1> SUFFICES ASSUME TypeOK, EditInv, ProposalInv, [Next]_vars PROVE TypeOK'
    OBVIOUS
<1> USE DEF TypeOK, Threads, Steps, Finish, Rest, Goto, Acquire
<1>1. ASSUME NEW r \in Requests, Begin(r) PROVE TypeOK'
  <2>1. ASSUME NEW k \in Kinds, ReadDocument(r, k) PROVE TypeOK'
    BY <2>1 DEF ReadDocument
  <2>2. ASSUME NEW text \in Texts, NEW records \in Records,
               SaveDocument(r, text, records)
        PROVE  TypeOK'
    BY <2>2, BlankTypes DEF SaveDocument, Edit, Document
  <2>3. ASSUME NEW a \in Agents, ProposeState(r, a) PROVE TypeOK'
    BY <2>3, BlankTypes, NoneAssumption, ConstantsAssumption
       DEF ProposeState, Edit, PendingIds, ProposalInv
  <2>4. ASSUME NEW id \in 1..issued, ApplyState(r, id) \/ DiscardState(r, id)
        PROVE  TypeOK'
    BY <2>4 DEF ApplyState, DiscardState
  <2>5. QED BY <1>1, <2>1, <2>2, <2>3, <2>4 DEF Begin
<1>2. ASSUME NEW a \in Agents, RunModule(a) PROVE TypeOK'
  <2>1. modules' \in Records
    BY <1>2, ConstantsAssumption DEF RunModule, Records, Versions
  <2>2. op' \in [Threads -> Edit] /\ pc' \in [Threads -> Steps]
    BY <1>2 DEF RunModule, Edit
  <2>3. QED BY <1>2, <2>1, <2>2 DEF RunModule
<1>3. ASSUME NEW r \in Requests,
             CompareRevision(r) \/ WriteSaved(r) \/ PopApproval(r)
      PROVE  TypeOK'
  <2> USE <1>3, BlankTypes
  <2>1. CASE CompareRevision(r)
    <3> DEFINE edited == Preserve(op[r].new, docs[op[r].kind])
               old    == docs[op[r].kind]
               e      == [op[r] EXCEPT !.new = edited, !.old = old]
    <3>1. op[r] \in Edit /\ old \in Document /\ op[r].new \in Document
      BY DEF Edit
    <3>2. edited \in Document
      BY <3>1, DocumentTypes, ConstantsAssumption DEF Preserve, Document
    <3>3. \/ op' = [op EXCEPT ![r] = e] /\ Goto(r, "backup") /\ UNCHANGED lock
          \/ Finish(r)
      BY <2>1 DEF CompareRevision
    <3>4. UNCHANGED <<files, prev, modules, pending, live, shown, issued, accepted, closed>>
      BY <2>1 DEF CompareRevision
    <3> HIDE DEF edited, old
    <3>5. e \in Edit
      BY <3>1, <3>2 DEF Edit
    <3> HIDE DEF e
    <3>6. QED BY <3>3, <3>4, <3>5
  <2>2. CASE WriteSaved(r)
    BY <2>2 DEF WriteSaved, Edit
  <2>3. CASE PopApproval(r)
    BY <2>3 DEF PopApproval, Kinds
  <2>4. QED BY <2>1, <2>2, <2>3
<1>4. CASE Hold
  <2>1. op[Job] \in Edit
    OBVIOUS
  <2>2. PendingIds \subseteq 1..issued
    BY NoneAssumption, ConstantsAssumption DEF ProposalInv, PendingIds, Edit
  <2>3. QED BY <1>4, <2>1, <2>2, BlankTypes DEF Hold
<1>5. ASSUME NEW t \in Threads, ReadState(t) \/ ReadInputs(t) PROVE TypeOK'
  <2>1. CASE ReadState(t)
    BY <1>5, <2>1 DEF ReadState, Edit, Kinds
  <2>2. CASE ReadInputs(t)
    BY <1>5, <2>2 DEF ReadInputs, Edit, Kinds, Records, EditInv, EditAt, Opening, Making
  <2>3. QED BY <1>5, <2>1, <2>2
<1>6. ASSUME NEW t \in Threads, NEW text \in Texts, NEW empty \in BOOLEAN,
             ModelAnswers(t, text, empty)
      PROVE  TypeOK'
  <2> DEFINE new == Proposed(op[t].base, op[t].author, op[t].output, text, empty)
             e   == [op[t] EXCEPT !.id = issued + 1, !.new = new]
  <2>1. op[t] \in Edit /\ op[t].author \in Agents
    BY <1>6 DEF ModelAnswers, EditInv, EditAt, Opening, Making
  <2>2. new \in Document
    BY <2>1, DocumentTypes DEF Edit
  <2>3. issued + 1 \in 1..MaxProposals /\ issued' = issued + 1
    BY <1>6, ConstantsAssumption DEF ModelAnswers
  <2>4. e \in Edit /\ e.id = issued + 1
    <3> HIDE DEF new
    <3>1. issued + 1 \in 0..MaxProposals
      BY <2>3, ConstantsAssumption
    <3>2. QED BY <2>1, <2>2, <3>1 DEF Edit
  <2>5. op' \in [Threads -> Edit] /\ pending' \in Edit \cup {None}
    BY <1>6, <2>4, BlankTypes DEF ModelAnswers
  <2>6. live' \subseteq 1..issued' /\ closed' \subseteq 1..issued'
    BY <1>6, <2>3, <2>4, ConstantsAssumption DEF ModelAnswers
  <2>7. QED BY <1>6, <2>3, <2>5, <2>6, ConstantsAssumption DEF ModelAnswers
<1>7. ASSUME NEW t \in Threads,
             NoProposal(t) \/ WriteFails(t) \/ CheckState(t) \/ CheckBrief(t)
      PROVE  TypeOK'
  BY <1>7, BlankTypes DEF NoProposal, WriteFails, CheckState, CheckBrief
<1>8. ASSUME NEW t \in Threads, WriteBackup(t) \/ WriteProposed(t) PROVE TypeOK'
  <2>1. CASE WriteBackup(t)
    BY <1>8, <2>1 DEF WriteBackup, Edit, Kinds
  <2>2. CASE WriteProposed(t)
    <3>1. op[t] \in Edit /\ op[t].author \in Agents /\ op[t].id \in 1..issued
      BY <1>8, <2>2, ConstantsAssumption DEF WriteProposed, EditInv, ProposalInv, Edit, EditAt,
     Opening, Making
    <3>2. docs' \in [Kinds -> Document]
      BY <2>2, <3>1 DEF WriteProposed, Edit, Kinds
    <3>3. accepted' \subseteq Agents \X Versions
      BY <2>2, <3>1 DEF WriteProposed, Edit
    <3>4. QED BY <2>2, <3>1, <3>2, <3>3, BlankTypes DEF WriteProposed
  <2>3. QED BY <1>8, <2>1, <2>2
<1>9. CASE Restart
  BY <1>9, BlankTypes, ConstantsAssumption DEF Restart
<1>10. CASE UNCHANGED vars
  BY <1>10 DEF vars
<1>11. ASSUME NEW t \in Threads, Migrating(t)
       PROVE  op' \in [Threads -> Edit] /\ pc' \in [Threads -> Steps]
  <2>1. op[t] \in Edit /\ docs["state"] \in Document
    BY DEF Kinds
  <2>2. [op[t] EXCEPT !.base = docs["state"]] \in Edit
    BY <2>1 DEF Edit
  <2>3. op' \in [Threads -> Edit]
    BY <1>11, <2>2 DEF Migrating
  <2>4. pc' \in [Threads -> Steps]
    BY <1>11 DEF Migrating
  <2>5. QED BY <2>3, <2>4
<1>12. ASSUME NEW r \in Requests, OpenProject(r) PROVE TypeOK'
  BY <1>11, <1>12 DEF OpenProject
<1>13. CASE OpenJob
  BY <1>11, <1>13 DEF OpenJob
<1>14. ASSUME NEW t \in Threads, MigrateWrite(t) PROVE TypeOK'
  <2> DEFINE synced == [op[t].base EXCEPT !.text = Synced[op[t].base.text]]
  <2>1. synced \in Document /\ op[t] \in Edit
    BY ConstantsAssumption DEF Edit, Document
  <2> HIDE DEF synced
  <2>2. /\ docs' = [docs EXCEPT !["state"] = synced] /\ since' = since \cup {synced}
        /\ op' = [op EXCEPT ![t].base = Blank]
        /\ Goto(t, IF t = Job THEN "ready" ELSE "read_state")
        /\ UNCHANGED <<prev, modules, lock, pending, live, shown, issued, accepted, closed>>
    BY <1>14 DEF MigrateWrite, synced
  <2>3. op' \in [Threads -> Edit]
    BY <2>1, <2>2, BlankTypes DEF Edit
  <2>4. QED BY <2>1, <2>2, <2>3
<1>15. ASSUME NEW t \in Threads, Reread(t) PROVE TypeOK'
  BY <1>15 DEF Reread, Edit, Kinds
<1> HIDE DEF TypeOK, Threads, Steps, Finish, Rest, Goto, Acquire
<1>16. QED
  BY <1>1, <1>2, <1>3, <1>4, <1>5, <1>6, <1>7, <1>8, <1>9, <1>10, <1>12, <1>13, <1>14, <1>15
     DEF Next, Continue

\* What comparing does: the request goes on with the very document its client
\* was shown, and with its records, or it is over.
LEMMA CompareEffect ==
    ASSUME TypeOK, EditInv, NEW r \in Requests, CompareRevision(r)
    PROVE  /\ r # Job /\ r \in Threads /\ pc[r] = "compare" /\ op[r].id = 0
           /\ \A t \in Threads \ {r} : pc'[t] = pc[t] /\ op'[t] = op[t]
           /\ UNCHANGED <<files, prev, modules, pending, live, shown, issued, accepted, closed>>
           /\ \/ pc'[r] = "idle" /\ op'[r] = NoEdit /\ lock' = IF lock = r THEN Free ELSE lock
              \/ /\ pc'[r] = "backup" /\ lock' = lock
                 /\ op'[r].id = 0 /\ op'[r].kind = op[r].kind /\ op'[r].base = op[r].base
                 /\ op'[r].author = op[r].author
                 /\ op'[r].old = docs[op[r].kind]
                 /\ op'[r].new.reflected = docs[op[r].kind].reflected
                 /\ docs[op[r].kind] = op[r].base
<1> DEFINE edited == Preserve(op[r].new, docs[op[r].kind])
           old    == docs[op[r].kind]
           e      == [op[r] EXCEPT !.new = edited, !.old = old]
<1>1. r # Job /\ r \in Threads /\ pc[r] = "compare" /\ op[r] \in Edit /\ op[r].id = 0
  BY ConstantsAssumption DEF CompareRevision, Threads, TypeOK, EditInv, EditAt
<1>2. edited.reflected = docs[op[r].kind].reflected
  BY <1>1 DEF Preserve, TypeOK, Edit, Document
<1>3. \/ op' = [op EXCEPT ![r] = e] /\ Goto(r, "backup") /\ UNCHANGED lock /\ old = op[r].base
      \/ Finish(r)
  BY DEF CompareRevision
<1>4. UNCHANGED <<files, prev, modules, pending, live, shown, issued, accepted, closed>>
  BY DEF CompareRevision
<1> HIDE DEF edited
<1>5. /\ e.id = 0 /\ e.kind = op[r].kind /\ e.base = op[r].base /\ e.author = op[r].author
      /\ e.old = old /\ e.new = edited
  <2> HIDE DEF old
  <2>1. QED BY <1>1 DEF Edit
<1> HIDE DEF e
<1>6. CASE Finish(r)
  BY <1>1, <1>4, <1>6 DEF Finish, Rest, Goto, TypeOK
<1>7. CASE op' = [op EXCEPT ![r] = e] /\ Goto(r, "backup") /\ UNCHANGED lock /\ old = op[r].base
  BY <1>1, <1>2, <1>4, <1>5, <1>7 DEF Goto, TypeOK
<1>8. QED BY <1>3, <1>6, <1>7

\* A request inside its "with lock" block is the holder, through every step.
LEMMA LockNext ==
    TypeOK /\ LockInv /\ [Next]_vars => LockInv'
<1> SUFFICES ASSUME TypeOK, LockInv, [Next]_vars PROVE LockInv'
    OBVIOUS
<1>1. ASSUME NEW r \in Requests, NEW k \in Kinds, ReadDocument(r, k) PROVE LockInv'
  BY <1>1, ConstantsAssumption DEF ReadDocument, LockInv, Finish, Rest, Goto, Acquire,
     Applying, TypeOK, Threads
<1>2. ASSUME NEW r \in Requests, NEW text \in Texts, NEW records \in Records,
             SaveDocument(r, text, records)
      PROVE  LockInv'
  BY <1>2, ConstantsAssumption DEF SaveDocument, LockInv, Finish, Rest, Goto, Acquire,
     Applying, TypeOK, Threads
<1>3. ASSUME NEW r \in Requests, NEW a \in Agents, ProposeState(r, a) PROVE LockInv'
  BY <1>3, ConstantsAssumption DEF ProposeState, LockInv, Finish, Rest, Goto, Acquire,
     Applying, TypeOK, Threads
<1>4. ASSUME NEW r \in Requests, NEW id \in 1..issued, ApplyState(r, id) PROVE LockInv'
  BY <1>4, ConstantsAssumption DEF ApplyState, LockInv, Finish, Rest, Goto, Acquire, Applying,
     TypeOK, Threads
<1>5. ASSUME NEW r \in Requests, NEW id \in 1..issued, DiscardState(r, id) PROVE LockInv'
  BY <1>5, ConstantsAssumption DEF DiscardState, LockInv, Finish, Rest, Goto, Acquire,
     Applying, TypeOK, Threads
<1>6. ASSUME NEW a \in Agents, RunModule(a) PROVE LockInv'
  BY <1>6, ConstantsAssumption DEF RunModule, LockInv, Finish, Rest, Goto, Acquire, Applying,
     TypeOK, Threads
<1>7. ASSUME NEW r \in Requests, CompareRevision(r) PROVE LockInv'
  BY <1>7, ConstantsAssumption DEF CompareRevision, LockInv, Finish, Rest, Goto, Acquire,
     Applying, TypeOK, Threads
<1>8. ASSUME NEW r \in Requests, WriteSaved(r) PROVE LockInv'
  BY <1>8, ConstantsAssumption DEF WriteSaved, LockInv, Finish, Rest, Goto, Acquire, Applying,
     TypeOK, Threads
<1>9. ASSUME NEW r \in Requests, PopApproval(r) PROVE LockInv'
  BY <1>9, ConstantsAssumption DEF PopApproval, LockInv, Finish, Rest, Goto, Acquire, Applying,
     TypeOK, Threads
<1>10. ASSUME Hold PROVE LockInv'
  BY <1>10, ConstantsAssumption DEF Hold, LockInv, Finish, Rest, Goto, Acquire, Applying,
     TypeOK, Threads
<1>11. ASSUME NEW t \in Threads, ReadState(t) PROVE LockInv'
  BY <1>11, ConstantsAssumption DEF ReadState, LockInv, Finish, Rest, Goto, Acquire, Applying,
     TypeOK, Threads
<1>12. ASSUME NEW t \in Threads, ReadInputs(t) PROVE LockInv'
  BY <1>12, ConstantsAssumption DEF ReadInputs, LockInv, Finish, Rest, Goto, Acquire, Applying,
     TypeOK, Threads
<1>13. ASSUME NEW t \in Threads, NoProposal(t) PROVE LockInv'
  BY <1>13, ConstantsAssumption DEF NoProposal, LockInv, Finish, Rest, Goto, Acquire, Applying,
     TypeOK, Threads
<1>14. ASSUME NEW t \in Threads, NEW text \in Texts, NEW empty \in BOOLEAN,
             ModelAnswers(t, text, empty)
      PROVE  LockInv'
  BY <1>14, ConstantsAssumption DEF ModelAnswers, LockInv, Finish, Rest, Goto, Acquire,
     Applying, TypeOK, Threads
<1>15. ASSUME NEW t \in Threads, CheckState(t) PROVE LockInv'
  BY <1>15, ConstantsAssumption DEF CheckState, LockInv, Finish, Rest, Goto, Acquire, Applying,
     TypeOK, Threads
<1>16. ASSUME NEW t \in Threads, CheckBrief(t) PROVE LockInv'
  BY <1>16, ConstantsAssumption DEF CheckBrief, LockInv, Finish, Rest, Goto, Acquire, Applying,
     TypeOK, Threads
<1>17. ASSUME NEW t \in Threads, WriteBackup(t) PROVE LockInv'
  BY <1>17, ConstantsAssumption DEF WriteBackup, LockInv, Finish, Rest, Goto, Acquire,
     Applying, TypeOK, Threads
<1>18. ASSUME NEW t \in Threads, WriteProposed(t) PROVE LockInv'
  BY <1>18, ConstantsAssumption DEF WriteProposed, LockInv, Finish, Rest, Goto, Acquire,
     Applying, TypeOK, Threads
<1>19. ASSUME NEW t \in Threads, WriteFails(t) PROVE LockInv'
  BY <1>19, ConstantsAssumption DEF WriteFails, LockInv, Finish, Rest, Goto, Acquire, Applying,
     TypeOK, Threads
<1>20. ASSUME Restart PROVE LockInv'
  BY <1>20, ConstantsAssumption DEF Restart, LockInv, Finish, Rest, Goto, Acquire, Applying,
     TypeOK, Threads
<1>21. ASSUME UNCHANGED vars PROVE LockInv'
  BY <1>21, ConstantsAssumption DEF vars, LockInv, Finish, Rest, Goto, Acquire, Applying,
     TypeOK, Threads
<1>22. ASSUME NEW r \in Requests, OpenProject(r) PROVE LockInv'
  BY <1>22, ConstantsAssumption DEF OpenProject, Migrating, LockInv, Goto, Applying, TypeOK, Threads
<1>23. ASSUME OpenJob PROVE LockInv'
  BY <1>23, ConstantsAssumption DEF OpenJob, Migrating, LockInv, Goto, Applying, TypeOK, Threads
<1>24. ASSUME NEW t \in Threads, MigrateWrite(t) PROVE LockInv'
  BY <1>24, ConstantsAssumption DEF MigrateWrite, LockInv, Goto, Applying, TypeOK, Threads
<1>25. ASSUME NEW t \in Threads, Reread(t) PROVE LockInv'
  BY <1>25, ConstantsAssumption DEF Reread, LockInv, Goto, Applying, TypeOK, Threads
<1>26. QED
  BY <1>1, <1>2, <1>3, <1>4, <1>5, <1>6, <1>7, <1>8, <1>9, <1>10, <1>11, <1>12, <1>13,
     <1>14, <1>15, <1>16, <1>17, <1>18, <1>19, <1>20, <1>21, <1>22, <1>23, <1>24, <1>25
     DEF Next, Begin, Continue


\* One thread moves, the others stay: EditInv is a matter of that thread alone.
LEMMA EditOneThread ==
    ASSUME EditInv, NEW t \in Threads, EditAt(t, pc'[t], op'[t]),
           \A u \in Threads \ {t} : pc'[u] = pc[u] /\ op'[u] = op[u]
    PROVE  EditInv'
BY DEF EditInv

\* What an edit is stays tied to the step its thread is at.
LEMMA EditNext ==
    TypeOK /\ LockInv /\ EditInv /\ ProposalInv /\ [Next]_vars => EditInv'
<1> SUFFICES ASSUME TypeOK, LockInv, EditInv, ProposalInv, [Next]_vars PROVE EditInv'
    OBVIOUS
<1>1. ASSUME NEW r \in Requests, NEW k \in Kinds, ReadDocument(r, k) PROVE EditInv'
  BY <1>1 DEF ReadDocument, EditInv
<1>2. ASSUME NEW r \in Requests, NEW text \in Texts, NEW records \in Records,
             SaveDocument(r, text, records)
      PROVE  EditInv'
  <2>1. \A u \in Threads \ {r} : pc'[u] = pc[u] /\ op'[u] = op[u]
    BY <1>2 DEF SaveDocument, Finish, Rest, Goto, TypeOK
  <2>2. EditAt(r, pc'[r], op'[r])
    BY <1>2, ConstantsAssumption
       DEF SaveDocument, Finish, Rest, Goto, NoEdit, TypeOK, Edit, Threads, EditInv, EditAt,
     Opening, Making
  <2>3. QED BY <2>1, <2>2, EditOneThread DEF Threads
<1>3. ASSUME NEW r \in Requests, NEW a \in Agents, ProposeState(r, a) PROVE EditInv'
  <2>1. \A u \in Threads \ {r} : pc'[u] = pc[u] /\ op'[u] = op[u]
    BY <1>3 DEF ProposeState, Finish, Rest, Goto, TypeOK
  <2>2. EditAt(r, pc'[r], op'[r])
    BY <1>3, ConstantsAssumption
       DEF ProposeState, Finish, Rest, Goto, NoEdit, TypeOK, Edit, Threads, EditInv, EditAt,
     Opening, Making
  <2>3. QED BY <2>1, <2>2, EditOneThread DEF Threads
<1>4. ASSUME NEW r \in Requests, NEW id \in 1..issued, ApplyState(r, id) PROVE EditInv'
  <2>1. \A u \in Threads \ {r} : pc'[u] = pc[u] /\ op'[u] = op[u]
    BY <1>4 DEF ApplyState, Finish, Rest, Goto, TypeOK
  <2>2. EditAt(r, pc'[r], op'[r])
    BY <1>4, ConstantsAssumption
       DEF ApplyState, Finish, Rest, Goto, NoEdit, TypeOK, Edit, Threads, EditInv, EditAt,
     Opening, Making, ProposalInv, Acquire
  <2>3. QED BY <2>1, <2>2, EditOneThread DEF Threads
<1>5. ASSUME NEW r \in Requests, NEW id \in 1..issued, DiscardState(r, id) PROVE EditInv'
  BY <1>5 DEF DiscardState, EditInv
<1>6. ASSUME NEW a \in Agents, RunModule(a) PROVE EditInv'
  <2>1. \A u \in Threads \ {Job} : pc'[u] = pc[u] /\ op'[u] = op[u]
    BY <1>6 DEF RunModule, Finish, Rest, Goto, TypeOK
  <2>2. EditAt(Job, pc'[Job], op'[Job])
    BY <1>6, ConstantsAssumption
       DEF RunModule, Finish, Rest, Goto, NoEdit, TypeOK, Edit, Threads, EditInv, EditAt,
     Opening, Making
  <2>3. QED BY <2>1, <2>2, EditOneThread DEF Threads
<1>7. ASSUME NEW r \in Requests, CompareRevision(r) PROVE EditInv'
  <2>1. \A u \in Threads \ {r} : pc'[u] = pc[u] /\ op'[u] = op[u]
    BY <1>7 DEF CompareRevision, Finish, Rest, Goto, TypeOK
  <2>2. EditAt(r, pc'[r], op'[r])
    BY <1>7, ConstantsAssumption
       DEF CompareRevision, Finish, Rest, Goto, NoEdit, TypeOK, Edit, Threads, EditInv, EditAt,
     Opening, Making
  <2>3. QED BY <2>1, <2>2, EditOneThread DEF Threads
<1>8. ASSUME NEW r \in Requests, WriteSaved(r) PROVE EditInv'
  <2>1. \A u \in Threads \ {r} : pc'[u] = pc[u] /\ op'[u] = op[u]
    BY <1>8 DEF WriteSaved, Finish, Rest, Goto, TypeOK
  <2>2. EditAt(r, pc'[r], op'[r])
    BY <1>8, ConstantsAssumption
       DEF WriteSaved, Finish, Rest, Goto, NoEdit, TypeOK, Edit, Threads, EditInv, EditAt,
     Opening, Making
  <2>3. QED BY <2>1, <2>2, EditOneThread DEF Threads
<1>9. ASSUME NEW r \in Requests, PopApproval(r) PROVE EditInv'
  <2>1. \A u \in Threads \ {r} : pc'[u] = pc[u] /\ op'[u] = op[u]
    BY <1>9 DEF PopApproval, Finish, Rest, Goto, TypeOK
  <2>2. EditAt(r, pc'[r], op'[r])
    BY <1>9, ConstantsAssumption
       DEF PopApproval, Finish, Rest, Goto, NoEdit, TypeOK, Edit, Threads, EditInv, EditAt,
     Opening, Making
  <2>3. QED BY <2>1, <2>2, EditOneThread DEF Threads
<1>10. ASSUME Hold PROVE EditInv'
  <2>1. \A u \in Threads \ {Job} : pc'[u] = pc[u] /\ op'[u] = op[u]
    BY <1>10 DEF Hold, Finish, Rest, Goto, TypeOK
  <2>2. EditAt(Job, pc'[Job], op'[Job])
    BY <1>10, ConstantsAssumption
       DEF Hold, Finish, Rest, Goto, NoEdit, TypeOK, Edit, Threads, EditInv, EditAt, Opening,
     Making
  <2>3. QED BY <2>1, <2>2, EditOneThread DEF Threads
<1>11. ASSUME NEW t \in Threads, ReadState(t) PROVE EditInv'
  <2>1. \A u \in Threads \ {t} : pc'[u] = pc[u] /\ op'[u] = op[u]
    BY <1>11 DEF ReadState, Finish, Rest, Goto, TypeOK
  <2>2. EditAt(t, pc'[t], op'[t])
    BY <1>11, ConstantsAssumption
       DEF ReadState, Finish, Rest, Goto, NoEdit, TypeOK, Edit, Threads, EditInv, EditAt,
     Opening, Making
  <2>3. QED BY <2>1, <2>2, EditOneThread DEF Threads
<1>12. ASSUME NEW t \in Threads, ReadInputs(t) PROVE EditInv'
  <2>1. \A u \in Threads \ {t} : pc'[u] = pc[u] /\ op'[u] = op[u]
    BY <1>12 DEF ReadInputs, Finish, Rest, Goto, TypeOK
  <2>2. EditAt(t, pc'[t], op'[t])
    BY <1>12, ConstantsAssumption
       DEF ReadInputs, Finish, Rest, Goto, NoEdit, TypeOK, Edit, Threads, EditInv, EditAt,
     Opening, Making
  <2>3. QED BY <2>1, <2>2, EditOneThread DEF Threads
<1>13. ASSUME NEW t \in Threads, NoProposal(t) PROVE EditInv'
  <2>1. \A u \in Threads \ {t} : pc'[u] = pc[u] /\ op'[u] = op[u]
    BY <1>13 DEF NoProposal, Finish, Rest, Goto, TypeOK
  <2>2. EditAt(t, pc'[t], op'[t])
    BY <1>13, ConstantsAssumption
       DEF NoProposal, Finish, Rest, Goto, NoEdit, TypeOK, Edit, Threads, EditInv, EditAt,
     Opening, Making
  <2>3. QED BY <2>1, <2>2, EditOneThread DEF Threads
<1>14. ASSUME NEW t \in Threads, NEW text \in Texts, NEW empty \in BOOLEAN,
             ModelAnswers(t, text, empty)
      PROVE  EditInv'
  <2>1. \A u \in Threads \ {t} : pc'[u] = pc[u] /\ op'[u] = op[u]
    BY <1>14 DEF ModelAnswers, Finish, Rest, Goto, TypeOK
  <2>2. EditAt(t, pc'[t], op'[t])
    <3> DEFINE new == Proposed(op[t].base, op[t].author, op[t].output, text, empty)
               e   == [op[t] EXCEPT !.id = issued + 1, !.new = new]
    <3>1. e.id # 0 /\ e.kind = "state" /\ e.author \in Agents /\ e.old = Blank
      BY <1>14, ConstantsAssumption DEF ModelAnswers, TypeOK, Edit, EditInv, EditAt, Opening,
     Making
    <3>2. \/ pc'[t] = "idle" /\ op'[t] = NoEdit
          \/ pc'[t] \in {"check", "hold"} /\ op'[t] = e
      BY <1>14 DEF ModelAnswers, Finish, Rest, Goto, TypeOK
    <3> HIDE DEF new, e
    <3>3. QED BY <3>1, <3>2 DEF EditAt, Opening, Making, NoEdit
  <2>3. QED BY <2>1, <2>2, EditOneThread DEF Threads
<1>15. ASSUME NEW t \in Threads, CheckState(t) PROVE EditInv'
  <2>1. \A u \in Threads \ {t} : pc'[u] = pc[u] /\ op'[u] = op[u]
    BY <1>15 DEF CheckState, Finish, Rest, Goto, TypeOK
  <2>2. EditAt(t, pc'[t], op'[t])
    BY <1>15, ConstantsAssumption
       DEF CheckState, Finish, Rest, Goto, NoEdit, TypeOK, Edit, Threads, EditInv, EditAt,
     Opening, Making
  <2>3. QED BY <2>1, <2>2, EditOneThread DEF Threads
<1>16. ASSUME NEW t \in Threads, CheckBrief(t) PROVE EditInv'
  <2>1. \A u \in Threads \ {t} : pc'[u] = pc[u] /\ op'[u] = op[u]
    BY <1>16 DEF CheckBrief, Finish, Rest, Goto, TypeOK
  <2>2. EditAt(t, pc'[t], op'[t])
    BY <1>16, ConstantsAssumption
       DEF CheckBrief, Finish, Rest, Goto, NoEdit, TypeOK, Edit, Threads, EditInv, EditAt,
     Opening, Making
  <2>3. QED BY <2>1, <2>2, EditOneThread DEF Threads
<1>17. ASSUME NEW t \in Threads, WriteBackup(t) PROVE EditInv'
  <2>1. \A u \in Threads \ {t} : pc'[u] = pc[u] /\ op'[u] = op[u]
    BY <1>17 DEF WriteBackup, Finish, Rest, Goto, TypeOK
  <2>2. EditAt(t, pc'[t], op'[t])
    BY <1>17, ConstantsAssumption
       DEF WriteBackup, Finish, Rest, Goto, NoEdit, TypeOK, Edit, Threads, EditInv, EditAt,
     Opening, Making
  <2>3. QED BY <2>1, <2>2, EditOneThread DEF Threads
<1>18. ASSUME NEW t \in Threads, WriteProposed(t) PROVE EditInv'
  <2>1. \A u \in Threads \ {t} : pc'[u] = pc[u] /\ op'[u] = op[u]
    BY <1>18 DEF WriteProposed, Finish, Rest, Goto, TypeOK
  <2>2. EditAt(t, pc'[t], op'[t])
    BY <1>18, ConstantsAssumption
       DEF WriteProposed, Finish, Rest, Goto, NoEdit, TypeOK, Edit, Threads, EditInv, EditAt,
     Opening, Making
  <2>3. QED BY <2>1, <2>2, EditOneThread DEF Threads
<1>19. ASSUME NEW t \in Threads, WriteFails(t) PROVE EditInv'
  <2>1. \A u \in Threads \ {t} : pc'[u] = pc[u] /\ op'[u] = op[u]
    BY <1>19 DEF WriteFails, Finish, Rest, Goto, TypeOK
  <2>2. EditAt(t, pc'[t], op'[t])
    BY <1>19, ConstantsAssumption
       DEF WriteFails, Finish, Rest, Goto, NoEdit, TypeOK, Edit, Threads, EditInv, EditAt,
     Opening, Making
  <2>3. QED BY <2>1, <2>2, EditOneThread DEF Threads
<1>20. ASSUME Restart PROVE EditInv'
  BY <1>20, BlankTypes, ConstantsAssumption DEF Restart, EditInv, EditAt, Opening, Making,
     NoEdit, Threads
<1>21. ASSUME UNCHANGED vars PROVE EditInv'
  BY <1>21 DEF vars, EditInv
<1>22. ASSUME NEW r \in Requests, OpenProject(r) PROVE EditInv'
  <2>1. \A u \in Threads \ {r} : pc'[u] = pc[u] /\ op'[u] = op[u]
    BY <1>22 DEF OpenProject, Migrating, Goto, TypeOK
  <2>2. EditAt(r, pc'[r], op'[r])
    BY <1>22, ConstantsAssumption
       DEF OpenProject, Migrating, Goto, NoEdit, TypeOK, Edit, Threads, EditInv, EditAt, Opening, Making
  <2>3. QED BY <2>1, <2>2, EditOneThread DEF Threads
<1>23. ASSUME OpenJob PROVE EditInv'
  <2>1. \A u \in Threads \ {Job} : pc'[u] = pc[u] /\ op'[u] = op[u]
    BY <1>23 DEF OpenJob, Migrating, Goto, TypeOK
  <2>2. EditAt(Job, pc'[Job], op'[Job])
    BY <1>23, ConstantsAssumption
       DEF OpenJob, Migrating, Goto, NoEdit, TypeOK, Edit, Threads, EditInv, EditAt, Opening, Making
  <2>3. QED BY <2>1, <2>2, EditOneThread DEF Threads
<1>24. ASSUME NEW t \in Threads, MigrateWrite(t) PROVE EditInv'
  <2>1. \A u \in Threads \ {t} : pc'[u] = pc[u] /\ op'[u] = op[u]
    BY <1>24 DEF MigrateWrite, Goto, TypeOK
  <2>2. EditAt(t, pc'[t], op'[t])
    BY <1>24, ConstantsAssumption
       DEF MigrateWrite, Goto, NoEdit, TypeOK, Edit, Threads, EditInv, EditAt, Opening, Making
  <2>3. QED BY <2>1, <2>2, EditOneThread DEF Threads
<1>25. ASSUME NEW t \in Threads, Reread(t) PROVE EditInv'
  <2>1. \A u \in Threads \ {t} : pc'[u] = pc[u] /\ op'[u] = op[u]
    BY <1>25 DEF Reread, Goto, TypeOK
  <2>2. EditAt(t, pc'[t], op'[t])
    BY <1>25, ConstantsAssumption
       DEF Reread, Goto, NoEdit, TypeOK, Edit, Threads, EditInv, EditAt, Opening, Making
  <2>3. QED BY <2>1, <2>2, EditOneThread DEF Threads
<1>26. QED
  BY <1>1, <1>2, <1>3, <1>4, <1>5, <1>6, <1>7, <1>8, <1>9, <1>10, <1>11, <1>12, <1>13,
     <1>14, <1>15, <1>16, <1>17, <1>18, <1>19, <1>20, <1>21, <1>22, <1>23, <1>24, <1>25
     DEF Next, Begin, Continue

\* A proposal is with the job thread or at the desk, and closed at most once.
LEMMA ProposalNext ==
    TypeOK /\ LockInv /\ EditInv /\ ProposalInv /\ [Next]_vars => ProposalInv'
<1> SUFFICES ASSUME TypeOK, LockInv, EditInv, ProposalInv, [Next]_vars PROVE ProposalInv'
    OBVIOUS
<1>1. ASSUME NEW r \in Requests, NEW k \in Kinds, ReadDocument(r, k) PROVE ProposalInv'
  BY <1>1, ConstantsAssumption, BlankTypes DEF ReadDocument, ProposalInv, SameProposal, LockInv, EditInv,
     EditAt, Opening, Making, Finish, Rest, Goto, Acquire, NoEdit, Edit, TypeOK, Threads,
     PendingIds, Applying
<1>2. ASSUME NEW r \in Requests, NEW text \in Texts, NEW records \in Records,
             SaveDocument(r, text, records)
      PROVE  ProposalInv'
  BY <1>2, ConstantsAssumption, BlankTypes DEF SaveDocument, ProposalInv, SameProposal, LockInv, EditInv,
     EditAt, Opening, Making, Finish, Rest, Goto, Acquire, NoEdit, Edit, TypeOK, Threads,
     PendingIds, Applying
<1>3. ASSUME NEW r \in Requests, NEW a \in Agents, ProposeState(r, a) PROVE ProposalInv'
  BY <1>3, ConstantsAssumption, BlankTypes DEF ProposeState, ProposalInv, SameProposal, LockInv, EditInv,
     EditAt, Opening, Making, Finish, Rest, Goto, Acquire, NoEdit, Edit, TypeOK, Threads,
     PendingIds, Applying
<1>4. ASSUME NEW r \in Requests, NEW id \in 1..issued, ApplyState(r, id) PROVE ProposalInv'
  BY <1>4, ConstantsAssumption, BlankTypes DEF ApplyState, ProposalInv, SameProposal, LockInv, EditInv,
     EditAt, Opening, Making, Finish, Rest, Goto, Acquire, NoEdit, Edit, TypeOK, Threads,
     PendingIds, Applying
<1>5. ASSUME NEW r \in Requests, NEW id \in 1..issued, DiscardState(r, id) PROVE ProposalInv'
  BY <1>5, ConstantsAssumption, BlankTypes DEF DiscardState, ProposalInv, SameProposal, LockInv, EditInv,
     EditAt, Opening, Making, Finish, Rest, Goto, Acquire, NoEdit, Edit, TypeOK, Threads,
     PendingIds, Applying
<1>6. ASSUME NEW a \in Agents, RunModule(a) PROVE ProposalInv'
  BY <1>6, ConstantsAssumption, BlankTypes DEF RunModule, ProposalInv, SameProposal, LockInv, EditInv,
     EditAt, Opening, Making, Finish, Rest, Goto, Acquire, NoEdit, Edit, TypeOK, Threads,
     PendingIds, Applying
<1>7. ASSUME NEW r \in Requests, CompareRevision(r) PROVE ProposalInv'
  <2>1. /\ r \in Threads /\ pc[r] = "compare" /\ op[r].id = 0 /\ op'[r].id = 0
        /\ pc'[r] \in {"idle", "backup"} /\ r # Job
        /\ \A t \in Threads \ {r} : pc'[t] = pc[t] /\ op'[t] = op[t]
        /\ UNCHANGED <<pending, live, issued, closed>>
    BY <1>7, CompareEffect DEF NoEdit
  <2>2. lock = r /\ \A q \in Requests : pc[q] # "pop"
    BY <2>1 DEF LockInv
  <2>3. PendingIds' = PendingIds
    BY <2>1 DEF PendingIds
  <2>4. QED BY <2>1, <2>2, <2>3 DEF ProposalInv, Threads, Applying
<1>8. ASSUME NEW r \in Requests, WriteSaved(r) PROVE ProposalInv'
  BY <1>8, ConstantsAssumption, BlankTypes DEF WriteSaved, ProposalInv, SameProposal, LockInv, EditInv,
     EditAt, Opening, Making, Finish, Rest, Goto, Acquire, NoEdit, Edit, TypeOK, Threads,
     PendingIds, Applying
<1>9. ASSUME NEW r \in Requests, PopApproval(r) PROVE ProposalInv'
  BY <1>9, ConstantsAssumption, BlankTypes DEF PopApproval, ProposalInv, SameProposal, LockInv, EditInv,
     EditAt, Opening, Making, Finish, Rest, Goto, Acquire, NoEdit, Edit, TypeOK, Threads,
     PendingIds, Applying
<1>10. ASSUME Hold PROVE ProposalInv'
  BY <1>10, ConstantsAssumption, BlankTypes DEF Hold, ProposalInv, SameProposal, LockInv, EditInv, EditAt,
     Opening, Making, Finish, Rest, Goto, Acquire, NoEdit, Edit, TypeOK, Threads, PendingIds,
     Applying
<1>11. ASSUME NEW t \in Threads, ReadState(t) PROVE ProposalInv'
  BY <1>11, ConstantsAssumption, BlankTypes DEF ReadState, ProposalInv, SameProposal, LockInv, EditInv,
     EditAt, Opening, Making, Finish, Rest, Goto, Acquire, NoEdit, Edit, TypeOK, Threads,
     PendingIds, Applying
<1>12. ASSUME NEW t \in Threads, ReadInputs(t) PROVE ProposalInv'
  BY <1>12, ConstantsAssumption, BlankTypes DEF ReadInputs, ProposalInv, SameProposal, LockInv, EditInv,
     EditAt, Opening, Making, Finish, Rest, Goto, Acquire, NoEdit, Edit, TypeOK, Threads,
     PendingIds, Applying
<1>13. ASSUME NEW t \in Threads, NoProposal(t) PROVE ProposalInv'
  BY <1>13, ConstantsAssumption, BlankTypes DEF NoProposal, ProposalInv, SameProposal, LockInv, EditInv,
     EditAt, Opening, Making, Finish, Rest, Goto, Acquire, NoEdit, Edit, TypeOK, Threads,
     PendingIds, Applying
<1>14. ASSUME NEW t \in Threads, NEW text \in Texts, NEW empty \in BOOLEAN,
             ModelAnswers(t, text, empty)
      PROVE  ProposalInv'
  <2> DEFINE new == Proposed(op[t].base, op[t].author, op[t].output, text, empty)
             e   == [op[t] EXCEPT !.id = issued + 1, !.new = new]
  <2>1. /\ e.id = issued + 1 /\ e.kind = "state" /\ e.author \in Agents /\ e.old = Blank
        /\ issued' = issued + 1 /\ e.id \notin closed \cup live \cup PendingIds
    BY <1>14, ConstantsAssumption, NoneAssumption
       DEF ModelAnswers, TypeOK, Edit, EditInv, EditAt, Opening, Making, ProposalInv,
     PendingIds
  <2>2. CASE t = Job
    <3>1. /\ op' = [op EXCEPT ![t] = e] /\ pc'[t] \in {"check", "hold"}
          /\ pc' = [pc EXCEPT ![t] = pc'[t]]
          /\ live' = live \cup {e.id} /\ UNCHANGED <<lock, pending, closed>>
      BY <1>14, <2>2 DEF ModelAnswers, Goto, TypeOK
    <3> HIDE DEF new, e
    <3>2. QED BY <2>1, <2>2, <3>1, ConstantsAssumption
         DEF ProposalInv, SameProposal, LockInv, EditInv, EditAt, Opening, Making, Finish, Rest, Goto,
     NoEdit, Edit, TypeOK, Threads, PendingIds, Applying
  <2>3. CASE t # Job
    <3>1. /\ pending' = e /\ op' = [op EXCEPT ![t] = NoEdit]
          /\ pc' = [pc EXCEPT ![t] = "idle"]
          /\ live' = live \cup {e.id} /\ UNCHANGED closed
          /\ lock' = Free
      BY <1>14, <2>3 DEF ModelAnswers, Finish, Rest, Goto, TypeOK, LockInv, Threads
    <3> HIDE DEF new, e
    <3>2. lock = t
      BY <1>14, <2>3 DEF ModelAnswers, LockInv, Threads
    <3>3. QED BY <2>1, <2>3, <3>1, <3>2, ConstantsAssumption
         DEF ProposalInv, SameProposal, LockInv, EditInv, EditAt, Opening, Making, Finish, Rest, Goto,
     NoEdit, Edit, TypeOK, Threads, PendingIds, Applying
  <2>4. QED BY <2>2, <2>3
<1>15. ASSUME NEW t \in Threads, CheckState(t) PROVE ProposalInv'
  BY <1>15, ConstantsAssumption, BlankTypes DEF CheckState, ProposalInv, SameProposal, LockInv, EditInv,
     EditAt, Opening, Making, Finish, Rest, Goto, Acquire, NoEdit, Edit, TypeOK, Threads,
     PendingIds, Applying
<1>16. ASSUME NEW t \in Threads, CheckBrief(t) PROVE ProposalInv'
  BY <1>16, ConstantsAssumption, BlankTypes DEF CheckBrief, ProposalInv, SameProposal, LockInv, EditInv,
     EditAt, Opening, Making, Finish, Rest, Goto, Acquire, NoEdit, Edit, TypeOK, Threads,
     PendingIds, Applying
<1>17. ASSUME NEW t \in Threads, WriteBackup(t) PROVE ProposalInv'
  BY <1>17, ConstantsAssumption, BlankTypes DEF WriteBackup, ProposalInv, SameProposal, LockInv, EditInv,
     EditAt, Opening, Making, Finish, Rest, Goto, Acquire, NoEdit, Edit, TypeOK, Threads,
     PendingIds, Applying
<1>18. ASSUME NEW t \in Threads, WriteProposed(t) PROVE ProposalInv'
  <2>1. op[t].id \in 1..issued
    BY <1>18, ConstantsAssumption DEF WriteProposed, ProposalInv, TypeOK, Edit
  <2>2. CASE t = Job
    BY <1>18, <2>1, <2>2, ConstantsAssumption, NoneAssumption
       DEF WriteProposed, ProposalInv, SameProposal, LockInv, EditInv, EditAt, Opening, Making, Finish, Rest,
     Goto, NoEdit, Edit, TypeOK, Threads, PendingIds, Applying
  <2>3. CASE t # Job
    <3>1. pending # None /\ SameProposal(pending, op[t]) /\ lock = t /\ t \in Requests
      BY <1>18, <2>3 DEF WriteProposed, ProposalInv, Applying, LockInv, Threads
    <3>2. QED BY <1>18, <2>1, <2>3, <3>1, ConstantsAssumption, NoneAssumption
       DEF WriteProposed, ProposalInv, SameProposal, LockInv, EditInv, EditAt, Opening, Making, Finish, Rest,
     Goto, NoEdit, Edit, TypeOK, Threads, PendingIds, Applying
  <2>4. QED BY <2>2, <2>3
<1>19. ASSUME NEW t \in Threads, WriteFails(t) PROVE ProposalInv'
  BY <1>19, ConstantsAssumption, BlankTypes DEF WriteFails, ProposalInv, SameProposal, LockInv, EditInv,
     EditAt, Opening, Making, Finish, Rest, Goto, Acquire, NoEdit, Edit, TypeOK, Threads,
     PendingIds, Applying
<1>20. ASSUME Restart PROVE ProposalInv'
  BY <1>20, ConstantsAssumption, BlankTypes DEF Restart, ProposalInv, SameProposal, LockInv, EditInv, EditAt,
     Opening, Making, Finish, Rest, Goto, Acquire, NoEdit, Edit, TypeOK, Threads, PendingIds,
     Applying
<1>21. ASSUME UNCHANGED vars PROVE ProposalInv'
  BY <1>21, ConstantsAssumption, BlankTypes DEF vars, ProposalInv, SameProposal, LockInv, EditInv, EditAt,
     Opening, Making, Finish, Rest, Goto, Acquire, NoEdit, Edit, TypeOK, Threads, PendingIds,
     Applying
<1>22. ASSUME NEW r \in Requests, OpenProject(r) PROVE ProposalInv'
  BY <1>22, ConstantsAssumption, BlankTypes DEF OpenProject, Migrating, ProposalInv, SameProposal, LockInv, EditInv, EditAt,
     Opening, Making, Goto, NoEdit, Edit, TypeOK, Threads, PendingIds, Applying
<1>23. ASSUME OpenJob PROVE ProposalInv'
  BY <1>23, ConstantsAssumption, BlankTypes DEF OpenJob, Migrating, ProposalInv, SameProposal, LockInv, EditInv, EditAt,
     Opening, Making, Goto, NoEdit, Edit, TypeOK, Threads, PendingIds, Applying
<1>24. ASSUME NEW t \in Threads, MigrateWrite(t) PROVE ProposalInv'
  BY <1>24, ConstantsAssumption, BlankTypes DEF MigrateWrite, ProposalInv, SameProposal, LockInv, EditInv, EditAt,
     Opening, Making, Goto, NoEdit, Edit, TypeOK, Threads, PendingIds, Applying
<1>25. ASSUME NEW t \in Threads, Reread(t) PROVE ProposalInv'
  BY <1>25, ConstantsAssumption, BlankTypes DEF Reread, ProposalInv, SameProposal, LockInv, EditInv, EditAt,
     Opening, Making, Goto, NoEdit, Edit, TypeOK, Threads, PendingIds, Applying
<1>26. QED
  BY <1>1, <1>2, <1>3, <1>4, <1>5, <1>6, <1>7, <1>8, <1>9, <1>10, <1>11, <1>12, <1>13,
     <1>14, <1>15, <1>16, <1>17, <1>18, <1>19, <1>20, <1>21, <1>22, <1>23, <1>24, <1>25
     DEF Next, Begin, Continue

\* Outside "auto" mode nobody writes between a comparison and its write.
LEMMA ComparedNext ==
    TypeOK /\ LockInv /\ EditInv /\ ProposalInv /\ ComparedInv /\ [Next]_vars => ComparedInv'
<1> SUFFICES ASSUME TypeOK, LockInv, EditInv, ProposalInv, ComparedInv, [Next]_vars PROVE ComparedInv'
    OBVIOUS
<1>1. ASSUME NEW r \in Requests, NEW k \in Kinds, ReadDocument(r, k) PROVE ComparedInv'
  BY <1>1, ConstantsAssumption DEF ReadDocument, ComparedInv, Window, LockInv, EditInv, EditAt,
     Opening, Making, Finish, Rest, Goto, Acquire, NoEdit, Edit, TypeOK, Threads, Kinds,
     Applying
<1>2. ASSUME NEW r \in Requests, NEW text \in Texts, NEW records \in Records,
             SaveDocument(r, text, records)
      PROVE  ComparedInv'
  BY <1>2, ConstantsAssumption DEF SaveDocument, ComparedInv, Window, LockInv, EditInv, EditAt,
     Opening, Making, Finish, Rest, Goto, Acquire, NoEdit, Edit, TypeOK, Threads, Kinds,
     Applying
<1>3. ASSUME NEW r \in Requests, NEW a \in Agents, ProposeState(r, a) PROVE ComparedInv'
  BY <1>3, ConstantsAssumption DEF ProposeState, ComparedInv, Window, LockInv, EditInv, EditAt,
     Opening, Making, Finish, Rest, Goto, Acquire, NoEdit, Edit, TypeOK, Threads, Kinds,
     Applying
<1>4. ASSUME NEW r \in Requests, NEW id \in 1..issued, ApplyState(r, id) PROVE ComparedInv'
  BY <1>4, ConstantsAssumption DEF ApplyState, ComparedInv, Window, LockInv, EditInv, EditAt,
     Opening, Making, Finish, Rest, Goto, Acquire, NoEdit, Edit, TypeOK, Threads, Kinds,
     Applying
<1>5. ASSUME NEW r \in Requests, NEW id \in 1..issued, DiscardState(r, id) PROVE ComparedInv'
  BY <1>5, ConstantsAssumption DEF DiscardState, ComparedInv, Window, LockInv, EditInv, EditAt,
     Opening, Making, Finish, Rest, Goto, Acquire, NoEdit, Edit, TypeOK, Threads, Kinds,
     Applying
<1>6. ASSUME NEW a \in Agents, RunModule(a) PROVE ComparedInv'
  BY <1>6, ConstantsAssumption DEF RunModule, ComparedInv, Window, LockInv, EditInv, EditAt,
     Opening, Making, Finish, Rest, Goto, Acquire, NoEdit, Edit, TypeOK, Threads, Kinds,
     Applying
<1>7. ASSUME NEW r \in Requests, CompareRevision(r) PROVE ComparedInv'
  BY <1>7, ConstantsAssumption DEF CompareRevision, ComparedInv, Window, LockInv, EditInv,
     EditAt, Opening, Making, Finish, Rest, Goto, Acquire, NoEdit, Edit, TypeOK, Threads,
     Kinds, Applying
<1>8. ASSUME NEW r \in Requests, WriteSaved(r) PROVE ComparedInv'
  BY <1>8, ConstantsAssumption DEF WriteSaved, ComparedInv, Window, LockInv, EditInv, EditAt,
     Opening, Making, Finish, Rest, Goto, Acquire, NoEdit, Edit, TypeOK, Threads, Kinds,
     Applying
<1>9. ASSUME NEW r \in Requests, PopApproval(r) PROVE ComparedInv'
  BY <1>9, ConstantsAssumption DEF PopApproval, ComparedInv, Window, LockInv, EditInv, EditAt,
     Opening, Making, Finish, Rest, Goto, Acquire, NoEdit, Edit, TypeOK, Threads, Kinds,
     Applying
<1>10. ASSUME Hold PROVE ComparedInv'
  BY <1>10, ConstantsAssumption DEF Hold, ComparedInv, Window, LockInv, EditInv, EditAt,
     Opening, Making, Finish, Rest, Goto, Acquire, NoEdit, Edit, TypeOK, Threads, Kinds,
     Applying
<1>11. ASSUME NEW t \in Threads, ReadState(t) PROVE ComparedInv'
  BY <1>11, ConstantsAssumption DEF ReadState, ComparedInv, Window, LockInv, EditInv, EditAt,
     Opening, Making, Finish, Rest, Goto, Acquire, NoEdit, Edit, TypeOK, Threads, Kinds,
     Applying
<1>12. ASSUME NEW t \in Threads, ReadInputs(t) PROVE ComparedInv'
  BY <1>12, ConstantsAssumption DEF ReadInputs, ComparedInv, Window, LockInv, EditInv, EditAt,
     Opening, Making, Finish, Rest, Goto, Acquire, NoEdit, Edit, TypeOK, Threads, Kinds,
     Applying
<1>13. ASSUME NEW t \in Threads, NoProposal(t) PROVE ComparedInv'
  BY <1>13, ConstantsAssumption DEF NoProposal, ComparedInv, Window, LockInv, EditInv, EditAt,
     Opening, Making, Finish, Rest, Goto, Acquire, NoEdit, Edit, TypeOK, Threads, Kinds,
     Applying
<1>14. ASSUME NEW t \in Threads, NEW text \in Texts, NEW empty \in BOOLEAN,
             ModelAnswers(t, text, empty)
      PROVE  ComparedInv'
  BY <1>14, ConstantsAssumption DEF ModelAnswers, ComparedInv, Window, LockInv, EditInv,
     EditAt, Opening, Making, Finish, Rest, Goto, Acquire, NoEdit, Edit, TypeOK, Threads,
     Kinds, Applying
<1>15. ASSUME NEW t \in Threads, CheckState(t) PROVE ComparedInv'
  BY <1>15, ConstantsAssumption DEF CheckState, ComparedInv, Window, LockInv, EditInv, EditAt,
     Opening, Making, Finish, Rest, Goto, Acquire, NoEdit, Edit, TypeOK, Threads, Kinds,
     Applying
<1>16. ASSUME NEW t \in Threads, CheckBrief(t) PROVE ComparedInv'
  BY <1>16, ConstantsAssumption DEF CheckBrief, ComparedInv, Window, LockInv, EditInv, EditAt,
     Opening, Making, Finish, Rest, Goto, Acquire, NoEdit, Edit, TypeOK, Threads, Kinds,
     Applying
<1>17. ASSUME NEW t \in Threads, WriteBackup(t) PROVE ComparedInv'
  BY <1>17, ConstantsAssumption DEF WriteBackup, ComparedInv, Window, LockInv, EditInv, EditAt,
     Opening, Making, Finish, Rest, Goto, Acquire, NoEdit, Edit, TypeOK, Threads, Kinds,
     Applying
<1>18. ASSUME NEW t \in Threads, WriteProposed(t) PROVE ComparedInv'
  BY <1>18, ConstantsAssumption DEF WriteProposed, ComparedInv, Window, LockInv, EditInv,
     EditAt, Opening, Making, Finish, Rest, Goto, Acquire, NoEdit, Edit, TypeOK, Threads,
     Kinds, Applying
<1>19. ASSUME NEW t \in Threads, WriteFails(t) PROVE ComparedInv'
  BY <1>19, ConstantsAssumption DEF WriteFails, ComparedInv, Window, LockInv, EditInv, EditAt,
     Opening, Making, Finish, Rest, Goto, Acquire, NoEdit, Edit, TypeOK, Threads, Kinds,
     Applying
<1>20. ASSUME Restart PROVE ComparedInv'
  BY <1>20, ConstantsAssumption DEF Restart, ComparedInv, Window, LockInv, EditInv, EditAt,
     Opening, Making, Finish, Rest, Goto, Acquire, NoEdit, Edit, TypeOK, Threads, Kinds,
     Applying
<1>21. ASSUME UNCHANGED vars PROVE ComparedInv'
  BY <1>21, ConstantsAssumption DEF vars, ComparedInv, Window, LockInv, EditInv, EditAt,
     Opening, Making, Finish, Rest, Goto, Acquire, NoEdit, Edit, TypeOK, Threads, Kinds,
     Applying
<1>22. ASSUME NEW r \in Requests, OpenProject(r) PROVE ComparedInv'
  BY <1>22, ConstantsAssumption DEF OpenProject, Migrating, ComparedInv, Window, LockInv,
     EditInv, EditAt, Opening, Making, Goto, NoEdit, Edit, TypeOK, Threads, Kinds, Applying
<1>23. ASSUME OpenJob PROVE ComparedInv'
  BY <1>23, ConstantsAssumption DEF OpenJob, Migrating, ComparedInv, Window, LockInv,
     EditInv, EditAt, Opening, Making, Goto, NoEdit, Edit, TypeOK, Threads, Kinds, Applying
<1>24. ASSUME NEW t \in Threads, MigrateWrite(t) PROVE ComparedInv'
  BY <1>24, ConstantsAssumption DEF MigrateWrite, ComparedInv, Window, LockInv,
     EditInv, EditAt, Opening, Making, Goto, NoEdit, Edit, TypeOK, Threads, Kinds, Applying
<1>25. ASSUME NEW t \in Threads, Reread(t) PROVE ComparedInv'
  BY <1>25, ConstantsAssumption DEF Reread, ComparedInv, Window, LockInv,
     EditInv, EditAt, Opening, Making, Goto, NoEdit, Edit, TypeOK, Threads, Kinds, Applying
<1>26. QED
  BY <1>1, <1>2, <1>3, <1>4, <1>5, <1>6, <1>7, <1>8, <1>9, <1>10, <1>11, <1>12, <1>13,
     <1>14, <1>15, <1>16, <1>17, <1>18, <1>19, <1>20, <1>21, <1>22, <1>23, <1>24, <1>25
     DEF Next, Begin, Continue

\* No step puts a record of an unaccepted output into a file or on its way.
LEMMA RecordsNext ==
    TypeOK /\ LockInv /\ EditInv /\ ProposalInv /\ RecordsInv /\ [Next]_vars => RecordsInv'
<1> SUFFICES ASSUME TypeOK, LockInv, EditInv, ProposalInv, RecordsInv, [Next]_vars PROVE RecordsInv'
    OBVIOUS
<1>1. ASSUME NEW r \in Requests, NEW k \in Kinds, ReadDocument(r, k) PROVE RecordsInv'
  BY <1>1, BlankTypes, ConstantsAssumption, NoneAssumption DEF ReadDocument, RecordsInv,
     RecordsIn, EditRecords, EditInv, EditAt, Opening, Making, Finish, Rest, Goto, Acquire,
     NoEdit, Edit, Document, TypeOK, Threads, Kinds
<1>2. ASSUME NEW r \in Requests, NEW text \in Texts, NEW records \in Records,
             SaveDocument(r, text, records)
      PROVE  RecordsInv'
  BY <1>2, BlankTypes, ConstantsAssumption, NoneAssumption DEF SaveDocument, RecordsInv,
     RecordsIn, EditRecords, EditInv, EditAt, Opening, Making, Finish, Rest, Goto, Acquire,
     NoEdit, Edit, Document, TypeOK, Threads, Kinds
<1>3. ASSUME NEW r \in Requests, NEW a \in Agents, ProposeState(r, a) PROVE RecordsInv'
  BY <1>3, BlankTypes, ConstantsAssumption, NoneAssumption DEF ProposeState, RecordsInv,
     RecordsIn, EditRecords, EditInv, EditAt, Opening, Making, Finish, Rest, Goto, Acquire,
     NoEdit, Edit, Document, TypeOK, Threads, Kinds
<1>4. ASSUME NEW r \in Requests, NEW id \in 1..issued, ApplyState(r, id) PROVE RecordsInv'
  BY <1>4, BlankTypes, ConstantsAssumption, NoneAssumption DEF ApplyState, RecordsInv,
     RecordsIn, EditRecords, EditInv, EditAt, Opening, Making, Finish, Rest, Goto, Acquire,
     NoEdit, Edit, Document, TypeOK, Threads, Kinds
<1>5. ASSUME NEW r \in Requests, NEW id \in 1..issued, DiscardState(r, id) PROVE RecordsInv'
  BY <1>5, BlankTypes, ConstantsAssumption, NoneAssumption DEF DiscardState, RecordsInv,
     RecordsIn, EditRecords, EditInv, EditAt, Opening, Making, Finish, Rest, Goto, Acquire,
     NoEdit, Edit, Document, TypeOK, Threads, Kinds
<1>6. ASSUME NEW a \in Agents, RunModule(a) PROVE RecordsInv'
  BY <1>6, BlankTypes, ConstantsAssumption, NoneAssumption DEF RunModule, RecordsInv,
     RecordsIn, EditRecords, EditInv, EditAt, Opening, Making, Finish, Rest, Goto, Acquire,
     NoEdit, Edit, Document, TypeOK, Threads, Kinds
<1>7. ASSUME NEW r \in Requests, CompareRevision(r) PROVE RecordsInv'
  <2>1. op[r].kind \in Kinds
    BY DEF TypeOK, Edit, Threads
  <2>2. QED BY <1>7, <2>1, CompareEffect, BlankTypes
            DEF RecordsInv, RecordsIn, EditRecords, NoEdit, Threads
<1>8. ASSUME NEW r \in Requests, WriteSaved(r) PROVE RecordsInv'
  BY <1>8, BlankTypes, ConstantsAssumption, NoneAssumption DEF WriteSaved, RecordsInv,
     RecordsIn, EditRecords, EditInv, EditAt, Opening, Making, Finish, Rest, Goto, Acquire,
     NoEdit, Edit, Document, TypeOK, Threads, Kinds
<1>9. ASSUME NEW r \in Requests, PopApproval(r) PROVE RecordsInv'
  BY <1>9, BlankTypes, ConstantsAssumption, NoneAssumption DEF PopApproval, RecordsInv,
     RecordsIn, EditRecords, EditInv, EditAt, Opening, Making, Finish, Rest, Goto, Acquire,
     NoEdit, Edit, Document, TypeOK, Threads, Kinds
<1>10. ASSUME Hold PROVE RecordsInv'
  BY <1>10, BlankTypes, ConstantsAssumption, NoneAssumption DEF Hold, RecordsInv, RecordsIn,
     EditRecords, EditInv, EditAt, Opening, Making, Finish, Rest, Goto, Acquire, NoEdit, Edit,
     Document, TypeOK, Threads, Kinds
<1>11. ASSUME NEW t \in Threads, ReadState(t) PROVE RecordsInv'
  BY <1>11, BlankTypes, ConstantsAssumption, NoneAssumption DEF ReadState, RecordsInv,
     RecordsIn, EditRecords, EditInv, EditAt, Opening, Making, Finish, Rest, Goto, Acquire,
     NoEdit, Edit, Document, TypeOK, Threads, Kinds
<1>12. ASSUME NEW t \in Threads, ReadInputs(t) PROVE RecordsInv'
  <2>1. /\ op'[t].base = op[t].base /\ op'[t].id = 0 /\ pc[t] = "read_inputs"
        /\ pc'[t] = "model"
        /\ \A u \in Threads \ {t} : pc'[u] = pc[u] /\ op'[u] = op[u]
        /\ UNCHANGED <<docs, pending, accepted>>
    BY <1>12 DEF ReadInputs, Goto, EditInv, EditAt, Opening, Making, TypeOK, Edit
  <2>2. QED BY <2>1 DEF RecordsInv, RecordsIn, EditRecords
<1>13. ASSUME NEW t \in Threads, NoProposal(t) PROVE RecordsInv'
  BY <1>13, BlankTypes, ConstantsAssumption, NoneAssumption DEF NoProposal, RecordsInv,
     RecordsIn, EditRecords, EditInv, EditAt, Opening, Making, Finish, Rest, Goto, Acquire,
     NoEdit, Edit, Document, TypeOK, Threads, Kinds
<1>14. ASSUME NEW t \in Threads, NEW text \in Texts, NEW empty \in BOOLEAN,
             ModelAnswers(t, text, empty)
      PROVE  RecordsInv'
  <2> DEFINE new == Proposed(op[t].base, op[t].author, op[t].output, text, empty)
             e   == [op[t] EXCEPT !.id = issued + 1, !.new = new]
  <2>1. /\ op[t] \in Edit /\ op[t].author \in Agents
        /\ RecordsIn(op[t].base, accepted)
    BY <1>14 DEF ModelAnswers, TypeOK, EditInv, EditAt, Opening, Making, RecordsInv
  <2>2. RecordsIn(new, accepted \cup {<<op[t].author, op[t].output>>})
    BY <2>1 DEF Proposed, Record, RecordsIn, Edit, Document, Records
  <2>3. e.new = new /\ e.author = op[t].author /\ e.output = op[t].output
    BY <2>1 DEF Edit
  <2>4. EditRecords(e)
    BY <2>2, <2>3 DEF EditRecords
  <2>5. e.id # 0
    BY <2>1, ConstantsAssumption DEF Edit, TypeOK
  <2>6. /\ op'[t] \in {e, NoEdit} /\ pc'[t] \in {"check", "hold", "idle"}
        /\ \A u \in Threads \ {t} : pc'[u] = pc[u] /\ op'[u] = op[u]
        /\ pending' \in {e, pending} /\ UNCHANGED <<docs, accepted>>
    BY <1>14 DEF ModelAnswers, Finish, Rest, Goto, TypeOK
  <2> HIDE DEF new, e
  <2>7. QED BY <2>4, <2>5, <2>6 DEF RecordsInv, EditRecords, RecordsIn, NoEdit
<1>15. ASSUME NEW t \in Threads, CheckState(t) PROVE RecordsInv'
  <2>1. /\ \A u \in Threads \ {t} : pc'[u] = pc[u] /\ op'[u] = op[u]
        /\ UNCHANGED <<docs, pending, accepted>>
    BY <1>15 DEF CheckState, Finish, Rest, Goto, TypeOK, Threads
  <2>2. \/ pc'[t] = "check_brief" /\ op'[t] = op[t]
        \/ pc'[t] \in {"idle", "ready"} /\ op'[t].id = 0
    BY <1>15 DEF CheckState, Finish, Rest, Goto, TypeOK, Threads, NoEdit
  <2>3. QED BY <2>1, <2>2 DEF RecordsInv, EditRecords, RecordsIn
<1>16. ASSUME NEW t \in Threads, CheckBrief(t) PROVE RecordsInv'
  BY <1>16, BlankTypes, ConstantsAssumption, NoneAssumption DEF CheckBrief, RecordsInv,
     RecordsIn, EditRecords, EditInv, EditAt, Opening, Making, Finish, Rest, Goto, Acquire,
     NoEdit, Edit, Document, TypeOK, Threads, Kinds
<1>17. ASSUME NEW t \in Threads, WriteBackup(t) PROVE RecordsInv'
  BY <1>17, BlankTypes, ConstantsAssumption, NoneAssumption DEF WriteBackup, RecordsInv,
     RecordsIn, EditRecords, EditInv, EditAt, Opening, Making, Finish, Rest, Goto, Acquire,
     NoEdit, Edit, Document, TypeOK, Threads, Kinds
<1>18. ASSUME NEW t \in Threads, WriteProposed(t) PROVE RecordsInv'
  BY <1>18, BlankTypes, ConstantsAssumption, NoneAssumption DEF WriteProposed, RecordsInv,
     RecordsIn, EditRecords, EditInv, EditAt, Opening, Making, Finish, Rest, Goto, Acquire,
     NoEdit, Edit, Document, TypeOK, Threads, Kinds
<1>19. ASSUME NEW t \in Threads, WriteFails(t) PROVE RecordsInv'
  BY <1>19, BlankTypes, ConstantsAssumption, NoneAssumption DEF WriteFails, RecordsInv,
     RecordsIn, EditRecords, EditInv, EditAt, Opening, Making, Finish, Rest, Goto, Acquire,
     NoEdit, Edit, Document, TypeOK, Threads, Kinds
<1>20. ASSUME Restart PROVE RecordsInv'
  BY <1>20, BlankTypes, ConstantsAssumption, NoneAssumption DEF Restart, RecordsInv, RecordsIn,
     EditRecords, EditInv, EditAt, Opening, Making, Finish, Rest, Goto, Acquire, NoEdit, Edit,
     Document, TypeOK, Threads, Kinds
<1>21. ASSUME UNCHANGED vars PROVE RecordsInv'
  BY <1>21, BlankTypes, ConstantsAssumption, NoneAssumption DEF vars, RecordsInv, RecordsIn,
     EditRecords, EditInv, EditAt, Opening, Making, Finish, Rest, Goto, Acquire, NoEdit, Edit,
     Document, TypeOK, Threads, Kinds
<1>22. ASSUME NEW r \in Requests, OpenProject(r) PROVE RecordsInv'
  BY <1>22, BlankTypes, ConstantsAssumption, NoneAssumption DEF OpenProject, Migrating, RecordsInv,
     RecordsIn, EditRecords, EditInv, EditAt, Opening, Making, Goto, NoEdit, Edit, Document,
     TypeOK, Threads, Kinds
<1>23. ASSUME OpenJob PROVE RecordsInv'
  BY <1>23, BlankTypes, ConstantsAssumption, NoneAssumption DEF OpenJob, Migrating, RecordsInv,
     RecordsIn, EditRecords, EditInv, EditAt, Opening, Making, Goto, NoEdit, Edit, Document,
     TypeOK, Threads, Kinds
<1>24. ASSUME NEW t \in Threads, MigrateWrite(t) PROVE RecordsInv'
  BY <1>24, BlankTypes, ConstantsAssumption, NoneAssumption DEF MigrateWrite, RecordsInv,
     RecordsIn, EditRecords, EditInv, EditAt, Opening, Making, Goto, NoEdit, Edit, Document,
     TypeOK, Threads, Kinds
<1>25. ASSUME NEW t \in Threads, Reread(t) PROVE RecordsInv'
  BY <1>25, BlankTypes, ConstantsAssumption, NoneAssumption DEF Reread, RecordsInv,
     RecordsIn, EditRecords, EditInv, EditAt, Opening, Making, Goto, NoEdit, Edit, Document,
     TypeOK, Threads, Kinds
<1>26. QED
  BY <1>1, <1>2, <1>3, <1>4, <1>5, <1>6, <1>7, <1>8, <1>9, <1>10, <1>11, <1>12, <1>13,
     <1>14, <1>15, <1>16, <1>17, <1>18, <1>19, <1>20, <1>21, <1>22, <1>23, <1>24, <1>25
     DEF Next, Begin, Continue


\* What clients save and models make, through every step.
LEMMA MadeNext ==
    DeskInv /\ [Next]_vars => MadeInv'
<1> SUFFICES ASSUME DeskInv, [Next]_vars PROVE MadeInv'
    OBVIOUS
<1>0. TypeOK /\ LockInv /\ EditInv /\ ProposalInv /\ MadeInv
  BY DEF DeskInv
<1>1. ASSUME NEW r \in Requests, NEW k \in Kinds, ReadDocument(r, k) PROVE MadeInv'
  BY <1>0, <1>1, ConstantsAssumption, NoneAssumption DEF ReadDocument, MadeInv, Opening,
     Making, LockInv, EditInv, EditAt, Finish, Rest, Goto, Acquire, NoEdit, Edit, Document,
     TypeOK, Threads, Kinds
<1>2. ASSUME NEW r \in Requests, NEW text \in Texts, NEW records \in Records,
             SaveDocument(r, text, records) PROVE MadeInv'
  BY <1>0, <1>2, ConstantsAssumption, NoneAssumption DEF SaveDocument, MadeInv, Opening,
     Making, LockInv, EditInv, EditAt, Finish, Rest, Goto, Acquire, NoEdit, Edit, Document,
     TypeOK, Threads, Kinds
<1>3. ASSUME NEW r \in Requests, NEW a \in Agents, ProposeState(r, a) PROVE MadeInv'
  BY <1>0, <1>3, ConstantsAssumption, NoneAssumption DEF ProposeState, MadeInv, Opening,
     Making, LockInv, EditInv, EditAt, Finish, Rest, Goto, Acquire, NoEdit, Edit, Document,
     TypeOK, Threads, Kinds
<1>4. ASSUME NEW r \in Requests, NEW id \in 1..issued, ApplyState(r, id) PROVE MadeInv'
  BY <1>0, <1>4, ConstantsAssumption, NoneAssumption DEF ApplyState, MadeInv, Opening, Making,
     LockInv, EditInv, EditAt, Finish, Rest, Goto, Acquire, NoEdit, Edit, Document, TypeOK,
     Threads, Kinds
<1>5. ASSUME NEW r \in Requests, NEW id \in 1..issued, DiscardState(r, id) PROVE MadeInv'
  BY <1>0, <1>5, ConstantsAssumption, NoneAssumption DEF DiscardState, MadeInv, Opening,
     Making, LockInv, EditInv, EditAt, Finish, Rest, Goto, Acquire, NoEdit, Edit, Document,
     TypeOK, Threads, Kinds
<1>6. ASSUME NEW a \in Agents, RunModule(a) PROVE MadeInv'
  <2>1. /\ modules \in [Agents -> Nat] /\ \A x \in Agents : modules'[x] \in Nat
        /\ \A x \in Agents : modules'[x] >= modules[x]
        /\ modules'[a] # 0
    BY <1>0, <1>6, ConstantsAssumption DEF RunModule, TypeOK, Records, Versions
  <2>2. \A x \in Agents : /\ modules[x] # 0 => modules'[x] # 0
                         /\ \A n \in 1..modules[x] : n \in 1..modules'[x]
    BY <2>1
  <2>3. \A t \in Threads : pc[t] \in Making \/ op[t].id # 0 => op[t].author \in Agents
    BY <1>0 DEF EditInv, EditAt, Opening, Making
  <2>4. \A r \in Requests : pc'[r] = pc[r] /\ op'[r] = op[r] /\ r # Job
    BY <1>0, <1>6, ConstantsAssumption DEF RunModule, Goto, TypeOK, Threads
  <2>8. \A r \in Requests : pc[r] \in Opening => op[r].author \in Agents
    BY <1>0, ConstantsAssumption DEF EditInv, EditAt, Opening, Threads
  <2>5. \/ pc'[Job] = pc[Job] /\ op'[Job] = op[Job]
        \/ pc'[Job] = "read_state" /\ op'[Job].author = a /\ op'[Job].id = 0
    BY <1>0, <1>6 DEF RunModule, Goto, TypeOK, Threads, EditInv, EditAt, Opening, Making,
     NoEdit, Edit
  <2>6. shown' = shown /\ pending' = pending
    BY <1>6 DEF RunModule
  <2>7. QED BY <1>0, <2>1, <2>2, <2>3, <2>4, <2>5, <2>6, <2>8 DEF MadeInv, Opening, Making, Threads
<1>7. ASSUME NEW r \in Requests, CompareRevision(r) PROVE MadeInv'
  <2>1. /\ \A t \in Threads \ {r} : pc'[t] = pc[t] /\ op'[t] = op[t]
        /\ UNCHANGED <<modules, shown, pending>>
        /\ r \in Threads /\ r # Job /\ pc[r] = "compare" /\ op[r].id = 0 /\ op'[r].id = 0
        /\ \/ pc'[r] = "idle"
           \/ /\ pc'[r] = "backup" /\ op'[r].kind = op[r].kind
              /\ op'[r].base = op[r].base /\ op'[r].new.reflected = op'[r].base.reflected
    BY <1>0, <1>7, CompareEffect DEF NoEdit
  <2>2. Job \in Threads /\ \A q \in Requests : q \in Threads
    BY DEF Threads
  <2>3. CASE pc'[r] = "idle"
    BY <1>0, <2>1, <2>2, <2>3, ConstantsAssumption DEF MadeInv, Opening, Making
  <2>4. CASE pc'[r] = "backup"
    BY <1>0, <2>1, <2>2, <2>4, ConstantsAssumption DEF MadeInv, Opening, Making
  <2>5. QED BY <2>1, <2>3, <2>4
<1>8. ASSUME NEW r \in Requests, WriteSaved(r) PROVE MadeInv'
  BY <1>0, <1>8, ConstantsAssumption, NoneAssumption DEF WriteSaved, MadeInv, Opening, Making,
     LockInv, EditInv, EditAt, Finish, Rest, Goto, Acquire, NoEdit, Edit, Document, TypeOK,
     Threads, Kinds
<1>9. ASSUME NEW r \in Requests, PopApproval(r) PROVE MadeInv'
  BY <1>0, <1>9, ConstantsAssumption, NoneAssumption DEF PopApproval, MadeInv, Opening, Making,
     LockInv, EditInv, EditAt, Finish, Rest, Goto, Acquire, NoEdit, Edit, Document, TypeOK,
     Threads, Kinds
<1>10. ASSUME Hold PROVE MadeInv'
  BY <1>0, <1>10, ConstantsAssumption, NoneAssumption DEF Hold, MadeInv, Opening, Making,
     LockInv, EditInv, EditAt, Finish, Rest, Goto, Acquire, NoEdit, Edit, Document, TypeOK,
     Threads, Kinds
<1>11. ASSUME NEW t \in Threads, ReadState(t) PROVE MadeInv'
  BY <1>0, <1>11, ConstantsAssumption, NoneAssumption DEF ReadState, MadeInv, Opening, Making,
     LockInv, EditInv, EditAt, Finish, Rest, Goto, Acquire, NoEdit, Edit, Document, TypeOK,
     Threads, Kinds
<1>12. ASSUME NEW t \in Threads, ReadInputs(t) PROVE MadeInv'
  <2>1. /\ pc[t] = "read_inputs" /\ pc'[t] = "model"
        /\ op'[t].author = op[t].author /\ op'[t].id = 0
        /\ op'[t].output = modules[op[t].author]
        /\ \A u \in Threads \ {t} : pc'[u] = pc[u] /\ op'[u] = op[u]
    BY <1>0, <1>12 DEF ReadInputs, Goto, TypeOK, Threads, Edit, EditInv, EditAt, Opening,
     Making
  <2>2. op[t].author \in Agents /\ modules[op[t].author] \in Nat \ {0}
    BY <1>0, <2>1 DEF EditInv, EditAt, Opening, Making, MadeInv, TypeOK, Records, Versions
  <2>3. shown' = shown /\ pending' = pending /\ modules' = modules
    BY <1>12 DEF ReadInputs
  <2>4. \A u \in Requests : u \in Threads /\ u # Job
    BY ConstantsAssumption DEF Threads
  <2>5. op'[t].output \in 1..modules'[op'[t].author]
    BY <2>1, <2>2, <2>3
  <2>6. QED BY <1>0, <2>1, <2>2, <2>3, <2>4, <2>5 DEF MadeInv, Opening, Making, Threads
<1>13. ASSUME NEW t \in Threads, NoProposal(t) PROVE MadeInv'
  BY <1>0, <1>13, ConstantsAssumption, NoneAssumption DEF NoProposal, MadeInv, Opening, Making,
     LockInv, EditInv, EditAt, Finish, Rest, Goto, Acquire, NoEdit, Edit, Document, TypeOK,
     Threads, Kinds
<1>14. ASSUME NEW t \in Threads, NEW text \in Texts, NEW empty \in BOOLEAN,
             ModelAnswers(t, text, empty) PROVE MadeInv'
  <2> DEFINE new == Proposed(op[t].base, op[t].author, op[t].output, text, empty)
             e   == [op[t] EXCEPT !.id = issued + 1, !.new = new]
  <2>1. /\ op[t] \in Edit /\ pc[t] = "model" /\ op[t].author \in Agents
        /\ op[t].output \in 1..modules[op[t].author]
    BY <1>0, <1>14 DEF ModelAnswers, EditInv, EditAt, Opening, Making, MadeInv, TypeOK
  <2>2. new.reflected \in {op[t].base.reflected,
                           [op[t].base.reflected EXCEPT ![op[t].author] = op[t].output]}
    BY <2>1 DEF Proposed, Record, Edit, Document
  <2>3. e.author = op[t].author /\ e.output = op[t].output /\ e.base = op[t].base /\ e.new = new
    <3> HIDE DEF new
    <3>1. QED BY <2>1 DEF Edit
  <2> HIDE DEF new, e
  <2>4. \A u \in Threads \ {t} : pc'[u] = pc[u] /\ op'[u] = op[u]
    BY <1>0, <1>14 DEF ModelAnswers, Finish, Rest, Goto, TypeOK, Threads, e, new
  <2>5. shown' = shown /\ modules' = modules
    BY <1>14 DEF ModelAnswers
  <2>6. CASE t = Job
    <3>1. op'[t] = e /\ pending' = pending /\ pc'[t] \in {"check", "hold"}
      BY <1>0, <1>14, <2>6 DEF ModelAnswers, Goto, TypeOK, Threads, e, new
    <3>2. QED BY <1>0, <2>1, <2>2, <2>3, <2>4, <2>5, <2>6, <3>1, ConstantsAssumption
              DEF MadeInv, Opening, Making, Threads
  <2>7. CASE t # Job
    <3>1. pc'[t] = "idle" /\ lock = t /\ op'[Job] = op[Job] /\ pc'[Job] = pc[Job]
      BY <1>0, <1>14, <2>1, <2>4, <2>7 DEF ModelAnswers, Finish, Rest, Goto, TypeOK, Threads,
     LockInv
    <3>2. \A u \in Requests : u # t => pc[u] = "idle" /\ pc'[u] = "idle"
      BY <1>0, <2>4, <3>1 DEF LockInv, Threads
    <3>3. QED BY <1>0, <2>4, <2>5, <2>7, <3>1, <3>2 DEF MadeInv, Opening, Making, Threads
  <2>8. QED BY <2>6, <2>7
<1>15. ASSUME NEW t \in Threads, CheckState(t) PROVE MadeInv'
  <2>1. /\ \A u \in Threads \ {t} : pc'[u] = pc[u] /\ op'[u] = op[u]
        /\ shown' = shown /\ pending' = pending /\ modules' = modules
    BY <1>0, <1>15 DEF CheckState, Finish, Rest, Goto, TypeOK, Threads
  <2>2. \/ pc'[t] = "check_brief" /\ op'[t] = op[t]
        \/ pc'[t] \in {"idle", "ready"} /\ op'[t].id = 0
    BY <1>0, <1>15 DEF CheckState, Finish, Rest, Goto, TypeOK, Threads, NoEdit
  <2>3. QED BY <1>0, <2>1, <2>2, ConstantsAssumption DEF MadeInv, Opening, Making, Threads
<1>16. ASSUME NEW t \in Threads, CheckBrief(t) PROVE MadeInv'
  <2>1. /\ \A u \in Threads \ {t} : pc'[u] = pc[u] /\ op'[u] = op[u]
        /\ shown' = shown /\ pending' = pending /\ modules' = modules
    BY <1>0, <1>16 DEF CheckBrief, Finish, Rest, Goto, TypeOK, Threads
  <2>2. \/ pc'[t] = "reread" /\ op'[t] = op[t]
        \/ pc'[t] \in {"idle", "ready"} /\ op'[t].id = 0
    BY <1>0, <1>16 DEF CheckBrief, Finish, Rest, Goto, TypeOK, Threads, NoEdit, LockInv
  <2>3. QED BY <1>0, <2>1, <2>2, ConstantsAssumption DEF MadeInv, Opening, Making, Threads
<1>17. ASSUME NEW t \in Threads, WriteBackup(t) PROVE MadeInv'
  BY <1>0, <1>17, ConstantsAssumption, NoneAssumption DEF WriteBackup, MadeInv, Opening,
     Making, LockInv, EditInv, EditAt, Finish, Rest, Goto, Acquire, NoEdit, Edit, Document,
     TypeOK, Threads, Kinds
<1>18. ASSUME NEW t \in Threads, WriteProposed(t) PROVE MadeInv'
  <2>1. /\ \A u \in Threads \ {t} : pc'[u] = pc[u] /\ op'[u] = op[u]
        /\ shown' = shown /\ pending' = pending /\ modules' = modules
    BY <1>0, <1>18 DEF WriteProposed, Finish, Rest, Goto, TypeOK, Threads
  <2>2. \/ pc'[t] = "pop" /\ op'[t] = op[t]
        \/ pc'[t] \in {"idle", "ready"} /\ op'[t].id = 0
    BY <1>0, <1>18 DEF WriteProposed, Finish, Rest, Goto, TypeOK, Threads, NoEdit, LockInv
  <2>3. QED BY <1>0, <2>1, <2>2, ConstantsAssumption DEF MadeInv, Opening, Making, Threads
<1>19. ASSUME NEW t \in Threads, WriteFails(t) PROVE MadeInv'
  BY <1>0, <1>19, ConstantsAssumption, NoneAssumption DEF WriteFails, MadeInv, Opening, Making,
     LockInv, EditInv, EditAt, Finish, Rest, Goto, Acquire, NoEdit, Edit, Document, TypeOK,
     Threads, Kinds
<1>20. ASSUME Restart PROVE MadeInv'
  BY <1>0, <1>20, ConstantsAssumption, NoneAssumption DEF Restart, MadeInv, Opening, Making,
     LockInv, EditInv, EditAt, Finish, Rest, Goto, Acquire, NoEdit, Edit, Document, TypeOK,
     Threads, Kinds
<1>21. ASSUME UNCHANGED vars PROVE MadeInv'
  BY <1>0, <1>21, ConstantsAssumption, NoneAssumption DEF vars, MadeInv, Opening, Making,
     LockInv, EditInv, EditAt, Finish, Rest, Goto, Acquire, NoEdit, Edit, Document, TypeOK,
     Threads, Kinds
<1>22. ASSUME NEW r \in Requests, OpenProject(r) PROVE MadeInv'
  <2>1. /\ \A u \in Threads \ {r} : pc'[u] = pc[u] /\ op'[u] = op[u]
        /\ shown' = shown /\ pending' = pending /\ modules' = modules
        /\ r \in Threads /\ r # Job /\ pc[r] = "open" /\ op[r].id = 0
    BY <1>0, <1>22, ConstantsAssumption
       DEF OpenProject, Migrating, Goto, TypeOK, Threads, EditInv, EditAt
  <2>2. /\ pc'[r] \in {"migrate", "read_state"}
        /\ op'[r].author = op[r].author /\ op'[r].id = 0
    <3>1. /\ op[r] \in Edit
          /\ \/ op' = op /\ pc'[r] = "read_state"
             \/ op' = [op EXCEPT ![r].base = docs["state"]] /\ pc'[r] = "migrate"
      BY <1>0, <1>22, <2>1 DEF OpenProject, Migrating, Goto, TypeOK
    <3>2. QED BY <1>0, <2>1, <3>1 DEF Edit, TypeOK
  <2>3. pending = None /\ modules[op[r].author] # 0
    BY <1>0, <2>1 DEF MadeInv, Opening
  <2>4. QED BY <1>0, <2>1, <2>2, <2>3 DEF MadeInv, Opening, Making, Threads
<1>23. ASSUME OpenJob PROVE MadeInv'
  BY <1>0, <1>23, ConstantsAssumption, NoneAssumption DEF OpenJob, Migrating, MadeInv, LockInv, EditInv,
     EditAt, Opening, Making, Goto, NoEdit, Edit, Document, TypeOK, Threads, Kinds
<1>24. ASSUME NEW t \in Threads, MigrateWrite(t) PROVE MadeInv'
  BY <1>0, <1>24, ConstantsAssumption, NoneAssumption DEF MigrateWrite, MadeInv, LockInv, EditInv,
     EditAt, Opening, Making, Goto, NoEdit, Edit, Document, TypeOK, Threads, Kinds
<1>25. ASSUME NEW t \in Threads, Reread(t) PROVE MadeInv'
  BY <1>0, <1>25, ConstantsAssumption, NoneAssumption DEF Reread, MadeInv, LockInv, EditInv,
     EditAt, Opening, Making, Goto, NoEdit, Edit, Document, TypeOK, Threads, Kinds
<1>26. QED
  BY <1>1, <1>2, <1>3, <1>4, <1>5, <1>6, <1>7, <1>8, <1>9, <1>10, <1>11, <1>12, <1>13,
     <1>14, <1>15, <1>16, <1>17, <1>18, <1>19, <1>20, <1>21, <1>22, <1>23, <1>24, <1>25
     DEF Next, Begin, Continue

----------------------------------------------------------------------------
\* The inductive invariant of the documents, the desk and its threads, in
\* every mode.
THEOREM DeskInvariant == Spec => []DeskInv
<1>1. Init => DeskInv
  <2> SUFFICES ASSUME Init PROVE DeskInv
      OBVIOUS
  <2>1. TypeOK
    BY TypeInit
  <2>2. LockInv /\ EditInv /\ ProposalInv
    BY ConstantsAssumption
       DEF Init, LockInv, EditInv, EditAt, Opening, Making, ProposalInv, PendingIds, Threads,
     NoEdit, Applying
  <2>3. ComparedInv /\ RecordsInv
    BY DEF Init, ComparedInv, Window, RecordsInv, RecordsIn, EditRecords, Threads, NoEdit,
     Blank, NoRecords, Kinds
  <2>4. MadeInv
    BY DEF Init, MadeInv, Opening, Making, Threads, NoEdit
  <2>5. QED BY <2>1, <2>2, <2>3, <2>4 DEF DeskInv
<1>2. DeskInv /\ [Next]_vars => DeskInv'
  BY TypeNext, LockNext, EditNext, ProposalNext, ComparedNext, RecordsNext, MadeNext DEF
     DeskInv
<1>3. QED BY <1>1, <1>2, PTL DEF Spec

\* Only one step writes a backup.
LEMMA PrevChange ==
    [Next]_vars /\ prev' # prev => \E t \in Threads : WriteBackup(t)
<1> SUFFICES ASSUME [Next]_vars, prev' # prev PROVE \E t \in Threads : WriteBackup(t)
    OBVIOUS
<1>1. ASSUME NEW r \in Requests, Begin(r) PROVE UNCHANGED prev
  BY <1>1 DEF Begin, ReadDocument, SaveDocument, ProposeState, ApplyState, DiscardState
<1>2. ASSUME NEW t \in Threads, Continue(t) PROVE WriteBackup(t)
  BY <1>2 DEF Continue, CompareRevision, WriteSaved, PopApproval, OpenProject, Hold,
     MigrateWrite, ReadState, ReadInputs, NoProposal, ModelAnswers, CheckState, CheckBrief,
     Reread, WriteProposed, WriteFails
<1>3. OpenJob \/ (\E a \in Agents : RunModule(a)) \/ Restart \/ UNCHANGED vars => UNCHANGED prev
  BY DEF OpenJob, RunModule, Restart, vars
<1>4. QED BY <1>1, <1>2, <1>3 DEF Next

\* In every mode what a designer's save or approval was made from is something
\* the document has been since the last of them, and an approved state also
\* has its brief unchanged: only the program's own writing came in between.
THEOREM NoStaleWriteHolds == Spec => NoStaleWrite
<1> DEFINE Fresh(r, k) ==
        DesignerWrites(r, k) =>
            /\ op[r].base \in Window(k)
            /\ op[r].id # 0 => op[r].brief = docs["brief"]
<1>1. DeskInv => \A r \in Requests, k \in Kinds : Fresh(r, k)
  BY DEF DeskInv, ComparedInv, DesignerWrites
<1>2. DeskInv /\ [Next]_vars => [\A r \in Requests, k \in Kinds : Fresh(r, k)]_vars
  BY <1>1
<1>3. QED BY <1>2, DeskInvariant, PTL DEF Spec, NoStaleWrite

\* Outside "auto" mode every backup is of a version the document has had since
\* a designer last wrote it, also when the write after it fails; and so is the
\* one there is when a designer's write takes place.
THEOREM BackupKeepsPreviousHolds ==
    ASSUME Mode # "auto" PROVE Spec => BackupKeepsPrevious
<1> DEFINE Kept(k) ==
        /\ prev'[k] # prev[k] => prev'[k] \in Window(k)
        /\ (\E r \in Requests : DesignerWrites(r, k)) => prev[k] \in Window(k)
<1>1. ASSUME DeskInv, [Next]_vars, NEW k \in Kinds, prev'[k] # prev[k]
      PROVE  prev'[k] \in Window(k)
  <2>1. PICK t \in Threads : WriteBackup(t)
    BY <1>1, PrevChange
  <2>2. t \in Requests
    BY <1>1, <2>1, ConstantsAssumption DEF DeskInv, LockInv, Threads, WriteBackup, Applying
  <2>3. op[t].kind = k /\ prev'[k] = op[t].old
    BY <1>1, <2>1 DEF DeskInv, TypeOK, WriteBackup
  <2>4. QED BY <1>1, <2>1, <2>2, <2>3 DEF DeskInv, ComparedInv, WriteBackup
<1>2. ASSUME DeskInv, NEW k \in Kinds, NEW r \in Requests, DesignerWrites(r, k)
      PROVE  prev[k] \in Window(k)
  BY <1>2 DEF DeskInv, ComparedInv, DesignerWrites
<1>3. DeskInv /\ [Next]_vars => [\A k \in Kinds : Kept(k)]_vars
  BY <1>1, <1>2
<1>4. QED BY <1>3, DeskInvariant, PTL DEF Spec, BackupKeepsPrevious

\* In every mode an output nobody accepted is still shown as not in the state.
THEOREM FreshUntilAcceptedHolds == Spec => []FreshUntilAccepted
<1>1. DeskInv => FreshUntilAccepted
  BY DEF DeskInv, RecordsInv, RecordsIn, FreshUntilAccepted, FreshModules, Kinds
<1>2. QED BY <1>1, DeskInvariant, PTL

\* In every mode a proposal is applied at most once, and never after it was
\* skipped or replaced.
THEOREM ClosedStaysClosedHolds == Spec => []ClosedStaysClosed
<1>1. DeskInv => ClosedStaysClosed
  BY DEF DeskInv, ProposalInv, ClosedStaysClosed, Applying, Threads
<1>2. QED BY <1>1, DeskInvariant, PTL

\* In every mode the approval on the desk can still be answered.
THEOREM PendingCanBeAnsweredHolds == Spec => []PendingCanBeAnswered
<1>1. DeskInv => PendingCanBeAnswered
  BY DEF DeskInv, ProposalInv, PendingCanBeAnswered
<1>2. QED BY <1>1, DeskInvariant, PTL

----------------------------------------------------------------------------
(* The refinement: outside "auto" mode each step of the threads is a step   *)
(* of ApprovalContract or leaves its variables alone.                       *)

\* What the contract sees of a step that writes nothing and answers nothing.
LEMMA SameOffer ==
    ASSUME pending' = pending,
           \A r \in Requests : (pc'[r] = "pop") <=> (pc[r] = "pop")
    PROVE  Offered' = Offered
BY DEF Offered, BeingPopped

\* While no request is at the step between the write and the removal, the
\* proposal on offer is the one on the desk.
LEMMA NothingPopped ==
    ASSUME \A r \in Requests : pc[r] # "pop"
    PROVE  Offered = pending
BY DEF Offered, BeingPopped

LEMMA NothingPoppedNext ==
    ASSUME \A r \in Requests : pc'[r] # "pop"
    PROVE  Offered' = pending'
BY DEF Offered, BeingPopped

\* While one thread has the lock no other request has begun.
LEMMA OthersIdle ==
    ASSUME LockInv, NEW r \in Requests, lock = r
    PROVE  \A q \in Requests \ {r} : pc[q] = "idle"
BY DEF LockInv

\* The steps before a write, and the failed ones, are invisible.
LEMMA QuietSteps ==
    ASSUME DeskInv, NEW t \in Threads,
           \/ (CompareRevision(t) \/ OpenProject(t)) /\ t \in Requests
           \/ ReadState(t) \/ ReadInputs(t) \/ NoProposal(t)
           \/ CheckState(t) \/ CheckBrief(t) \/ Reread(t) \/ WriteBackup(t) \/ WriteFails(t)
    PROVE  UNCHANGED Contract!vars
<1>1. pending' = pending /\ UNCHANGED <<docs, modules, shown, closed, since, accepted>>
  BY DEF CompareRevision, OpenProject, ReadState, ReadInputs, NoProposal, CheckState,
         CheckBrief, Reread, WriteBackup, WriteFails
<1>2. \A u \in Threads : (pc'[u] = "pop") <=> (pc[u] = "pop")
  BY DEF CompareRevision, OpenProject, Migrating, ReadState, ReadInputs, NoProposal,
         CheckState, CheckBrief, Reread, WriteBackup, WriteFails, Finish, Rest, Goto,
         DeskInv, TypeOK
<1>3. QED BY <1>1, <1>2, SameOffer DEF Threads, Contract!vars

\* A job that opens the project does no more than that for now.
LEMMA OpenJobQuiet == ASSUME DeskInv, OpenJob PROVE UNCHANGED Contract!vars
<1>1. pending' = pending /\ UNCHANGED <<docs, modules, shown, closed, since, accepted>>
  BY DEF OpenJob
<1>2. \A r \in Requests : (pc'[r] = "pop") <=> (pc[r] = "pop")
  BY ConstantsAssumption DEF OpenJob, Migrating, Goto, DeskInv, TypeOK, Threads
<1>3. QED BY <1>1, <1>2, SameOffer DEF Contract!vars

\* A migration's write, which nothing holds off, is the program's upkeep: what
\* it read and now writes back records accepted outputs only.
LEMMA MigrateWriteRefines ==
    ASSUME DeskInv, NEW t \in Threads, MigrateWrite(t) PROVE Contract!Upkeep
<1> DEFINE text    == op[t].base.text
           records == op[t].base.reflected
           synced  == [text |-> Synced[text], reflected |-> records]
<1>1. /\ TypeOK /\ op[t].base \in Document /\ text \in Texts
      /\ records \in [Agents -> 0..MaxVersion]
  BY DEF DeskInv, TypeOK, Edit, Document, Records, Versions
<1>2. \A a \in Agents : records[a] # 0 => <<a, records[a]>> \in accepted
  BY DEF DeskInv, RecordsInv, RecordsIn, MigrateWrite
<1>3. [op[t].base EXCEPT !.text = Synced[op[t].base.text]] = synced
  BY <1>1 DEF Document
<1>4. /\ docs' = [docs EXCEPT !["state"] = synced] /\ since' = since \cup {synced}
      /\ UNCHANGED <<modules, shown, pending, closed, accepted>>
  BY <1>3 DEF MigrateWrite
<1>5. \A r \in Requests : (pc'[r] = "pop") <=> (pc[r] = "pop")
  BY <1>1 DEF MigrateWrite, Goto, TypeOK, Threads
<1>6. Offered' = Offered
  BY <1>4, <1>5, SameOffer
<1> HIDE DEF records, text
<1>7. QED BY <1>1, <1>2, <1>4, <1>6 DEF Contract!Upkeep

\* A request's first step shows a document, withdraws an offer or is invisible.
LEMMA BeginRefines ==
    ASSUME DeskInv, NEW r \in Requests, Begin(r)
    PROVE  [Contract!Next]_Contract!vars
<1>0. TypeOK /\ LockInv /\ r \in Threads
  BY DEF DeskInv, Threads
<1>1. ASSUME NEW k \in Kinds, ReadDocument(r, k) PROVE Contract!Show(r, k)
  <2>1. Offered' = Offered
    BY <1>1, SameOffer DEF ReadDocument
  <2>2. QED BY <1>1, <2>1 DEF ReadDocument, Contract!Show
<1>2. ASSUME NEW text \in Texts, NEW records \in Records,
             SaveDocument(r, text, records)
      PROVE  UNCHANGED Contract!vars
  <2>1. Offered' = Offered
    BY <1>0, <1>2, SameOffer DEF SaveDocument, Goto, TypeOK, Threads
  <2>2. QED BY <1>2, <2>1 DEF SaveDocument, Contract!vars
<1>3. ASSUME NEW a \in Agents, ProposeState(r, a) PROVE Contract!Withdraw
  <2>1. \A q \in Requests : pc[q] # "pop" /\ pc'[q] # "pop"
    BY <1>0, <1>3, ConstantsAssumption
       DEF ProposeState, Acquire, LockInv, Goto, TypeOK, Threads
  <2>2. Offered = pending /\ Offered' = None
    BY <1>3, <2>1, NothingPopped, NothingPoppedNext DEF ProposeState
  <2>3. QED BY <1>3, <2>2
            DEF ProposeState, PendingIds, Contract!Withdraw, Contract!OfferIds
<1>4. ASSUME NEW id \in 1..issued, ApplyState(r, id) PROVE UNCHANGED Contract!vars
  <2>1. Offered' = Offered
    BY <1>0, <1>4, SameOffer DEF ApplyState, Goto, TypeOK, Threads
  <2>2. QED BY <1>4, <2>1 DEF ApplyState, Contract!vars
<1>5. ASSUME NEW id \in 1..issued, DiscardState(r, id) PROVE Contract!Withdraw
  <2>1. \A q \in Requests : pc[q] # "pop" /\ pc'[q] # "pop"
    BY <1>0, <1>5, ConstantsAssumption DEF DiscardState, LockInv, Threads
  <2>2. Offered = pending /\ Offered' = None
    BY <1>5, <2>1, NothingPopped, NothingPoppedNext DEF DiscardState
  <2>3. QED BY <1>5, <2>2 DEF DiscardState, Contract!Withdraw, Contract!OfferIds
<1>6. CASE \E k \in Kinds : ReadDocument(r, k)
  BY <1>1, <1>6 DEF Contract!Next, Kinds
<1>7. QED BY <1>2, <1>3, <1>4, <1>5, <1>6 DEF Begin, Contract!Next

\* A designer's save reaches the file as the contract's Save.
LEMMA WriteSavedRefines ==
    ASSUME DeskInv, NEW r \in Requests, WriteSaved(r)
    PROVE  Contract!Save(r, op[r].new.text)
<1>1. /\ TypeOK /\ r \in Threads
      /\ op[r] \in Edit /\ op[r].kind \in Kinds /\ op[r].new \in Document
      /\ shown[r] \in [kind: Kinds, doc: Document]
  BY DEF DeskInv, TypeOK, Threads, Edit
<1>2. /\ op[r].kind = shown[r].kind /\ op[r].base = shown[r].doc
      /\ op[r].new.reflected = op[r].base.reflected
      /\ shown[r].doc \in Contract!Window(shown[r].kind)
  BY DEF DeskInv, MadeInv, ComparedInv, Window, WriteSaved, Contract!Window
<1>3. op[r].new = [shown[r].doc EXCEPT !.text = op[r].new.text]
  BY <1>1, <1>2 DEF Document
<1>4. [shown EXCEPT ![r] = [kind |-> op[r].kind, doc |-> op[r].new]]
        = [shown EXCEPT ![r].doc = op[r].new]
  BY <1>1, <1>2 DEF TypeOK
<1>5. Offered' = Offered
  <2>1. \A q \in Requests : (pc'[q] = "pop") <=> (pc[q] = "pop")
    BY <1>1 DEF WriteSaved, Finish, Rest, Goto, TypeOK, Threads
  <2>2. QED BY <2>1, SameOffer DEF WriteSaved
<1>6. QED BY <1>2, <1>3, <1>4, <1>5 DEF WriteSaved, Contract!Save

\* What a model makes is offered with an identity nobody has used, a version
\* that exists and at most the one record more.
LEMMA OfferRefines ==
    ASSUME DeskInv, NEW e, pending' = e, closed' = closed \cup PendingIds,
           \A r \in Requests : pc[r] # "pop" /\ pc'[r] # "pop",
           e # None, e.id \notin closed \cup PendingIds, e.author \in Agents,
           e.output \in 1..modules[e.author],
           e.new.reflected \in
               {e.base.reflected,
                [e.base.reflected EXCEPT ![e.author] = e.output]},
           UNCHANGED <<docs, modules, shown, since, accepted>>
    PROVE  Contract!Offer
<1>1. Offered = pending /\ Offered' = e
  BY NothingPopped, NothingPoppedNext
<1>2. Contract!OfferIds = PendingIds
  BY <1>1 DEF Contract!OfferIds, PendingIds
<1>3. QED BY <1>1, <1>2 DEF Contract!Offer

LEMMA HoldRefines ==
    ASSUME DeskInv, Hold PROVE Contract!Offer
<1>0. /\ TypeOK /\ LockInv /\ EditInv /\ ProposalInv /\ MadeInv
      /\ Job \in Threads /\ pc[Job] = "hold"
  BY DEF DeskInv, Threads, Hold
<1>1. op[Job] \in Edit /\ op[Job].id # 0 /\ op[Job].author \in Agents
  BY <1>0 DEF TypeOK, EditInv, EditAt, Opening, Making
<1>2. op[Job] # None
  BY <1>1, NoneAssumption
<1>3. op[Job].id \notin closed \cup PendingIds
  BY <1>0, <1>1 DEF ProposalInv
<1>4. \A r \in Requests : pc[r] # "pop" /\ pc'[r] # "pop"
  BY <1>0, ConstantsAssumption DEF Hold, LockInv, Finish, Rest, Goto, TypeOK, Threads
<1>5. /\ op[Job].output \in 1..modules[op[Job].author]
      /\ op[Job].new.reflected \in
            {op[Job].base.reflected,
             [op[Job].base.reflected EXCEPT ![op[Job].author] = op[Job].output]}
  BY <1>0, <1>1 DEF MadeInv
<1>6. /\ pending' = op[Job] /\ closed' = closed \cup PendingIds
      /\ UNCHANGED <<docs, modules, shown, since, accepted>>
  BY DEF Hold
<1>7. QED BY <1>1, <1>2, <1>3, <1>4, <1>5, <1>6, OfferRefines

LEMMA ModelAnswersRefines ==
    ASSUME DeskInv, NEW t \in Threads, NEW text \in Texts, NEW empty \in BOOLEAN,
           ModelAnswers(t, text, empty)
    PROVE  [Contract!Next]_Contract!vars
<1> DEFINE new == Proposed(op[t].base, op[t].author, op[t].output, text, empty)
           e   == [op[t] EXCEPT !.id = issued + 1, !.new = new]
<1>0. /\ TypeOK /\ LockInv /\ EditInv /\ ProposalInv /\ MadeInv
      /\ pc[t] = "model" /\ issued < MaxProposals
  BY DEF DeskInv, ModelAnswers
<1>1. /\ op[t] \in Edit /\ op[t].author \in Agents
      /\ op[t].output \in 1..modules[op[t].author]
  BY <1>0 DEF EditInv, EditAt, Opening, Making, MadeInv, TypeOK
<1>2. CASE t = Job
  <2>1. pending' = pending /\ UNCHANGED <<docs, modules, shown, closed, since, accepted>>
    BY <1>2 DEF ModelAnswers
  <2>2. \A r \in Requests : (pc'[r] = "pop") <=> (pc[r] = "pop")
    BY <1>0, <1>2, ConstantsAssumption DEF ModelAnswers, Goto, TypeOK, Threads
  <2>3. QED BY <2>1, <2>2, SameOffer DEF Contract!vars
<1>3. CASE t # Job
  <2>1. /\ t \in Requests /\ lock = t /\ pending = None
        /\ pending' = e /\ UNCHANGED <<docs, modules, shown, closed, since, accepted>>
    BY <1>0, <1>3 DEF Threads, LockInv, MadeInv, Opening, Making, ModelAnswers
  <2>2. \A r \in Requests : pc[r] # "pop" /\ pc'[r] # "pop"
    BY <1>0, <1>3, <2>1, OthersIdle DEF ModelAnswers, Finish, Rest, Goto, TypeOK, Threads
  <2>3. new \in Document
    BY <1>1, DocumentTypes DEF Edit
  <2>4. new.reflected \in {op[t].base.reflected,
                           [op[t].base.reflected EXCEPT ![op[t].author] = op[t].output]}
    BY <1>1 DEF Proposed, Record, Edit, Document
  <2> HIDE DEF new
  <2>5. issued + 1 \in 0..MaxProposals
    BY <1>0, ConstantsAssumption DEF TypeOK
  <2>6. /\ e.id = issued + 1 /\ e.author = op[t].author
        /\ e.output = op[t].output /\ e.base = op[t].base /\ e.new = new
        /\ e \in Edit
    BY <1>1, <2>3, <2>5 DEF Edit
  <2>7. e # None
    BY <2>6, NoneAssumption
  <2>8. issued + 1 \notin closed /\ PendingIds = {}
    BY <1>0, <2>1, ConstantsAssumption DEF TypeOK, PendingIds
  <2> HIDE DEF e
  <2>9. Contract!Offer
    BY <1>1, <2>1, <2>2, <2>4, <2>6, <2>7, <2>8, OfferRefines
  <2>10. QED BY <2>9 DEF Contract!Next
<1>4. QED BY <1>2, <1>3

\* The approved proposal is written as the one that was on offer, and from then
\* on it is not, although it is still on the desk.
LEMMA WriteProposedRefines ==
    ASSUME DeskInv, Mode # "auto", NEW t \in Threads, WriteProposed(t)
    PROVE  Contract!Approve
<1>0. TypeOK /\ LockInv /\ EditInv /\ ProposalInv /\ ComparedInv
  BY DEF DeskInv
<1>1. /\ t \in Requests /\ t # Job /\ lock = t
      /\ pc[t] = "write" /\ op[t].id # 0
  BY <1>0, ConstantsAssumption DEF LockInv, Threads, WriteProposed, Applying
<1>2. /\ pending # None /\ SameProposal(pending, op[t])
      /\ op[t].kind = "state" /\ op[t].base \in since /\ docs["brief"] = op[t].brief
  BY <1>0, <1>1 DEF ProposalInv, Applying, EditInv, EditAt, ComparedInv, Window
<1>3. Offered = pending
  BY <1>0, <1>1, OthersIdle, NothingPopped
<1>4. Offered' = None
  BY <1>0, <1>1 DEF WriteProposed, Goto, TypeOK, Offered, BeingPopped
<1>5. /\ docs' = [docs EXCEPT !["state"] = pending.new] /\ since' = {pending.new}
      /\ accepted' = accepted \cup {<<pending.author, pending.output>>}
      /\ closed' = closed \cup {pending.id} /\ UNCHANGED <<modules, shown>>
  BY <1>1, <1>2 DEF WriteProposed, SameProposal
<1>6. pending.base \in since /\ docs["brief"] = pending.brief
  BY <1>2 DEF SameProposal
<1>7. QED BY <1>2, <1>3, <1>4, <1>5, <1>6 DEF Contract!Approve

LEMMA PopRefines ==
    ASSUME DeskInv, NEW r \in Requests, PopApproval(r)
    PROVE  Contract!Show(r, "state")
<1>0. TypeOK /\ LockInv /\ pc[r] = "pop" /\ lock = r /\ r \in Threads
  BY DEF DeskInv, PopApproval, LockInv, Threads
<1>1. Offered = None
  BY <1>0 DEF Offered, BeingPopped
<1>2. Offered' = None
  BY DEF PopApproval, Offered
<1>3. QED BY <1>1, <1>2 DEF PopApproval, Contract!Show

\* Outside "auto" mode the desk with its threads, lock, backups and repeated
\* reads implements the contract: documents change only by a save over what
\* was shown or by the approval of the one offer that still stands.
THEOREM KeepsContractHolds == ASSUME Mode # "auto" PROVE Spec => KeepsContract
<1>1. Init => Contract!Init
  <2> SUFFICES ASSUME Init PROVE Contract!Init
      OBVIOUS
  <2>1. Offered = None
    BY NothingPopped DEF Init, Threads
  <2>2. QED BY <2>1 DEF Init, Kinds, Blank, NoRecords, Contract!Init, Contract!Blank
<1>2. DeskInv /\ [Next]_vars => [Contract!Next]_Contract!vars
  <2> SUFFICES ASSUME DeskInv, [Next]_vars PROVE [Contract!Next]_Contract!vars
      OBVIOUS
  <2>1. ASSUME NEW r \in Requests, Begin(r) PROVE [Contract!Next]_Contract!vars
    BY <2>1, BeginRefines
  <2>2. ASSUME NEW a \in Agents, RunModule(a) PROVE Contract!Next
    <3>1. \A r \in Requests : (pc'[r] = "pop") <=> (pc[r] = "pop")
      BY <2>2, ConstantsAssumption DEF RunModule, Goto, DeskInv, TypeOK, Threads
    <3>2. Offered' = Offered
      BY <2>2, <3>1, SameOffer DEF RunModule
    <3>3. QED BY <2>2, <3>2 DEF RunModule, Contract!Produce, Contract!Next
  <2>7. CASE OpenJob
    BY <2>7, OpenJobQuiet
  <2>3. ASSUME NEW t \in Threads, Continue(t) PROVE [Contract!Next]_Contract!vars
    <3>1. ASSUME t \in Requests, WriteSaved(t) PROVE Contract!Next
      <4>1. op[t].new.text \in Texts
        BY <3>1 DEF DeskInv, TypeOK, Threads, Edit, Document
      <4>2. QED BY <3>1, <4>1, WriteSavedRefines DEF Contract!Next
    <3>2. ASSUME t \in Requests, PopApproval(t) PROVE Contract!Next
      BY <3>2, PopRefines DEF Contract!Next
    <3>3. ASSUME Hold PROVE Contract!Next
      BY <3>3, HoldRefines DEF Contract!Next
    <3>4. ASSUME NEW text \in Texts, NEW empty \in BOOLEAN,
                 ModelAnswers(t, text, empty)
          PROVE  [Contract!Next]_Contract!vars
      BY <3>4, ModelAnswersRefines
    <3>5. ASSUME WriteProposed(t) PROVE Contract!Next
      BY <3>5, WriteProposedRefines DEF Contract!Next
    <3>6. ASSUME MigrateWrite(t) PROVE Contract!Next
      BY <3>6, MigrateWriteRefines DEF Contract!Next
    <3>7. QED BY <2>3, <3>1, <3>2, <3>3, <3>4, <3>5, <3>6, QuietSteps DEF Continue
  <2>4. CASE Restart
    <3>1. Contract!OfferIds \subseteq PendingIds
      BY DEF Contract!OfferIds, Offered, PendingIds
    <3>2. PendingIds \subseteq 1..issued /\ closed \subseteq 1..issued
      BY NoneAssumption, ConstantsAssumption
         DEF DeskInv, TypeOK, ProposalInv, PendingIds, Edit
    <3>3. Contract!Withdraw
      BY <2>4, <3>1, <3>2 DEF Restart, Offered, Contract!Withdraw
    <3>4. QED BY <3>3 DEF Contract!Next
  <2>5. CASE UNCHANGED vars
    BY <2>5, SameOffer DEF vars, Contract!vars
  <2>6. QED BY <2>1, <2>2, <2>3, <2>4, <2>5, <2>7 DEF Next
<1>3. QED BY <1>1, <1>2, DeskInvariant, PTL DEF Spec, KeepsContract, Contract!Spec------------------------------------------------------------------------------
\* Induction over 0..N for a set of numbers.
LEMMA Counting ==
  ASSUME NEW N \in Nat, NEW T, 0 \in T, \A n \in 0..(N - 1) : n \in T => n + 1 \in T
  PROVE  0..N \subseteq T
<1> SUFFICES ASSUME ~ (0..N \subseteq T) PROVE FALSE
  OBVIOUS
<1> DEFINE U == 0..N \ T
<1>1. U \subseteq Nat /\ U # {}
  OBVIOUS
<1>2. PICK x \in U : \A y \in U : ~ (<<y, x>> \in OpToRel(<, Nat))
  <2> HIDE DEF U
  <2> QED BY <1>1, NatLessThanWellFounded, WFMin
<1>3. x # 0 /\ x - 1 \in 0..(N - 1)
  OBVIOUS
<1>4. x - 1 \notin U
  <2>1. x - 1 < x /\ x - 1 \in Nat /\ x \in Nat
    BY <1>3
  <2>2. <<x - 1, x>> \in OpToRel(<, Nat)
    BY <2>1 DEF OpToRel
  <2> QED BY <1>2, <2>2
<1> QED BY <1>3, <1>4

\* The values of a loop that changes first N times, by act[1] to act[N].
IsLoop(f, N, S, first, act) ==
    /\ f \in [0..N -> S] /\ f[0] = first
    /\ \A n \in 1..N : f[n] = act[n][f[n - 1]]

\* There are such values.
LEMMA LoopRuns ==
  ASSUME NEW N \in Nat, NEW S, NEW first \in S, NEW act \in [1..N -> [S -> S]]
  PROVE  \E f : IsLoop(f, N, S, first, act)
<1> DEFINE Run(f, n) == f[0] = first /\ \A i \in 1..n : f[i] = act[i][f[i - 1]]
           T == {n \in 0..N : \E f \in [0..n -> S] : Run(f, n)}
<1>1. 0 \in T
  <2> DEFINE f == [i \in 0..0 |-> first]
  <2>1. f \in [0..0 -> S] /\ f[0] = first /\ 1..0 = {}
    OBVIOUS
  <2> HIDE DEF f
  <2>2. Run(f, 0)
    BY <2>1
  <2> QED BY <2>1, <2>2
<1>2. ASSUME NEW n \in 0..(N - 1), n \in T PROVE n + 1 \in T
  <2>1. PICK f \in [0..n -> S] : Run(f, n)
    BY <1>2
  <2> DEFINE g == [i \in 0..(n + 1) |-> IF i = n + 1 THEN act[n + 1][f[n]] ELSE f[i]]
  <2>2. f[n] \in S /\ act[n + 1] \in [S -> S]
    OBVIOUS
  <2>3. g \in [0..(n + 1) -> S]
    BY <2>2
  <2>4. ASSUME NEW i \in 1..(n + 1) PROVE g[i] = act[i][g[i - 1]]
    <3>1. CASE i = n + 1
      BY <3>1
    <3>2. CASE i # n + 1
      <4>1. i \in 1..n /\ i - 1 \in 0..n
        BY <3>2
      <4>2. g[i] = f[i] /\ g[i - 1] = f[i - 1]
        BY <4>1
      <4> QED BY <4>1, <4>2, <2>1
    <3> QED BY <3>1, <3>2
  <2>5. g[0] = first
    BY <2>1
  <2> HIDE DEF g
  <2>6. Run(g, n + 1)
    BY <2>4, <2>5
  <2> QED BY <2>3, <2>6
<1>3. N \in T
  <2> HIDE DEF T
  <2>1. \A n \in 0..(N - 1) : n \in T => n + 1 \in T
    BY <1>2
  <2>2. 0..N \subseteq T
    BY <1>1, <2>1, Counting, Zenon
  <2> QED BY <2>2
<1> QED BY <1>3 DEF IsLoop
\* Of two numbers the smaller.
LEMMA MinOfTwo == \A a, b \in Int : Min({a, b}) = IF a <= b THEN a ELSE b
<1> SUFFICES ASSUME NEW a \in Int, NEW b \in Int
             PROVE  Min({a, b}) = IF a <= b THEN a ELSE b
  OBVIOUS
<1> DEFINE m == IF a <= b THEN a ELSE b
<1>1. m \in {a, b} /\ \A y \in {a, b} : m <= y
  OBVIOUS
<1>2. \A x \in {a, b} : (\A y \in {a, b} : x <= y) => x = m
  OBVIOUS
<1> QED BY <1>1, <1>2 DEF Min

\* The least of a set of natural numbers is one of them.
LEMMA LeastOfMany ==
  ASSUME NEW S, S \subseteq Nat, S # {}
  PROVE  Min(S) \in S /\ \A n \in S : Min(S) <= n
<1>1. PICK x \in S : \A y \in S : ~ (<<y, x>> \in OpToRel(<, Nat))
  BY NatLessThanWellFounded, WFMin
<1>2. \A y \in S : x <= y
  <2> SUFFICES ASSUME NEW y \in S, y < x PROVE FALSE
    OBVIOUS
  <2> QED BY <1>1 DEF OpToRel
<1> QED BY <1>1, <1>2 DEF Min


\* Of one number that one.
LEMMA OnlyOne == \A a \in Int : Min({a}) = a /\ Max({a}) = a
<1> SUFFICES ASSUME NEW a \in Int PROVE Min({a}) = a /\ Max({a}) = a
  OBVIOUS
<1>1. a <= a /\ a >= a
  OBVIOUS
<1>2. Min({a}) \in {a}
  BY <1>1 DEF Min
<1>3. Max({a}) \in {a}
  BY <1>1 DEF Max
<1> QED BY <1>2, <1>3
------------------------------------------------------------------------------
(* What an answer is read as.                                                 *)

\* Lists that say nothing twice.
CleanItems == {out \in Seq(Texts_) : \A i, j \in DOMAIN out : out[i] = out[j] => i = j}

\* An item that is not in a list yet can be added.
LEMMA AddItem ==
  ASSUME NEW out \in CleanItems, NEW item \in Texts_
  PROVE  (IF item = "" \/ item \in Range(out) THEN out ELSE Append(out, item)) \in CleanItems
<1> DEFINE new == Append(out, item)
<1>1. out \in Seq(Texts_) /\ \A i, j \in DOMAIN out : out[i] = out[j] => i = j
  BY DEF CleanItems
<1>2. CASE item \in Range(out) \/ item = ""
  BY <1>2
<1>3. CASE item \notin Range(out) /\ item # ""
  <2>1. \A i \in DOMAIN out : out[i] # item
    BY <1>3 DEF Range
  <2>2. new \in Seq(Texts_) /\ DOMAIN new = 1..(Len(out) + 1) /\ new[Len(out) + 1] = item
    BY <1>1
  <2>3. \A i \in 1..(Len(out) + 1) : i # Len(out) + 1 => i \in DOMAIN out /\ new[i] = out[i]
    BY <1>1
  <2> HIDE DEF new
  <2>4. \A i, j \in DOMAIN new : new[i] = new[j] => i = j
    BY <1>1, <2>1, <2>2, <2>3
  <2>5. new \in CleanItems
    BY <2>2, <2>4 DEF CleanItems
  <2> QED BY <1>3, <2>5 DEF new
<1> QED BY <1>2, <1>3

\* What is read of a list says nothing twice and is within the cap.
LEMMA BulletsAreClean ==
  ASSUME NEW items \in Seq(Texts_), NEW cap \in Nat
  PROVE  CleanBullets(items, cap) \in CleanItems /\ Len(CleanBullets(items, cap)) <= cap
<1> DEFINE N == Len(items)
           S == CleanItems
           first == <<>>
           Turn(out, item) == IF item = "" \/ item \in Range(out) THEN out ELSE Append(out, item)
           act == [n \in 1..N |-> [out \in S |-> Turn(out, items[n])]]
           Body(o, n) == IF n = 0 THEN <<>> ELSE Turn(o[n - 1], items[n])
           out == CHOOSE o : o = [n \in 0..N |-> Body(o, n)]
<1>1. N \in Nat /\ first \in S /\ \A n \in 1..N : items[n] \in Texts_
  BY DEF CleanItems
<1>2. \A n \in 1..N, o \in S : Turn(o, items[n]) \in S
  BY <1>1, AddItem
<1>3. act \in [1..N -> [S -> S]]
  BY <1>2
<1>4. PICK o : IsLoop(o, N, S, first, act)
  <2> HIDE DEF N, S, first, act
  <2> QED BY <1>1, <1>3, LoopRuns
<1>5. \A n \in 1..N : o[n - 1] \in S /\ o[n] = Turn(o[n - 1], items[n])
  <2> SUFFICES ASSUME NEW n \in 1..N
               PROVE  o[n - 1] \in S /\ o[n] = Turn(o[n - 1], items[n])
    OBVIOUS
  <2>1. n - 1 \in 0..N
    BY <1>1
  <2>2. o[n - 1] \in S /\ o[n] = act[n][o[n - 1]]
    BY <1>4, <2>1 DEF IsLoop
  <2> HIDE DEF S, Turn
  <2> QED BY <2>2
<1> HIDE DEF S, act, Turn
<1>6. o = [n \in 0..N |-> Body(o, n)]
  <2>1. \A n \in 1..N : o[n] = Body(o, n)
    BY <1>1, <1>5
  <2>2. o[0] = Body(o, 0)
    BY <1>4 DEF IsLoop
  <2>3. \A n \in 0..N : o[n] = Body(o, n)
    <3> HIDE DEF Body
    <3> QED BY <1>1, <2>1, <2>2
  <2> HIDE DEF Body
  <2> QED BY <1>4, <2>3 DEF IsLoop
<1>7. out = [n \in 0..N |-> Body(out, n)]
  <2> HIDE DEF Body
  <2> QED BY <1>6
<1>8. CleanBullets(items, cap) = SubSeq(out[N], 1, Min({cap, Len(out[N])}))
  BY DEF CleanBullets, Turn
<1> HIDE DEF out
<1>9. out[0] = first /\ \A n \in 1..N : out[n] = Turn(out[n - 1], items[n])
  BY <1>1, <1>7
<1>10. out[N] \in S
  <2> DEFINE T == {n \in 0..N : out[n] \in S}
  <2>1. 0 \in T
    BY <1>1, <1>9
  <2>2. \A n \in 0..(N - 1) : n \in T => n + 1 \in T
    <3> SUFFICES ASSUME NEW n \in 0..(N - 1), n \in T PROVE n + 1 \in T
      OBVIOUS
    <3>1. n + 1 \in 1..N /\ n + 1 \in 0..N /\ (n + 1) - 1 = n
      BY <1>1
    <3>2. out[n + 1] = Turn(out[n], items[n + 1]) /\ out[n] \in S
      BY <1>9, <3>1
    <3> QED BY <1>2, <3>1, <3>2
  <2>3. 0..N \subseteq T
    <3> HIDE DEF T
    <3> QED BY <1>1, <2>1, <2>2, Counting
  <2> QED BY <1>1, <2>3
<1> DEFINE all == out[N]
           m == Min({cap, Len(all)})
<1>11. all \in Seq(Texts_) /\ \A i, j \in DOMAIN all : all[i] = all[j] => i = j
  BY <1>10 DEF S, CleanItems
<1>12. m \in 0..Len(all) /\ m <= cap
  <2> HIDE DEF all
  <2> QED BY <1>11, MinOfTwo
<1> HIDE DEF all, m
<1> DEFINE sub == SubSeq(all, 1, m)
<1>13. sub \in Seq(Texts_) /\ Len(sub) = m /\ \A i \in 1..m : sub[i] = all[i]
  BY <1>11, <1>12
<1>14. \A i, j \in DOMAIN sub : sub[i] = sub[j] => i = j
  BY <1>11, <1>12, <1>13
<1>15. sub \in CleanItems /\ Len(sub) <= cap
  <2> HIDE DEF sub
  <2> QED BY <1>12, <1>13, <1>14 DEF CleanItems
<1> QED BY <1>8, <1>15 DEF all, m

\* Such a list has as many texts as it is long.
LEMMA CleanCounted ==
  ASSUME NEW out \in CleanItems PROVE Cardinality(Range(out)) = Len(out)
<1>1. out \in Seq(Texts_) /\ (\A i, j \in DOMAIN out : out[i] = out[j] => i = j)
      /\ DOMAIN out = 1..Len(out) /\ Len(out) \in Nat
  BY DEF CleanItems
<1>2. out \in Bijection(1..Len(out), Range(out))
  BY <1>1 DEF Bijection, Injection, Surjection, IsInjective, Range
<1>3. ExistsBijection(1..Len(out), Range(out))
  BY <1>2 DEF ExistsBijection
<1> QED BY <1>1, <1>3, FS_CountingElements
------------------------------------------------------------------------------
(* Sections, of a file or of an answer.                                       *)

Section == Sections(Seq(Texts_))
At(sections, h) == {i \in DOMAIN sections : sections[i].heading = h}

\* The first section of the heading of s is s.
Reads(sections, s) ==
    At(sections, s.heading) # {} /\ sections[Min(At(sections, s.heading))] = s

\* The first section of a heading that is there is one of that heading.
LEMMA SectionTypes ==
  ASSUME NEW sections \in Seq(Section)
  PROVE  /\ DOMAIN sections = 1..Len(sections) /\ Len(sections) \in Nat
         /\ \A i \in 1..Len(sections) :
               /\ sections[i] \in Section
               /\ sections[i].heading \in DOMAIN Caps \cup Foreign
               /\ sections[i].items \in Seq(Texts_)
         /\ \A h : /\ At(sections, h) \subseteq 1..Len(sections)
                   /\ At(sections, h) # {} => Min(At(sections, h)) \in At(sections, h)
<1>1. DOMAIN sections = 1..Len(sections) /\ Len(sections) \in Nat
      /\ \A i \in 1..Len(sections) : sections[i] \in Section
  <2> HIDE DEF Section
  <2> QED OBVIOUS
<1>2. \A s \in Section : s.heading \in DOMAIN Caps \cup Foreign /\ s.items \in Seq(Texts_)
  BY DEF Section, Sections
<1>3. \A h : At(sections, h) \subseteq 1..Len(sections) /\ At(sections, h) \subseteq Nat
  BY <1>1 DEF At
<1>4. \A h : At(sections, h) # {} => Min(At(sections, h)) \in At(sections, h)
  BY <1>3, LeastOfMany
<1> QED BY <1>1, <1>2, <1>3, <1>4

\* What replacing a section, or adding it, does.
LEMMA Replace ==
  ASSUME NEW old \in Seq(Section), NEW s \in Section
  PROVE  LET new == ReplaceSection(old, s)
         IN  /\ new \in Seq(Section)
             /\ HeadingsOnce(old) => HeadingsOnce(new)
             /\ Reads(new, s)
             /\ \A r \in Section : r.heading # s.heading /\ Reads(old, r) => Reads(new, r)
             /\ Range(new) \subseteq Range(old) \cup {s}
<1> DEFINE at == At(old, s.heading)
           new == ReplaceSection(old, s)
           N == Len(old)
<1>1. DOMAIN old = 1..N /\ N \in Nat /\ at \subseteq 1..N
  BY SectionTypes
<1>2. new = IF at = {} THEN Append(old, s) ELSE [old EXCEPT ![Min(at)] = s]
  BY DEF ReplaceSection, At
<1> HIDE DEF new, at
<1>3. CASE at = {}
  <2>1. new \in Seq(Section) /\ DOMAIN new = 1..(N + 1) /\ new[N + 1] = s
        /\ \A i \in 1..N : new[i] = old[i]
    <3> HIDE DEF Section
    <3> QED BY <1>1, <1>2, <1>3
  <2>2. \A i \in 1..N : old[i].heading # s.heading
    BY <1>1, <1>3 DEF at, At
  <2>3. \A i \in 1..(N + 1) : i \in 1..N \/ i = N + 1
    BY <1>1
  <2>4. HeadingsOnce(old) => HeadingsOnce(new)
    BY <1>1, <2>1, <2>2, <2>3 DEF HeadingsOnce
  <2>5. Reads(new, s)
    <3>1. At(new, s.heading) = {N + 1}
      BY <1>1, <2>1, <2>2, <2>3 DEF At
    <3>2. N + 1 \in Int
      BY <1>1
    <3> QED BY <2>1, <3>1, <3>2, OnlyOne DEF Reads
  <2>6. ASSUME NEW r \in Section, r.heading # s.heading, Reads(old, r) PROVE Reads(new, r)
    <3>1. At(new, r.heading) = At(old, r.heading)
      BY <1>1, <2>1, <2>3, <2>6 DEF At
    <3>2. Min(At(old, r.heading)) \in 1..N
      BY <2>6, SectionTypes DEF Reads
    <3> QED BY <2>1, <2>6, <3>1, <3>2 DEF Reads
  <2>7. Range(new) \subseteq Range(old) \cup {s}
    BY <1>1, <2>1, <2>3 DEF Range
  <2> QED BY <2>1, <2>4, <2>5, <2>6, <2>7 DEF new
<1>4. CASE at # {}
  <2> DEFINE m == Min(at)
  <2>1. m \in 1..N /\ old[m].heading = s.heading
    BY <1>1, <1>4, SectionTypes DEF at, At
  <2> HIDE DEF m
  <2>2. new \in Seq(Section) /\ DOMAIN new = 1..N /\ new[m] = s
        /\ \A i \in 1..N : i # m => new[i] = old[i]
    <3> HIDE DEF Section
    <3>1. new = [old EXCEPT ![m] = s]
      BY <1>2, <1>4 DEF m
    <3>2. old \in [1..N -> Section]
      BY <1>1
    <3>3. new \in [1..N -> Section] /\ new[m] = s
          /\ \A i \in 1..N : i # m => new[i] = old[i]
      BY <2>1, <3>1, <3>2
    <3> QED BY <1>1, <3>3
  <2>3. \A i \in 1..N : new[i].heading = old[i].heading
    BY <2>1, <2>2
  <2>4. \A h : At(new, h) = At(old, h)
    BY <1>1, <2>2, <2>3 DEF At
  <2>5. HeadingsOnce(old) => HeadingsOnce(new)
    BY <1>1, <2>2, <2>3 DEF HeadingsOnce
  <2>6. Reads(new, s)
    BY <1>4, <2>2, <2>4 DEF Reads, m, at
  <2>7. ASSUME NEW r \in Section, r.heading # s.heading, Reads(old, r) PROVE Reads(new, r)
    <3> DEFINE k == Min(At(old, r.heading))
    <3>1. k \in 1..N /\ old[k].heading = r.heading
      BY <1>1, <2>7, SectionTypes DEF Reads, At
    <3>2. new[k] = old[k]
      BY <2>1, <2>2, <2>7, <3>1
    <3> QED BY <2>4, <2>7, <3>2 DEF Reads
  <2>8. Range(new) \subseteq Range(old) \cup {s}
    BY <1>1, <2>2 DEF Range
  <2> QED BY <2>2, <2>5, <2>6, <2>7, <2>8 DEF new
<1> QED BY <1>3, <1>4

\* Replacing a section by itself does nothing.
LEMMA ReplaceSame ==
  ASSUME NEW sections \in Seq(Section), NEW s \in Section, Reads(sections, s)
  PROVE  ReplaceSection(sections, s) = sections
<1> DEFINE at == At(sections, s.heading)
<1>1. at # {} /\ sections[Min(at)] = s /\ Min(at) \in DOMAIN sections
  BY SectionTypes DEF Reads
<1>2. ReplaceSection(sections, s) = [sections EXCEPT ![Min(at)] = s]
  BY <1>1 DEF ReplaceSection, At
<1>3. sections = [i \in DOMAIN sections |-> sections[i]]
  <2> HIDE DEF Section
  <2> QED OBVIOUS
<1> QED BY <1>1, <1>2, <1>3
------------------------------------------------------------------------------
(* What a patch replaces.                                                     *)

\* A section within its cap that says something, and nothing twice.
Fits(s) == /\ s.heading \in DOMAIN Caps /\ s.items \in CleanItems
           /\ Len(s.items) \in 1..Caps[s.heading]

PatchSections ==
    {put \in Seq(Section) : HeadingsOnce(put) /\ \A s \in Range(put) : Fits(s)}

\* One turn of the loop of parse_state_patch.
ReadTurn(put, s) ==
    IF s.heading \notin DOMAIN Caps THEN put
    ELSE IF CleanBullets(s.items, Caps[s.heading]) = <<>> THEN put
    ELSE ReplaceSection(put, [heading |-> s.heading,
                              items |-> CleanBullets(s.items, Caps[s.heading])])

LEMMA ReadOne ==
  ASSUME NEW put \in PatchSections, NEW s \in Section
  PROVE  ReadTurn(put, s) \in PatchSections
<1> DEFINE items == CleanBullets(s.items, Caps[s.heading])
           new == [heading |-> s.heading, items |-> items]
<1>1. s.heading \in DOMAIN Caps \cup Foreign /\ s.items \in Seq(Texts_)
  BY DEF Section, Sections
<1>2. CASE s.heading \notin DOMAIN Caps
  BY <1>2 DEF ReadTurn
<1>3. CASE s.heading \in DOMAIN Caps
  <2>1. Caps[s.heading] \in Nat \ {0}
    BY <1>3, PatchAssumption
  <2>2. items \in CleanItems /\ Len(items) <= Caps[s.heading]
    BY <1>1, <2>1, BulletsAreClean
  <2>3. CASE items = <<>>
    BY <1>3, <2>3 DEF ReadTurn
  <2>4. CASE items # <<>>
    <3>1. items \in Seq(Texts_) /\ Len(items) \in Nat /\ Len(items) # 0
      BY <2>2, <2>4 DEF CleanItems
    <3>2. ReadTurn(put, s) = ReplaceSection(put, new)
      BY <1>3, <2>4 DEF ReadTurn
    <3>3. new.heading = s.heading /\ new.items = items
      OBVIOUS
    <3>4. new \in Section
      BY <1>1, <3>1 DEF Section, Sections
    <3> HIDE DEF new, items
    <3>5. Fits(new)
      BY <1>3, <2>1, <2>2, <3>1, <3>3 DEF Fits
    <3>6. put \in Seq(Section) /\ HeadingsOnce(put) /\ \A r \in Range(put) : Fits(r)
      BY DEF PatchSections
    <3> QED BY <3>2, <3>4, <3>5, <3>6, Replace DEF PatchSections
  <2> QED BY <2>3, <2>4
<1> QED BY <1>2, <1>3

\* A patch's sections fit, and no heading stands twice among them.
LEMMA SectionsRead ==
  ASSUME NEW sections \in Seq(Section) PROVE ReadSections(sections) \in PatchSections
<1> DEFINE N == Len(sections)
           S == PatchSections
           first == <<>>
           act == [n \in 1..N |-> [put \in S |-> ReadTurn(put, sections[n])]]
           Body(p, n) == IF n = 0 THEN <<>> ELSE ReadTurn(p[n - 1], sections[n])
           put == CHOOSE p : p = [n \in 0..N |-> Body(p, n)]
<1>1. N \in Nat /\ \A n \in 1..N : sections[n] \in Section
  BY SectionTypes
<1>2. first \in S
  <2>1. <<>> \in Seq(Section) /\ DOMAIN <<>> = {}
    <3> HIDE DEF Section
    <3> QED OBVIOUS
  <2> QED BY <2>1 DEF PatchSections, HeadingsOnce, Range
<1>3. \A n \in 1..N, p \in S : ReadTurn(p, sections[n]) \in S
  BY <1>1, ReadOne
<1> HIDE DEF S
<1>4. act \in [1..N -> [S -> S]]
  BY <1>3
<1>5. PICK p : IsLoop(p, N, S, first, act)
  <2> HIDE DEF N, first, act
  <2> QED BY <1>1, <1>2, <1>4, LoopRuns
<1>6. \A n \in 1..N : p[n] = ReadTurn(p[n - 1], sections[n])
  <2> SUFFICES ASSUME NEW n \in 1..N PROVE p[n] = ReadTurn(p[n - 1], sections[n])
    OBVIOUS
  <2>1. n - 1 \in 0..N
    BY <1>1
  <2>2. p[n - 1] \in S /\ p[n] = act[n][p[n - 1]]
    BY <1>5, <2>1 DEF IsLoop
  <2> QED BY <2>2
<1> HIDE DEF act
<1>7. p = [n \in 0..N |-> Body(p, n)]
  <2>1. \A n \in 0..N : p[n] = Body(p, n)
    BY <1>1, <1>5, <1>6 DEF IsLoop
  <2> QED BY <1>5, <2>1 DEF IsLoop
<1>8. put = [n \in 0..N |-> Body(put, n)]
  <2> HIDE DEF Body
  <2> QED BY <1>7
<1>9. ReadSections(sections) = put[N]
  BY DEF ReadSections, ReadTurn
<1> HIDE DEF put
<1>10. put[0] = first /\ \A n \in 1..N : put[n] = ReadTurn(put[n - 1], sections[n])
  BY <1>1, <1>8
<1> DEFINE T == {n \in 0..N : put[n] \in S}
<1>11. 0 \in T
  BY <1>1, <1>2, <1>10
<1>12. \A n \in 0..(N - 1) : n \in T => n + 1 \in T
  <2> SUFFICES ASSUME NEW n \in 0..(N - 1), n \in T PROVE n + 1 \in T
    OBVIOUS
  <2>1. n + 1 \in 1..N /\ n + 1 \in 0..N /\ (n + 1) - 1 = n
    BY <1>1
  <2> QED BY <1>3, <1>10, <2>1
<1>13. N \in T
  <2> HIDE DEF T
  <2>1. 0..N \subseteq T
    BY <1>1, <1>11, <1>12, Counting
  <2> QED BY <1>1, <2>1
<1> QED BY <1>9, <1>13 DEF S

\* The states of the loop of apply_patch.
LEMMA SectionsReplaced ==
  ASSUME NEW sections \in Seq(Section), NEW replaced \in Seq(Section)
  PROVE  \E after \in [0..Len(replaced) -> Seq(Section)] :
            /\ after[0] = sections /\ ReplaceSections(sections, replaced) = after[Len(replaced)]
            /\ \A n \in 1..Len(replaced) : after[n] = ReplaceSection(after[n - 1], replaced[n])
<1> DEFINE N == Len(replaced)
           S == Seq(Section)
           act == [n \in 1..N |-> [a \in S |-> ReplaceSection(a, replaced[n])]]
           Body(a, n) == IF n = 0 THEN sections ELSE ReplaceSection(a[n - 1], replaced[n])
           after == CHOOSE a : a = [n \in 0..N |-> Body(a, n)]
<1>1. N \in Nat /\ \A n \in 1..N : replaced[n] \in Section
  BY SectionTypes
<1>2. \A n \in 1..N, a \in S : ReplaceSection(a, replaced[n]) \in S
  BY <1>1, Replace
<1>3. sections \in S
  OBVIOUS
<1> HIDE DEF S
<1>4. act \in [1..N -> [S -> S]]
  BY <1>2
<1>5. PICK a : IsLoop(a, N, S, sections, act)
  <2> HIDE DEF N, act
  <2> QED BY <1>1, <1>3, <1>4, LoopRuns
<1>6. \A n \in 1..N : a[n] = ReplaceSection(a[n - 1], replaced[n])
  <2> SUFFICES ASSUME NEW n \in 1..N PROVE a[n] = ReplaceSection(a[n - 1], replaced[n])
    OBVIOUS
  <2>1. n - 1 \in 0..N
    BY <1>1
  <2>2. a[n - 1] \in S /\ a[n] = act[n][a[n - 1]]
    BY <1>5, <2>1 DEF IsLoop
  <2> QED BY <2>2
<1> HIDE DEF act
<1>7. a = [n \in 0..N |-> Body(a, n)]
  <2>1. \A n \in 0..N : a[n] = Body(a, n)
    BY <1>1, <1>5, <1>6 DEF IsLoop
  <2> QED BY <1>5, <2>1 DEF IsLoop
<1>8. after = [n \in 0..N |-> Body(after, n)]
  <2> HIDE DEF Body
  <2> QED BY <1>7
<1>9. ReplaceSections(sections, replaced) = after[N]
  BY DEF ReplaceSections
<1> HIDE DEF after
<1>10. after[0] = sections /\ \A n \in 1..N : after[n] = ReplaceSection(after[n - 1], replaced[n])
  BY <1>1, <1>8
<1> DEFINE T == {n \in 0..N : after[n] \in S}
<1>11. 0 \in T
  BY <1>1, <1>3, <1>10
<1>12. \A n \in 0..(N - 1) : n \in T => n + 1 \in T
  <2> SUFFICES ASSUME NEW n \in 0..(N - 1), n \in T PROVE n + 1 \in T
    OBVIOUS
  <2>1. n + 1 \in 1..N /\ n + 1 \in 0..N /\ (n + 1) - 1 = n
    BY <1>1
  <2> QED BY <1>2, <1>10, <2>1
<1>13. \A n \in 0..N : after[n] \in S
  <2> HIDE DEF T
  <2>1. 0..N \subseteq T
    BY <1>1, <1>11, <1>12, Counting
  <2> QED BY <2>1 DEF T
<1>14. after \in [0..N -> S]
  BY <1>8, <1>13
<1> QED BY <1>9, <1>10, <1>14 DEF S

\* What a patch does to the sections of a file: every section of it is there,
\* the others are as they were, and doing it again does nothing.
LEMMA PatchReplaces ==
  ASSUME NEW old \in Seq(Section), NEW patch \in PatchSections
  PROVE  LET new == ReplaceSections(old, patch)
         IN  /\ new \in Seq(Section)
             /\ HeadingsOnce(old) => HeadingsOnce(new)
             /\ Range(new) \subseteq Range(old) \cup Range(patch)
             /\ ReplaceSections(new, patch) = new
<1> DEFINE N == Len(patch)
           new == ReplaceSections(old, patch)
<1>1. patch \in Seq(Section) /\ HeadingsOnce(patch) /\ N \in Nat /\ DOMAIN patch = 1..N
      /\ \A n \in 1..N : patch[n] \in Section
  BY SectionTypes DEF PatchSections
<1>2. PICK after \in [0..N -> Seq(Section)] :
         /\ after[0] = old /\ new = after[N]
         /\ \A n \in 1..N : after[n] = ReplaceSection(after[n - 1], patch[n])
  BY <1>1, SectionsReplaced
<1> DEFINE Good(n) == /\ after[n] \in Seq(Section)
                      /\ HeadingsOnce(old) => HeadingsOnce(after[n])
                      /\ Range(after[n]) \subseteq Range(old) \cup Range(patch)
                      /\ \A j \in 1..n : Reads(after[n], patch[j])
           T == {n \in 0..N : Good(n)}
<1>3. 0 \in T
  <2>1. 0 \in 0..N /\ 1..0 = {}
    BY <1>1
  <2> QED BY <1>2, <2>1
<1>4. \A n \in 0..(N - 1) : n \in T => n + 1 \in T
  <2> SUFFICES ASSUME NEW n \in 0..(N - 1), n \in T PROVE n + 1 \in T
    OBVIOUS
  <2>1. n + 1 \in 1..N /\ n + 1 \in 0..N /\ (n + 1) - 1 = n /\ n \in Nat
    BY <1>1
  <2>2. Good(n)
    OBVIOUS
  <2> DEFINE a == after[n]
             b == after[n + 1]
             s == patch[n + 1]
  <2>3. b = ReplaceSection(a, s)
    BY <1>2, <2>1
  <2>4. s \in Section /\ s \in Range(patch)
    BY <1>1, <2>1 DEF Range
  <2>5. a \in Seq(Section)
    BY <2>2
  <2> HIDE DEF a, b, s
  <2>6. /\ b \in Seq(Section)
        /\ HeadingsOnce(a) => HeadingsOnce(b)
        /\ Reads(b, s)
        /\ \A r \in Section : r.heading # s.heading /\ Reads(a, r) => Reads(b, r)
        /\ Range(b) \subseteq Range(a) \cup {s}
    BY <2>3, <2>4, <2>5, Replace
  <2>7. ASSUME NEW j \in 1..(n + 1) PROVE Reads(b, patch[j])
    <3>1. CASE j = n + 1
      BY <2>6, <3>1 DEF s
    <3>2. CASE j # n + 1
      <4>1. j \in 1..n /\ j \in 1..N
        BY <2>1, <3>2
      <4>2. patch[j].heading # s.heading
        BY <1>1, <2>1, <3>2, <4>1 DEF HeadingsOnce, s
      <4>3. Reads(a, patch[j]) /\ patch[j] \in Section
        BY <1>1, <2>2, <4>1 DEF a
      <4> QED BY <2>6, <4>2, <4>3
    <3> QED BY <3>1, <3>2
  <2>8. HeadingsOnce(old) => HeadingsOnce(b)
    BY <2>2, <2>6 DEF a
  <2>9. Range(b) \subseteq Range(old) \cup Range(patch)
    BY <2>2, <2>4, <2>6 DEF a
  <2>10. Good(n + 1)
    BY <2>6, <2>7, <2>8, <2>9 DEF b
  <2> QED BY <2>1, <2>10
<1>5. Good(N)
  <2> HIDE DEF Good
  <2>1. 0..N \subseteq T
    <3> HIDE DEF T
    <3> QED BY <1>1, <1>3, <1>4, Counting
  <2> QED BY <1>1, <2>1
<1> HIDE DEF new
<1>6. /\ new \in Seq(Section)
      /\ HeadingsOnce(old) => HeadingsOnce(new)
      /\ Range(new) \subseteq Range(old) \cup Range(patch)
      /\ \A j \in 1..N : Reads(new, patch[j])
  BY <1>2, <1>5
<1>7. ReplaceSections(new, patch) = new
  <2>1. PICK again \in [0..N -> Seq(Section)] :
           /\ again[0] = new /\ ReplaceSections(new, patch) = again[N]
           /\ \A n \in 1..N : again[n] = ReplaceSection(again[n - 1], patch[n])
    BY <1>1, <1>6, SectionsReplaced
  <2> DEFINE U == {n \in 0..N : again[n] = new}
  <2>2. 0 \in U
    BY <1>1, <2>1
  <2>3. \A n \in 0..(N - 1) : n \in U => n + 1 \in U
    <3> SUFFICES ASSUME NEW n \in 0..(N - 1), n \in U PROVE n + 1 \in U
      OBVIOUS
    <3>1. n + 1 \in 1..N /\ n + 1 \in 0..N /\ (n + 1) - 1 = n
      BY <1>1
    <3>2. again[n + 1] = ReplaceSection(new, patch[n + 1])
      BY <2>1, <3>1
    <3>3. ReplaceSection(new, patch[n + 1]) = new
      BY <1>1, <1>6, <3>1, ReplaceSame
    <3> QED BY <3>1, <3>2, <3>3
  <2>4. N \in U
    <3> HIDE DEF U
    <3>1. 0..N \subseteq U
      BY <1>1, <2>2, <2>3, Counting
    <3> QED BY <1>1, <3>1
  <2> QED BY <2>1, <2>4
<1> QED BY <1>6, <1>7 DEF new
------------------------------------------------------------------------------
(* What the card says.                                                        *)

\* A designer may have written any status, and so may the model.
Written == Statuses \cup Texts_ \cup {"unknown"}

States ==
    [table    : BOOLEAN,
     rows     : UNION {[ms -> [status : Written, takeaway : Texts_]] : ms \in SUBSET Modules},
     meta     : UNION {[fs -> Texts_] : fs \in SUBSET (MetaKeys \cup {"Last updated"})},
     sections : Seq(Section)]

Answers ==
    {NoAnswer} \cup
    [readable : {TRUE}, status : Written, takeaway : Texts_,
     meta : [MetaKeys -> Texts_], sections : Seq(Section)]

\* The sections of the patch that any answer is read as.
LEMMA Parsed == ASSUME NEW answer \in Answers PROVE ParsePatch(answer).sections \in PatchSections
<1>1. CASE answer = NoAnswer
  <2>1. <<>> \in Seq(Section) /\ DOMAIN <<>> = {}
    <3> HIDE DEF Section
    <3> QED OBVIOUS
  <2>2. <<>> \in PatchSections
    BY <2>1 DEF PatchSections, HeadingsOnce, Range
  <2>3. ParsePatch(answer).sections = <<>>
    BY <1>1 DEF ParsePatch, NoAnswer
  <2> QED BY <2>2, <2>3
<1>2. CASE answer # NoAnswer
  <2>1. answer.readable = TRUE /\ answer.sections \in Seq(Section)
    BY <1>2 DEF Answers
  <2>2. ParsePatch(answer).sections = ReadSections(answer.sections)
    BY <2>1 DEF ParsePatch
  <2> QED BY <2>1, <2>2, SectionsRead
<1> QED BY <1>1, <1>2

\* A state has these parts and no others.
IsState(state) == state = [table |-> state.table, rows |-> state.rows,
                           meta |-> state.meta, sections |-> state.sections]

\* What applying a patch makes of the fields and rows.
LEMMA Applied ==
  ASSUME NEW state, IsState(state), NEW patch
  PROVE  LET new == ApplyPatch(state, patch)
             row == UpdateRow(state, patch.status, patch.takeaway)
             said == Over([f \in {"Last updated"} |-> Today], patch.meta)
         IN  /\ new = [table |-> state.table, rows |-> row.rows,
                       meta |-> [f \in DOMAIN state.meta |->
                                    IF f \in DOMAIN said THEN said[f] ELSE state.meta[f]],
                       sections |-> ReplaceSections(state.sections, patch.sections)]
             /\ row = [state EXCEPT !.rows = row.rows]
             /\ DOMAIN state.rows \subseteq DOMAIN row.rows
<1> DEFINE row == UpdateRow(state, patch.status, patch.takeaway)
           said == Over([f \in {"Last updated"} |-> Today], patch.meta)
<1>1. state = [table |-> state.table, rows |-> state.rows, meta |-> state.meta,
               sections |-> state.sections]
  BY DEF IsState
<1>2. row = [state EXCEPT !.rows = row.rows] /\ DOMAIN state.rows \subseteq DOMAIN row.rows
  BY <1>1 DEF UpdateRow, Over
<1> HIDE DEF row
<1>3. row = [table |-> state.table, rows |-> row.rows, meta |-> state.meta,
             sections |-> state.sections]
  BY <1>1, <1>2
<1>4. ApplyPatch(state, patch) =
         [UpdateMeta(row, said) EXCEPT !.sections = ReplaceSections(@, patch.sections)]
  BY DEF ApplyPatch, row
<1> HIDE DEF said
<1> DEFINE meta == [f \in DOMAIN state.meta |-> IF f \in DOMAIN said THEN said[f] ELSE state.meta[f]]
<1>5. UpdateMeta(row, said) = [row EXCEPT !.meta = meta]
  <2>1. row.meta = state.meta
    BY <1>3
  <2> QED BY <2>1 DEF UpdateMeta
<1> DEFINE sections == ReplaceSections(state.sections, patch.sections)
<1> HIDE DEF meta
<1>6. UpdateMeta(row, said) = [table |-> state.table, rows |-> row.rows, meta |-> meta,
                               sections |-> state.sections]
  BY <1>3, <1>5
<1>7. ApplyPatch(state, patch) =
         [table |-> state.table, rows |-> row.rows, meta |-> meta, sections |-> sections]
  BY <1>4, <1>6
<1> QED BY <1>2, <1>7 DEF row, said, meta

\* Writing the same over it again changes nothing.
LEMMA OverAgain == \A f, g : Over(f, Over(f, g)) = Over(f, g)
BY DEF Over

\* Applying the same patch again changes nothing.
LEMMA AppliedTwice ==
  ASSUME NEW state, IsState(state), state.sections \in Seq(Section),
         NEW patch, patch.sections \in PatchSections
  PROVE  ApplyPatch(ApplyPatch(state, patch), patch) = ApplyPatch(state, patch)
<1> DEFINE new == ApplyPatch(state, patch)
           row(s) == UpdateRow(s, patch.status, patch.takeaway)
           said == Over([f \in {"Last updated"} |-> Today], patch.meta)
           fields(m) == [f \in DOMAIN m |-> IF f \in DOMAIN said THEN said[f] ELSE m[f]]
<1>1. new = [table |-> state.table, rows |-> row(state).rows, meta |-> fields(state.meta),
             sections |-> ReplaceSections(state.sections, patch.sections)]
  BY Applied
<1>2. IsState(new)
  BY <1>1 DEF IsState
<1>3. ApplyPatch(new, patch) =
         [table |-> new.table, rows |-> row(new).rows, meta |-> fields(new.meta),
          sections |-> ReplaceSections(new.sections, patch.sections)]
  <2> HIDE DEF new
  <2> QED BY <1>2, Applied
<1> HIDE DEF new, said, row, fields
<1>4. new.table = state.table /\ new.rows = row(state).rows /\ new.meta = fields(state.meta)
      /\ new.sections = ReplaceSections(state.sections, patch.sections)
  BY <1>1
<1>5. fields(new.meta) = new.meta
  BY <1>4 DEF fields
<1>6. ReplaceSections(new.sections, patch.sections) = new.sections
  BY <1>4, PatchReplaces
<1>7. row(new).rows = new.rows
  <2> DEFINE mine == [m \in {Own} |->
                        [status |-> patch.status,
                         takeaway |-> IF patch.takeaway = "options" THEN CHOOSE s \in Sayings : TRUE
                                      ELSE patch.takeaway]]
  <2>1. \A s : row(s) = IF Own \in DOMAIN s.rows \/ s.table
                          THEN [s EXCEPT !.rows = Over(mine, @)] ELSE s
    BY DEF UpdateRow, row
  <2>2. DOMAIN mine = {Own}
    OBVIOUS
  <2> HIDE DEF mine
  <2>3. \A s : IsState(s) => row(s).rows = IF Own \in DOMAIN s.rows \/ s.table
                                            THEN Over(mine, s.rows) ELSE s.rows
    <3> SUFFICES ASSUME NEW s, IsState(s)
                 PROVE  row(s).rows = IF Own \in DOMAIN s.rows \/ s.table
                                        THEN Over(mine, s.rows) ELSE s.rows
      OBVIOUS
    <3>1. CASE Own \in DOMAIN s.rows \/ s.table
      <4>1. [s EXCEPT !.rows = Over(mine, @)].rows = Over(mine, s.rows)
        BY DEF IsState
      <4> QED BY <2>1, <3>1, <4>1
    <3>2. CASE ~ (Own \in DOMAIN s.rows \/ s.table)
      BY <2>1, <3>2
    <3> QED BY <3>1, <3>2
  <2>4. CASE Own \in DOMAIN state.rows \/ state.table
    <3>1. new.rows = Over(mine, state.rows)
      BY <1>4, <2>3, <2>4
    <3>2. Own \in DOMAIN new.rows
      BY <2>2, <3>1 DEF Over
    <3> QED BY <1>2, <2>3, <3>1, <3>2, OverAgain
  <2>5. CASE ~ (Own \in DOMAIN state.rows \/ state.table)
    BY <1>2, <1>4, <2>3, <2>5
  <2> QED BY <2>4, <2>5
<1>8. ApplyPatch(new, patch) = [table |-> new.table, rows |-> new.rows, meta |-> new.meta,
                                sections |-> new.sections]
  BY <1>3, <1>5, <1>6, <1>7
<1> QED BY <1>2, <1>8 DEF IsState, new

\* A line of a state is one of a section of it.
HasLine(s, l) == \E x \in Range(s.items) : Plain(x) # "" /\ l = <<s.heading, Plain(x)>>

LEMMA LineIs ==
  ASSUME NEW state, NEW l
  PROVE  l \in Says(state).lines <=> \E s \in Range(state.sections) : HasLine(s, l)
<1> DEFINE lines(s) == {<<s.heading, Plain(x)>> : x \in {x \in Range(s.items) : Plain(x) # ""}}
           all == Range(state.sections)
<1>1. \A s : l \in lines(s) <=> HasLine(s, l)
  <2> SUFFICES ASSUME NEW s PROVE l \in lines(s) <=> HasLine(s, l)
    OBVIOUS
  <2> DEFINE items == Range(s.items)
  <2> HIDE DEF items
  <2> QED BY DEF HasLine, items
<1>2. Says(state).lines = UNION {lines(s) : s \in all}
  BY DEF Says
<1> HIDE DEF lines, all
<1>3. l \in UNION {lines(s) : s \in all} <=> \E s \in all : l \in lines(s)
  OBVIOUS
<1> QED BY <1>1, <1>2, <1>3 DEF all

\* Where no heading stands twice, a state's lines are what it is read as.
LEMMA LinesAreItems ==
  ASSUME NEW state, state.sections \in Seq(Section), HeadingsOnce(state.sections), NEW l
  PROVE  l \in Says(state).lines <=>
            /\ l \in (DOMAIN Caps \cup Foreign) \X Texts_
            /\ l[2] \in StateParts(state).items[l[1]]
<1> DEFINE sections == state.sections
           N == Len(sections)
           items(i) == {Plain(x) : x \in Range(sections[i].items)} \ {""}
           parts == StateParts(state).items
<1>1. DOMAIN sections = 1..N /\ N \in Nat
      /\ \A i \in 1..N : sections[i].heading \in DOMAIN Caps \cup Foreign
                         /\ sections[i].items \in Seq(Texts_)
  BY SectionTypes
<1>2. \A i \in 1..N : At(sections, sections[i].heading) = {i}
  BY <1>1 DEF HeadingsOnce, At
<1>3. \A h \in DOMAIN Caps \cup Foreign :
         parts[h] = IF At(sections, h) = {} THEN {} ELSE items(Max(At(sections, h)))
  BY DEF StateParts, At
<1>4. ASSUME NEW i \in 1..N PROVE parts[sections[i].heading] = items(i)
  <2>1. At(sections, sections[i].heading) = {i}
    BY <1>2
  <2>2. Max({i}) = i
    <3>1. i \in Int
      BY <1>1
    <3> QED BY <3>1, OnlyOne
  <2> HIDE DEF parts, items
  <2> QED BY <1>1, <1>3, <2>1, <2>2
<1>5. \A x \in Texts_ : Plain(x) \in Texts_
  BY DEF Plain, Texts_
<1>6. l \in Says(state).lines <=> \E i \in 1..N : HasLine(sections[i], l)
  <2>1. \A s : s \in Range(sections) <=> \E i \in 1..N : s = sections[i]
    BY <1>1 DEF Range
  <2> HIDE DEF sections
  <2> QED BY <2>1, LineIs DEF sections
<1>7. \A i \in 1..N : \A x \in Range(sections[i].items) : x \in Texts_
  BY <1>1 DEF Range
<1>8. \A i \in 1..N : \A y : y \in items(i) <=>
         \E x \in Range(sections[i].items) : Plain(x) # "" /\ y = Plain(x)
  OBVIOUS
<1> HIDE DEF sections, items, parts
<1>9. ASSUME l \in Says(state).lines
      PROVE  l \in (DOMAIN Caps \cup Foreign) \X Texts_ /\ l[2] \in parts[l[1]]
  <2>0. PICK i \in 1..N : HasLine(sections[i], l)
    BY <1>6, <1>9
  <2>1. PICK x \in Range(sections[i].items) :
           Plain(x) # "" /\ l = <<sections[i].heading, Plain(x)>>
    BY <2>0 DEF HasLine
  <2>2. Plain(x) \in Texts_ /\ sections[i].heading \in DOMAIN Caps \cup Foreign
    BY <1>1, <1>5, <1>7
  <2>3. Plain(x) \in items(i)
    BY <1>8, <2>1
  <2>4. l[1] = sections[i].heading /\ l[2] = Plain(x)
    BY <2>1
  <2> QED BY <1>4, <2>1, <2>2, <2>3, <2>4
<1>10. ASSUME l \in (DOMAIN Caps \cup Foreign) \X Texts_, l[2] \in parts[l[1]]
       PROVE  l \in Says(state).lines
  <2>1. l[1] \in DOMAIN Caps \cup Foreign /\ l = <<l[1], l[2]>>
    BY <1>10
  <2>2. PICK i \in At(sections, l[1]) : TRUE
    BY <1>3, <1>10, <2>1
  <2>3. i \in 1..N /\ sections[i].heading = l[1]
    BY <1>1 DEF At
  <2>4. l[2] \in items(i)
    BY <1>4, <1>10, <2>3
  <2>5. PICK x \in Range(sections[i].items) : Plain(x) # "" /\ l[2] = Plain(x)
    BY <1>8, <2>3, <2>4
  <2>6. l = <<sections[i].heading, Plain(x)>>
    BY <2>1, <2>3, <2>5
  <2>7. HasLine(sections[i], l)
    BY <2>5, <2>6 DEF HasLine
  <2> QED BY <1>6, <2>3, <2>7
<1> QED BY <1>9, <1>10 DEF parts

\* What the card tells of an applied patch is what the patch did.
LEMMA CardTells ==
  ASSUME NEW state, IsState(state), state.sections \in Seq(Section),
         HeadingsOnce(state.sections),
         NEW patch, patch.sections \in PatchSections
  PROVE  LET new == ApplyPatch(state, patch)
         IN  Says(new) = AsTold(state, StateChanges(state, new))
<1> DEFINE new == ApplyPatch(state, patch)
           card == StateChanges(state, new)
           o == StateParts(state)
           n == StateParts(new)
           Headings == DOMAIN Caps \cup Foreign
<1>1. PICK row, fields :
         /\ new = [table |-> state.table, rows |-> row, meta |-> fields,
                   sections |-> ReplaceSections(state.sections, patch.sections)]
         /\ DOMAIN state.rows \subseteq DOMAIN row /\ DOMAIN fields = DOMAIN state.meta
  <2> DEFINE row == UpdateRow(state, patch.status, patch.takeaway).rows
             said == Over([f \in {"Last updated"} |-> Today], patch.meta)
             fields == [f \in DOMAIN state.meta |->
                           IF f \in DOMAIN said THEN said[f] ELSE state.meta[f]]
  <2>1. /\ new = [table |-> state.table, rows |-> row, meta |-> fields,
                  sections |-> ReplaceSections(state.sections, patch.sections)]
        /\ DOMAIN state.rows \subseteq DOMAIN row
    BY Applied
  <2>2. DOMAIN fields = DOMAIN state.meta
    OBVIOUS
  <2> HIDE DEF new, row, fields
  <2> QED BY <2>1, <2>2
<1>2. /\ new.rows = row /\ new.meta = fields
      /\ new.sections = ReplaceSections(state.sections, patch.sections)
  BY <1>1
<1>3. /\ new.sections \in Seq(Section) /\ HeadingsOnce(new.sections)
      /\ Range(new.sections) \subseteq Range(state.sections) \cup Range(patch.sections)
  BY <1>2, PatchReplaces
<1> HIDE DEF new
<1>4. /\ DOMAIN o.meta = DOMAIN state.meta /\ DOMAIN n.meta = DOMAIN o.meta
      /\ DOMAIN o.rows \subseteq DOMAIN n.rows
      /\ DOMAIN n.items = Headings /\ DOMAIN o.items = Headings
  BY <1>1, <1>2 DEF StateParts
<1>5. /\ Says(state).meta = [f \in DOMAIN o.meta \ {"Last updated"} |-> o.meta[f]]
      /\ Says(new).meta = [f \in DOMAIN n.meta \ {"Last updated"} |-> n.meta[f]]
      /\ Says(state).rows = o.rows /\ Says(new).rows = n.rows
  BY DEF Says, StateParts
<1>6. /\ card.fields = [f \in {f \in DOMAIN n.meta \ {"Last updated"} :
                                 f \notin DOMAIN o.meta \/ o.meta[f] # n.meta[f]} |-> n.meta[f]]
      /\ card.rows = [m \in {m \in DOMAIN n.rows :
                               m \notin DOMAIN o.rows \/ o.rows[m] # n.rows[m]} |-> n.rows[m]]
      /\ card.added = [h \in DOMAIN n.items |-> n.items[h] \ o.items[h]]
      /\ card.removed = [h \in DOMAIN n.items |-> o.items[h] \ n.items[h]]
  BY DEF StateChanges
<1>7. n.rows = [m \in DOMAIN n.rows |-> n.rows[m]]
  BY DEF StateParts
<1>8. \A l : /\ l \in Says(new).lines <=> l \in Headings \X Texts_ /\ l[2] \in n.items[l[1]]
             /\ l \in Says(state).lines <=> l \in Headings \X Texts_ /\ l[2] \in o.items[l[1]]
  BY <1>3, LinesAreItems
<1> HIDE DEF card, o, n
<1>9. Says(new).meta = Over(card.fields, Says(state).meta)
  <2> DEFINE f == card.fields
             g == Says(state).meta
  <2>1. DOMAIN f \cup DOMAIN g = DOMAIN n.meta \ {"Last updated"}
    BY <1>4, <1>5, <1>6
  <2>2. \A x \in DOMAIN n.meta \ {"Last updated"} :
           n.meta[x] = IF x \in DOMAIN f THEN f[x] ELSE g[x]
    BY <1>4, <1>5, <1>6
  <2> HIDE DEF f, g
  <2>3. Over(f, g) = [x \in DOMAIN n.meta \ {"Last updated"} |-> n.meta[x]]
    BY <2>1, <2>2 DEF Over
  <2> QED BY <1>5, <2>3 DEF f, g
<1>10. Says(new).rows = Over(card.rows, Says(state).rows)
  <2> DEFINE f == card.rows
             g == Says(state).rows
  <2>1. DOMAIN f \cup DOMAIN g = DOMAIN n.rows
    BY <1>4, <1>5, <1>6
  <2>2. \A x \in DOMAIN n.rows : n.rows[x] = IF x \in DOMAIN f THEN f[x] ELSE g[x]
    BY <1>4, <1>5, <1>6
  <2> HIDE DEF f, g
  <2>3. Over(f, g) = [x \in DOMAIN n.rows |-> n.rows[x]]
    BY <2>1, <2>2 DEF Over
  <2> QED BY <1>5, <1>7, <2>3 DEF f, g
<1>11. ASSUME NEW l, l \in Headings \X Texts_, l[1] \notin DOMAIN Caps, l[2] \in n.items[l[1]]
       PROVE  l[2] \in o.items[l[1]]
  <2>1. l[1] \in Headings /\ l = <<l[1], l[2]>>
    BY <1>11
  <2>2. l \in Says(new).lines
    BY <1>8, <1>11
  <2>3. PICK s \in Range(new.sections) : HasLine(s, l)
    BY <2>2, LineIs
  <2>4. s.heading \notin DOMAIN Caps
    <3>1. PICK x \in Range(s.items) : l = <<s.heading, Plain(x)>>
      BY <2>3 DEF HasLine
    <3>2. l[1] = s.heading
      BY <3>1
    <3> QED BY <1>11, <3>2
  <2>5. s \in Range(state.sections)
    BY <1>3, <2>4 DEF PatchSections, Fits
  <2>6. l \in Says(state).lines
    BY <2>3, <2>5, LineIs
  <2> QED BY <1>8, <2>6
<1>12. Says(new).lines =
          {l \in Says(state).lines : l[2] \notin card.removed[l[1]]}
             \cup {l \in (DOMAIN Caps) \X Texts_ : l[2] \in card.added[l[1]]}
  <2>1. \A h \in Headings : /\ card.added[h] = n.items[h] \ o.items[h]
                            /\ card.removed[h] = o.items[h] \ n.items[h]
    BY <1>4, <1>6
  <2>2. \A l \in Headings \X Texts_ : l[1] \in Headings
    OBVIOUS
  <2>3. \A l : l \in (DOMAIN Caps) \X Texts_ <=> l \in Headings \X Texts_ /\ l[1] \in DOMAIN Caps
    <3>1. DOMAIN Caps \subseteq Headings
      OBVIOUS
    <3> QED BY <3>1
  <2> DEFINE new_ == Says(new).lines
             old_ == Says(state).lines
             caps_ == (DOMAIN Caps) \X Texts_
             all_ == Headings \X Texts_
  <2> HIDE DEF new_, old_, caps_, all_
  <2>4. \A l : l \in new_ <=> \/ l \in old_ /\ l[2] \notin card.removed[l[1]]
                              \/ l \in caps_ /\ l[2] \in card.added[l[1]]
    <3> SUFFICES ASSUME NEW l
                 PROVE  l \in new_ <=> \/ l \in old_ /\ l[2] \notin card.removed[l[1]]
                                       \/ l \in caps_ /\ l[2] \in card.added[l[1]]
      OBVIOUS
    <3>1. /\ l \in new_ <=> l \in all_ /\ l[2] \in n.items[l[1]]
          /\ l \in old_ <=> l \in all_ /\ l[2] \in o.items[l[1]]
          /\ l \in caps_ <=> l \in all_ /\ l[1] \in DOMAIN Caps
      BY <1>8, <2>3 DEF new_, old_, caps_, all_
    <3>2. l \in all_ => l[1] \in Headings
      BY <2>2 DEF all_
    <3>3. l \in all_ /\ l[1] \notin DOMAIN Caps /\ l[2] \in n.items[l[1]] => l[2] \in o.items[l[1]]
      BY <1>11 DEF all_
    <3>4. l \in all_ => /\ card.added[l[1]] = n.items[l[1]] \ o.items[l[1]]
                        /\ card.removed[l[1]] = o.items[l[1]] \ n.items[l[1]]
      BY <2>1, <3>2
    <3> HIDE DEF Headings
    <3> QED BY <3>1, <3>3, <3>4, Zenon
  <2> QED BY <2>4 DEF new_, old_, caps_, all_
<1>13. Says(new) = [meta |-> Says(new).meta, rows |-> Says(new).rows, lines |-> Says(new).lines]
  BY DEF Says
<1> QED BY <1>9, <1>10, <1>12, <1>13 DEF AsTold, new, card

\* The approval of any answer to any state file does what its card says: on a
\* file in which no heading stands twice it changes the lines, fields and rows
\* that state_changes lists and no others, what it writes is within the caps,
\* and the same answer to the new file changes nothing.
THEOREM EveryCardTells == \A state \in States, answer \in Answers : Told(state, answer)
<1> SUFFICES ASSUME NEW state \in States, NEW answer \in Answers PROVE Told(state, answer)
  OBVIOUS
<1> DEFINE patch == ParsePatch(answer)
           new == ApplyPatch(state, patch)
<1>1. IsState(state) /\ state.sections \in Seq(Section)
  BY DEF States, IsState
<1>2. patch.sections \in PatchSections
  BY Parsed
<1> HIDE DEF patch
<1>3. new.sections = ReplaceSections(state.sections, patch.sections)
  <2> DEFINE rows == UpdateRow(state, patch.status, patch.takeaway).rows
             said == Over([f \in {"Last updated"} |-> Today], patch.meta)
             meta == [f \in DOMAIN state.meta |->
                         IF f \in DOMAIN said THEN said[f] ELSE state.meta[f]]
  <2>1. new = [table |-> state.table, rows |-> rows, meta |-> meta,
               sections |-> ReplaceSections(state.sections, patch.sections)]
    BY <1>1, Applied
  <2> HIDE DEF new, rows, meta
  <2> QED BY <2>1
<1>4. /\ HeadingsOnce(state.sections) => HeadingsOnce(new.sections)
      /\ Range(new.sections) \subseteq Range(state.sections) \cup Range(patch.sections)
  BY <1>1, <1>2, <1>3, PatchReplaces
<1>5. HeadingsOnce(state.sections) => Says(new) = AsTold(state, StateChanges(state, new))
  BY <1>1, <1>2, CardTells
<1>6. ApplyPatch(new, patch) = new
  BY <1>1, <1>2, AppliedTwice
<1> HIDE DEF new
<1>7. ASSUME NEW s \in Range(new.sections) \ Range(state.sections)
      PROVE  /\ s.heading \in DOMAIN Caps /\ Len(s.items) \in 1..Caps[s.heading]
             /\ Cardinality(Range(s.items)) = Len(s.items)
  <2>1. s \in Range(patch.sections)
    BY <1>4, <1>7
  <2>2. Fits(s)
    BY <1>2, <2>1 DEF PatchSections
  <2> QED BY <2>2, CleanCounted DEF Fits
<1> QED BY <1>4, <1>5, <1>6, <1>7 DEF Told, new, patch

\* The sequences TLC enumerates are sequences.
LEMMA BoundedSeqs ==
  ASSUME NEW T, NEW S, S \subseteq T, NEW n \in Nat PROVE BoundedSeq(S, n) \subseteq Seq(T)
BY DEF BoundedSeq, SeqOf

\* The bounded files and answers of the model checker are among them.
LEMMA SomeSections ==
  /\ \A n \in Nat : Sections(BoundedSeq(Texts_, n)) \subseteq Section
  /\ Sections(BoundedSeq({"options"} \cup Sayings, 1)) \subseteq Section
  /\ Sections(BoundedSeq(Sayings, 1)) \subseteq Section
<1>1. \A S, n : S \subseteq Texts_ /\ n \in Nat => BoundedSeq(S, n) \subseteq Seq(Texts_)
  BY BoundedSeqs
<1>2. {"options"} \cup Sayings \subseteq Texts_ /\ Sayings \subseteq Texts_ /\ 1 \in Nat
  BY DEF Texts_
<1>3. \A T : T \subseteq Seq(Texts_) => Sections(T) \subseteq Section
  BY DEF Section, Sections
<1> QED BY <1>1, <1>2, <1>3

\* So the run's property holds, whatever its bounds.
LEMMA PatchesAreToldHolds == PatchesAreTold
<1>1. Today \in Texts_ /\ "" \in Texts_ /\ "options" \in Texts_ /\ Sayings \subseteq Texts_
  BY PatchAssumption DEF Texts_
<1>2. <<>> \in Seq(Section)
  <2> HIDE DEF Section
  <2> QED OBVIOUS
<1>3. NoAnswer \in Answers
  BY DEF Answers
<1>4. ASSUME NEW status \in Written, NEW takeaway \in Texts_,
             NEW said \in [MetaKeys -> Texts_], NEW sections \in Seq(Section)
      PROVE  Answer(status, takeaway, said, sections) \in Answers
  <2> HIDE DEF Section
  <2> QED BY DEF Answer, Answers
<1>5. ASSUME NEW rows \in AllRows, NEW meta \in AllMeta, NEW table \in BOOLEAN
      PROVE  [table |-> table, rows |-> rows, meta |-> meta, sections |-> <<>>] \in States
  <2>1. SomeRows \subseteq [status : Written, takeaway : Texts_]
    <3>1. \A status \in {"pending", "done"}, takeaway \in Texts_ :
             Row(status, takeaway) \in [status : Written, takeaway : Texts_]
      BY DEF Row, Statuses, Written
    <3>2. \A r \in SomeRows : \E status \in {"pending", "done"}, takeaway \in Texts_ :
             r = Row(status, takeaway)
      BY <1>1 DEF SomeRows
    <3> QED BY <3>1, <3>2
  <2>2. PICK ms \in SUBSET Modules : rows \in [ms -> [status : Written, takeaway : Texts_]]
    BY <2>1 DEF AllRows
  <2>3. PICK fs \in SUBSET (MetaKeys \cup {"Last updated"}) : meta \in [fs -> Texts_]
    <3>1. PICK fs \in SUBSET (MetaKeys \cup {"Last updated"}) : meta \in [fs -> {Today, "options"}]
      BY DEF AllMeta
    <3>2. \A S : meta \in [fs -> S] /\ S \subseteq Texts_ => meta \in [fs -> Texts_]
      OBVIOUS
    <3>3. {Today, "options"} \subseteq Texts_
      BY <1>1
    <3>4. meta \in [fs -> Texts_]
      BY <3>1, <3>2, <3>3
    <3> QED BY <3>4, Zenon
  <2> DEFINE R == [status : Written, takeaway : Texts_]
             F == MetaKeys \cup {"Last updated"}
             AllR == UNION {[m -> R] : m \in SUBSET Modules}
             AllF == UNION {[f -> Texts_] : f \in SUBSET F}
  <2>4. rows \in AllR
    <3> HIDE DEF R
    <3> QED BY <2>2 DEF R
  <2>5. meta \in AllF
    <3> HIDE DEF F
    <3> QED BY <2>3 DEF F
  <2> HIDE DEF Section, AllR, AllF
  <2>6. [table |-> table, rows |-> rows, meta |-> meta, sections |-> <<>>]
           \in [table : BOOLEAN, rows : AllR, meta : AllF, sections : Seq(Section)]
    BY <1>2, <2>4, <2>5
  <2> QED BY <2>6 DEF States, AllR, AllF, R, F
<1>6. ASSUME NEW old \in Seq(Section)
      PROVE  [table |-> FALSE, rows |-> <<>>, meta |-> <<>>, sections |-> old] \in States
  <2> DEFINE R == [status : Written, takeaway : Texts_]
  <2>1. <<>> \in [{} -> R] /\ <<>> \in [{} -> Texts_]
    OBVIOUS
  <2>2. {} \in SUBSET Modules /\ {} \in SUBSET (MetaKeys \cup {"Last updated"})
    OBVIOUS
  <2> HIDE DEF Section, R
  <2> DEFINE AllR == UNION {[ms -> R] : ms \in SUBSET Modules}
             AllF == UNION {[fs -> Texts_] : fs \in SUBSET (MetaKeys \cup {"Last updated"})}
  <2>3. <<>> \in AllR
    BY <2>1, <2>2
  <2>4. <<>> \in AllF
    BY <2>1, <2>2
  <2> HIDE DEF AllR, AllF
  <2>5. [table |-> FALSE, rows |-> <<>>, meta |-> <<>>, sections |-> old]
           \in [table : BOOLEAN, rows : AllR, meta : AllF, sections : Seq(Section)]
    BY <2>3, <2>4
  <2> QED BY <2>5 DEF States, AllR, AllF, R
<1>7. ASSUME NEW rows \in AllRows, NEW meta \in AllMeta, NEW table \in BOOLEAN,
             NEW state, state = [table |-> table, rows |-> rows, meta |-> meta, sections |-> <<>>]
      PROVE  /\ Told(state, NoAnswer)
             /\ \A status \in {"done", "unknown"}, takeaway \in Texts_, said \in [MetaKeys -> Texts_] :
                   Told(state, Answer(status, takeaway, said, <<>>))
  <2>1. state \in States
    BY <1>5, <1>7
  <2>2. {"done", "unknown"} \subseteq Written
    BY DEF Statuses, Written
  <2> HIDE DEF Section
  <2> QED BY <1>2, <1>3, <1>4, <2>1, <2>2, EveryCardTells
<1>8. ASSUME NEW old \in BoundedSeq(Sections(BoundedSeq({"options"} \cup Sayings, 1)), 2),
             NEW state, state = [table |-> FALSE, rows |-> <<>>, meta |-> <<>>, sections |-> old],
             NEW none, none = [k \in MetaKeys |-> ""]
      PROVE  /\ \A s \in Sections(BoundedSeq(Texts_, MaxItems)) : Told(state, Answer("done", "", none, <<s>>))
             /\ \A s, r \in Sections(BoundedSeq(Sayings, 1)) : Told(state, Answer("done", "", none, <<s, r>>))
  <2>1. \A T : T \subseteq Section => BoundedSeq(T, 2) \subseteq Seq(Section)
    <3>1. 2 \in Nat
      OBVIOUS
    <3> HIDE DEF Section
    <3> QED BY <3>1, BoundedSeqs
  <2>2. old \in Seq(Section)
    BY <2>1, SomeSections
  <2>3. state \in States
    BY <1>6, <1>8, <2>2
  <2>4. none \in [MetaKeys -> Texts_] /\ "done" \in Written
    BY <1>1, <1>8 DEF Statuses, Written
  <2>5. \A s \in Section : <<s>> \in Seq(Section)
    <3> HIDE DEF Section
    <3> QED OBVIOUS
  <2>6. \A s, r \in Section : <<s, r>> \in Seq(Section)
    <3> HIDE DEF Section
    <3> QED OBVIOUS
  <2>7. \A sections \in Seq(Section) : Told(state, Answer("done", "", none, sections))
    BY <1>1, <1>4, <2>3, <2>4, EveryCardTells
  <2>8. /\ Sections(BoundedSeq(Texts_, MaxItems)) \subseteq Section
        /\ Sections(BoundedSeq(Sayings, 1)) \subseteq Section
    BY SomeSections, PatchAssumption
  <2> QED BY <2>5, <2>6, <2>7, <2>8
<1> QED BY <1>7, <1>8 DEF PatchesAreTold

\* Whatever a proposal was made from, its card tells what approving it changes.
THEOREM CardTellsAllHolds == Spec => []CardTellsAll
<1>1. CardTellsAll
  BY PatchesAreToldHolds DEF CardTellsAll
<1> QED BY <1>1, PTL
==============================================================================
