----------------------------- MODULE CacheAside -----------------------------
(***************************************************************************)
(* The entries the repositories keep in Redis, and the order in which each *)
(* operation writes the database and refreshes or drops them.              *)
(*                                                                         *)
(* Entries do not influence one another, nor do the parts of the database  *)
(* they are read from, so the module follows one entry and one of its      *)
(* aspects at a time, any ones, chosen at the start.  An entry, like a row *)
(* an operation holds, is stale once its aspect has changed since.         *)
(***************************************************************************)
EXTENDS Naturals, FiniteSets, Sequences

CONSTANTS
  Calls,              \* operations that may be under way at once
  MaxCuts             \* operations cut short between two of their steps

ASSUME CacheAssumption == MaxCuts \in Nat

VARIABLES
  key,                \* the entry followed
  aspect,             \* what is followed of it
  entry,              \* the copy in Redis: here or not, stale or not; put too late to be dropped or not
  calls,              \* operations under way
  cut,                \* history: an operation was cut short after it wrote the aspect
  cuts

cacheVars == <<key, aspect, entry, calls, cut, cuts>>

----------------------------------------------------------------------------
(* What each entry is read from.  "new..." is the set of rows as it grows; *)
(* a deletion counts as a change of the row.                               *)

VocabById ==
  {"vocab", "target", "targetRemoval", "subjectName", "unnoticedSubject", "wordType", "language",
   "mastery", "cascade", "account"}
VocabList == VocabById \cup {"newVocab", "folder"}
RelatedById == {"related", "vocab", "cascade", "account"}
SubjectById == {"subject", "account"}
SubjectsOfUser == {"subject", "newSubject", "account"}
FolderById == {"folder", "language", "account"}
FoldersOfUser == {"folder", "newFolder", "language", "account"}
WordTypeById == {"wordType"}
WordTypes == {"wordType", "newWordType"}
LanguageById == {"language"}
Languages == {"language", "newLanguage"}
Sees == [
  vocabId |-> VocabById, vocabList |-> VocabList, relatedId |-> RelatedById,
  subjectId |-> SubjectById, subjectList |-> SubjectsOfUser, folderId |-> FolderById,
  folderList |-> FoldersOfUser, wordTypeId |-> WordTypeById, wordTypeAll |-> WordTypes,
  languageId |-> LanguageById, languageAll |-> Languages ]
Keys == DOMAIN Sees

\* The changes that are not carried over to an entry, though nothing else is
\* under way and nothing fails: a copy made before stays until it expires.  What
\* goes with a deleted word, folder, subject, language or user by the database's
\* cascades is among them.  (A row an update returns comes without the score.)
Gaps == [ k \in Keys |->
  CASE k = "vocabId" -> {"targetRemoval", "subjectName", "unnoticedSubject", "wordType", "language",
                          "mastery", "cascade", "account"}
    [] k = "vocabList" -> {"targetRemoval", "unnoticedSubject", "wordType", "language", "mastery",
                          "cascade", "folder", "account"}
    [] k = "relatedId" -> {"vocab", "cascade", "account"}
    [] k \in {"folderId", "folderList"} -> {"language", "account"}
    [] k \in {"subjectId", "subjectList"} -> {"account"}
    [] OTHER -> {} ]

----------------------------------------------------------------------------
(* The operations, as the steps that reach the database or Redis.          *)

Step(do, keys, aspects) == [do |-> do, keys |-> keys, aspects |-> aspects]
Store(aspects) == <<Step("write", {}, aspects)>>   \* a commit of the database
Put(k) == <<Step("put", {k}, {})>>           \* the row the write returned
PutNew(k) == <<Step("putNew", {k}, {})>>     \* the row it has created
Drop(k) == <<Step("drop", {k}, {})>>
\* KEYS, then DEL of what KEYS has found.
DropFound(keys) == <<Step("find", keys, {}), Step("dropFound", keys, {})>>

ClearListCaches == DropFound({"vocabList"})
ClearVocabCache == DropFound({"vocabId", "vocabList"})

CreateVocab == Store({"newVocab"}) \o PutNew("vocabId") \o ClearListCaches
CreateVocabLinked ==
  Store({"newVocab", "related"}) \o PutNew("vocabId") \o Drop("relatedId") \o ClearListCaches
UpdateVocab == Store({"vocab", "target"}) \o Put("vocabId") \o ClearListCaches
UpdateVocabLinked ==
  Store({"vocab", "target", "related"}) \o Put("vocabId") \o Drop("relatedId") \o ClearListCaches
RemoveVocab == Store({"vocab", "related"}) \o Drop("vocabId") \o Drop("relatedId") \o ClearListCaches
CreateBulk == CreateVocab \o ClearVocabCache \o ClearListCaches
UpdateBulk == UpdateVocab \o ClearVocabCache \o ClearListCaches
DeleteBulk == RemoveVocab \o ClearVocabCache \o ClearListCaches
ImportCsv ==
  Store({"newVocab", "vocab", "target"}) \o Store({"related"}) \o Drop("relatedId")
  \o ClearVocabCache \o ClearListCaches
Translate == Store({"targetRemoval"}) \o UpdateVocab
\* Mutant: a new translation leaves the entry of its word alone.
CreateTextTargetListOnly == Store({"target"}) \o ClearListCaches
CreateTextTarget == Store({"target"}) \o Drop("vocabId") \o ClearListCaches
UpdateTextTarget == Store({"target"}) \o Drop("vocabId") \o ClearListCaches
RemoveTextTarget == Store({"targetRemoval"})
UpsertRelated == Store({"related"}) \o Drop("relatedId")
DeleteRelated == Store({"related"}) \o Drop("relatedId")
UpdateMastery == Store({"mastery"})

CreateSubject == Store({"newSubject"}) \o PutNew("subjectId") \o Drop("subjectList")
UpsertSubject == Store({"newSubject"}) \o Drop("subjectList")
\* The lists of words go when the name differs from the one found, in Redis if
\* it is there: a stale entry that has the new name already hides the change.
UpdateSubject ==
  Store({"subject", "subjectName"}) \o Put("subjectId") \o Drop("subjectList") \o ClearListCaches
UpdateSubjectUnnoticed ==
  Store({"subject", "unnoticedSubject"}) \o Put("subjectId") \o Drop("subjectList")
ClearUserCache == Drop("subjectList") \o Drop("subjectId")
ReorderSubjects == Store({"subject", "unnoticedSubject"}) \o ClearUserCache
\* The entries go before the transaction commits.  Another user's words may have
\* been linked to the subject.
DeleteSubject == Drop("subjectId") \o Drop("subjectList") \o Store({"subject", "unnoticedSubject"})

CreateFolder == Store({"newFolder"}) \o PutNew("folderId") \o Drop("folderList")
UpdateFolder == Store({"folder"}) \o Put("folderId") \o Drop("folderList")
DeleteFolder == Store({"folder", "cascade"}) \o Drop("folderId") \o Drop("folderList")

CreateWordType == Store({"newWordType"}) \o Drop("wordTypeAll")
UpdateWordType == Store({"wordType"}) \o Drop("wordTypeAll") \o Drop("wordTypeId")
DeleteWordType == Store({"wordType"}) \o Drop("wordTypeAll") \o Drop("wordTypeId")
CreateLanguage == Store({"newLanguage"}) \o Drop("languageAll")
UpdateLanguage == Store({"language"}) \o Drop("languageAll") \o Drop("languageId")
DeleteLanguage == Store({"language", "cascade"}) \o Drop("languageAll") \o Drop("languageId")

\* Words, subjects and folders go with their user, and no entry is dropped.
DeleteUser == Store({"account"})

ClearAllCaches ==
  ClearVocabCache \o DropFound({"subjectId", "subjectList"}) \o DropFound({"wordTypeId", "wordTypeAll"})
  \o DropFound({"languageId", "languageAll"}) \o DropFound({"folderId", "folderList"})
  \o DropFound({"relatedId"})

\* A read fills the entry it has not found, whichever is asked for.
Read == <<Step("get", Keys, {}), Step("query", Keys, {}), Step("put", Keys, {})>>

Script == [
  createVocab |-> CreateVocab, createVocabLinked |-> CreateVocabLinked, updateVocab |-> UpdateVocab,
  updateVocabLinked |-> UpdateVocabLinked, deleteVocab |-> RemoveVocab, createBulk |-> CreateBulk,
  updateBulk |-> UpdateBulk, deleteBulk |-> DeleteBulk, importCsv |-> ImportCsv, translate |-> Translate,
  createTextTarget |-> CreateTextTarget, updateTextTarget |-> UpdateTextTarget,
  removeTextTarget |-> RemoveTextTarget, upsertRelated |-> UpsertRelated, deleteRelated |-> DeleteRelated,
  updateMastery |-> UpdateMastery, createSubject |-> CreateSubject, upsertSubject |-> UpsertSubject,
  updateSubject |-> UpdateSubject, updateSubjectUnnoticed |-> UpdateSubjectUnnoticed,
  reorderSubjects |-> ReorderSubjects, deleteSubject |-> DeleteSubject, createFolder |-> CreateFolder,
  updateFolder |-> UpdateFolder, deleteFolder |-> DeleteFolder, createWordType |-> CreateWordType,
  updateWordType |-> UpdateWordType, deleteWordType |-> DeleteWordType, createLanguage |-> CreateLanguage,
  updateLanguage |-> UpdateLanguage, deleteLanguage |-> DeleteLanguage,
  deleteUser |-> DeleteUser, clearAllCaches |-> ClearAllCaches, read |-> Read ]
Ops == DOMAIN Script

----------------------------------------------------------------------------
(* Their interleaving. *)

Idle == [op |-> "idle", at |-> 1, stale |-> FALSE, found |-> FALSE]
NoEntry == [here |-> FALSE, stale |-> FALSE, late |-> FALSE]
Writes(op) == \E i \in DOMAIN Script[op] : aspect \in Script[op][i].aspects
Concerns(op) == Writes(op) \/ \E i \in DOMAIN Script[op] : key \in Script[op][i].keys
\* An operation under way has committed the aspect.
HasWritten(c) ==
  calls[c] # Idle /\ \E i \in 1..(calls[c].at - 1) : aspect \in Script[calls[c].op][i].aspects
\* One has dropped the entry already, and is yet to commit the aspect.
DroppedFirst(c) ==
  /\ calls[c] # Idle
  /\ \E i \in 1..(calls[c].at - 1) : Script[calls[c].op][i].do = "drop" /\ key \in Script[calls[c].op][i].keys
  /\ \E i \in calls[c].at..Len(Script[calls[c].op]) : aspect \in Script[calls[c].op][i].aspects

CacheInit ==
  /\ key \in Keys /\ aspect \in Sees[key]
  /\ entry = NoEntry /\ calls = [c \in Calls |-> Idle] /\ cut = FALSE /\ cuts = 0

Begin(c, op) ==
  /\ calls[c] = Idle /\ Concerns(op)
  /\ calls' = [calls EXCEPT ![c] = [Idle EXCEPT !.op = op]]
  /\ UNCHANGED <<key, aspect, entry, cut, cuts>>

This(c) == Script[calls[c].op][calls[c].at]
Does(c, do) ==
  /\ calls[c] # Idle /\ This(c).do = do
  /\ UNCHANGED <<key, aspect, cut, cuts>>
Moved(call) == IF call.at = Len(Script[call.op]) THEN Idle ELSE [call EXCEPT !.at = @ + 1]
Move(c) == calls' = [calls EXCEPT ![c] = Moved(@)]

\* A commit: every copy of what it changes is stale from here on, except the
\* row it returns.
Commit(c) ==
  LET changed == aspect \in This(c).aspects IN
  /\ Does(c, "write")
  /\ entry' = [entry EXCEPT !.stale = @ \/ (entry.here /\ changed)]
  /\ calls' = [k \in Calls |->
       IF k = c THEN Moved([calls[k] EXCEPT !.stale = FALSE])
       ELSE IF calls[k] = Idle THEN Idle ELSE [calls[k] EXCEPT !.stale = @ \/ changed]]
\* The database refuses the statement, or the read finds no row.  An import
\* goes on to its clears, past the related words it could not write.
AfterRefusal(call) == IF call.op = "importCsv" THEN [call EXCEPT !.at = 4] ELSE Idle
Refuse(c) ==
  /\ Does(c, "write") \/ Does(c, "query")
  /\ calls' = [calls EXCEPT ![c] = AfterRefusal(@)] /\ UNCHANGED entry

Get(c) ==
  /\ Does(c, "get") /\ UNCHANGED entry
  /\ calls' = [calls EXCEPT ![c] = IF entry.here THEN Idle ELSE Moved(@)]
Query(c) ==
  /\ Does(c, "query") /\ UNCHANGED entry
  /\ calls' = [calls EXCEPT ![c] = Moved([@ EXCEPT !.stale = FALSE])]

\* The copy is late if what should drop it will not: the aspect was committed
\* since the row was read, or its entry dropped by one who will commit it yet.
Copy(c) == [here |-> TRUE, stale |-> calls[c].stale,
            late |-> calls[c].stale \/ \E k \in Calls : DroppedFirst(k)]
JsonSet(c) ==
  /\ Does(c, "put") /\ Move(c)
  /\ entry' = IF key \in This(c).keys THEN Copy(c) ELSE entry
\* The row created is the one followed, if that has no entry yet.
JsonSetNew(c) ==
  /\ Does(c, "putNew") /\ Move(c)
  /\ \/ UNCHANGED entry
     \/ key \in This(c).keys /\ ~entry.here /\ entry' = Copy(c)

Del(c) ==
  /\ Does(c, "drop") /\ Move(c)
  /\ entry' = IF key \in This(c).keys THEN NoEntry ELSE entry
FindKeys(c) ==
  /\ Does(c, "find") /\ UNCHANGED entry
  /\ calls' = [calls EXCEPT ![c] = Moved([@ EXCEPT !.found = entry.here /\ key \in This(c).keys])]
DelFound(c) ==
  /\ Does(c, "dropFound") /\ Move(c)
  /\ entry' = IF calls[c].found THEN NoEntry ELSE entry

\* The time to live ends, or an administrator flushes the cache.
Expire == entry.here /\ entry' = NoEntry /\ UNCHANGED <<key, aspect, calls, cut, cuts>>

Upset(c) ==
  /\ calls[c] # Idle /\ cuts < MaxCuts /\ cuts' = cuts + 1
  /\ cut' = (cut \/ HasWritten(c))
  /\ UNCHANGED <<key, aspect, entry>>
\* The process ends, or Redis fails, between two steps.
Cut(c) == Upset(c) /\ calls' = [calls EXCEPT ![c] = Idle]
\* The pipeline of a JSON.SET reports its errors to nobody.
LostSet(c) == Upset(c) /\ This(c).do \in {"put", "putNew"} /\ Move(c)

CacheNext ==
  \/ Expire
  \/ \E c \in Calls :
       \/ \E op \in Ops : Begin(c, op)
       \/ Commit(c) \/ Refuse(c) \/ Get(c) \/ Query(c) \/ JsonSet(c) \/ JsonSetNew(c)
       \/ Del(c) \/ FindKeys(c) \/ DelFound(c) \/ Cut(c) \/ LostSet(c)
CacheSpec == CacheInit /\ [][CacheNext]_cacheVars

----------------------------------------------------------------------------
(* Properties. *)

\* A copy in Redis differs from the database only in a gap, in what an operation
\* wrote that has not ended yet or was cut short, or because it was put too
\* late: its row was read before another operation's commit and put after it, or
\* it was put between the clears of a subject's deletion and their commit.  So
\* whoever reads a row after its last commit, and finds no operation at work on
\* it, puts a copy that stays fresh until the next commit, which sees to it: the
\* repositories refresh or drop every entry their writes touch, but for the gaps.
StaleOnlyIfOverlapped ==
  entry.stale => entry.late \/ (\E c \in Calls : HasWritten(c)) \/ cut \/ aspect \in Gaps[key]
=============================================================================
