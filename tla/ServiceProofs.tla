-------------------------- MODULE ServiceProofs ---------------------------
(***************************************************************************)
(* Theorems about the services around the wallet and their files.  The     *)
(* address book: whose keys it serves, and that no key it acknowledged is  *)
(* lost or undone.  The wallet server: no two wallets share the files of a *)
(* keystore, and the secret of an asset stays with the wallet that defined *)
(* it.  The asset library: what is signed matches the chain.               *)
(***************************************************************************)
EXTENDS AddressBook, WalletServer, AssetLibrary, Integers, FiniteSetTheorems, TLAPS

-----------------------------------------------------------------------------
(* The inductive invariant.                                                *)

Files == [by : BookRequests \cup {"nobody"}, whole : BOOLEAN]

Saving == {"verified", "writing", "written"}

Requests ==
    [op : {"none", "insert", "request", "healthcheck"}, address : Addresses,
     signer : Addresses, answer : Files, after : SUBSET BookRequests,
     at : Saving \cup {"none", "received", "bad request", "ok", "error", "not found",
                       "panic", "lost"}]

BookTypes ==
    /\ files \in [Names -> Files]
    /\ requests \in [BookRequests -> Requests]

\* The request may write the key of its address.
Authorised(r) ==
    \/ requests[r].op = "insert" /\ requests[r].signer = requests[r].address
    \/ requests[r].op = "healthcheck" /\ requests[r].address = Default

\* Only an authorised request saves or has saved.
SavesAuthorised ==
    \A r \in BookRequests :
        requests[r].at \in Saving \/ (requests[r].at = "ok" /\ requests[r].op # "request")
          => Authorised(r)

\* The temporary file of a save is its own until it is renamed.
TemporaryFilesOwned ==
    \A r \in BookRequests :
        requests[r].at = "written" => files[r] = [by |-> r, whole |-> TRUE]

\* The file is a whole key that an answered request wrote for this address.
WrittenFor(a, file) ==
    /\ file.whole
    /\ file.by \in BookRequests
    /\ requests[file.by].at = "ok" /\ requests[file.by].op # "request"
    /\ requests[file.by].address = a

FilesWritten ==
    \A a \in Addresses : files[a] = NoFile \/ WrittenFor(a, files[a])

\* Requests remember inserts that were answered before them.
AfterAnswered ==
    \A r \in BookRequests : requests[r].after \subseteq answered("insert")

\* The file of an address is at least as late as the insert.
NotUndone(i, file) == file.whole /\ file.by \notin requests[i].after

InsertsKept ==
    \A i \in answered("insert") : NotUndone(i, files[requests[i].address])

\* An answer was a file of its address, as late as every insert the request
\* came after.
AnswersRead ==
    \A r \in BookRequests : requests[r].op = "request" =>
        /\ requests[r].at # "panic"
        /\ requests[r].at = "ok" => WrittenFor(requests[r].address, requests[r].answer)
        /\ requests[r].at \in {"ok", "not found"} =>
              \A i \in requests[r].after : requests[i].address = requests[r].address =>
                  requests[r].at = "ok" /\ NotUndone(i, requests[r].answer)

BookInv ==
    /\ BookTypes /\ SavesAuthorised /\ TemporaryFilesOwned /\ FilesWritten /\ AfterAnswered
    /\ InsertsKept /\ AnswersRead
-----------------------------------------------------------------------------
(* Types.                                                                  *)

\* A request moves on to another point of its handler.
LEMMA MoveTypes ==
    ASSUME BookTypes, NEW r \in BookRequests, NEW at, moveTo(r, at),
           at \in Saving \cup {"bad request", "ok", "error"}
    PROVE  /\ requests' \in [BookRequests -> Requests]
           /\ \A q \in BookRequests \ {r} : requests'[q] = requests[q]
           /\ requests'[r].at = at
           /\ requests'[r].op = requests[r].op /\ requests'[r].address = requests[r].address
           /\ requests'[r].signer = requests[r].signer /\ requests'[r].after = requests[r].after
<1>1. requests[r] \in Requests /\ [requests[r] EXCEPT !.at = at] \in Requests
  <2>1. requests[r] \in Requests
      BY DEF BookTypes
  <2> QED
      BY <2>1 DEF Requests
<1>2. requests' = [requests EXCEPT ![r] = [requests[r] EXCEPT !.at = at]]
    BY DEF moveTo
<1>3. LET q == [requests[r] EXCEPT !.at = at] IN
      /\ q.at = at /\ q.op = requests[r].op /\ q.address = requests[r].address
      /\ q.signer = requests[r].signer /\ q.after = requests[r].after
    BY <1>1 DEF Requests
<1> QED
    BY <1>1, <1>2, <1>3 DEF BookTypes

\* A new request.
LEMMA PostTypes ==
    ASSUME BookTypes, NEW r \in BookRequests, NEW op \in {"insert", "request", "healthcheck"},
           NEW a \in Addresses, NEW s \in Addresses, NEW at \in {"received", "verified"},
           post(r, asks(op, a, s, at))
    PROVE  /\ requests' \in [BookRequests -> Requests]
           /\ \A q \in BookRequests \ {r} : requests'[q] = requests[q]
           /\ requests[r].at = "none" /\ requests'[r].at = at
           /\ requests'[r].op = op /\ requests'[r].address = a /\ requests'[r].signer = s
           /\ requests'[r].after = answered("insert")
           /\ UNCHANGED files
<1>1. NoFile \in Files
    BY DEF NoFile, Files
<1>2. answered("insert") \in SUBSET BookRequests
    BY DEF answered
<1>3. asks(op, a, s, at) \in Requests
    BY <1>1, <1>2 DEF asks, Requests, Saving
<1>4. /\ asks(op, a, s, at).at = at /\ asks(op, a, s, at).op = op
      /\ asks(op, a, s, at).address = a /\ asks(op, a, s, at).signer = s
      /\ asks(op, a, s, at).after = answered("insert")
    BY DEF asks
<1>5. NotMade.at = "none"
    BY DEF NotMade
<1> QED
    BY <1>3, <1>4, <1>5, Zenon DEF post, BookTypes

\* Every name that is used is one of the directory.
LEMMA NamesUsed == Addresses \subseteq Names /\ BookRequests \subseteq Names
    BY DEF Names

-----------------------------------------------------------------------------
(* Steps that answer nothing and leave the files of the addresses alone.   *)

\* Requests that are not answered may change, to requests that are not.
Quiet ==
    /\ \A a \in Addresses : files'[a] = files[a]
    /\ \A r \in BookRequests :
          \/ requests'[r] = requests[r]
          \/ /\ requests[r].at # "ok"
             /\ requests'[r].at \notin {"ok", "not found", "panic"}
             /\ requests'[r].after \subseteq answered("insert")

\* Such a step keeps what is known of files and answers.
LEMMA QuietStep ==
    ASSUME BookInv, BookTypes', Quiet
    PROVE  FilesWritten' /\ AfterAnswered' /\ InsertsKept' /\ AnswersRead'
<1> USE DEF BookInv
<1>1. answered("insert")' = answered("insert")
    BY DEF Quiet, answered
<1>2. \A i \in answered("insert") : requests'[i] = requests[i]
    BY DEF Quiet, answered
<1>3. \A a \in Addresses : \A file : WrittenFor(a, file) => WrittenFor(a, file)'
    BY DEF Quiet, WrittenFor
<1>4. FilesWritten'
    BY <1>3 DEF FilesWritten, Quiet
<1>5. AfterAnswered'
    BY <1>1 DEF AfterAnswered, Quiet
<1>6. InsertsKept'
  <2>1. \A i \in answered("insert") : i \in BookRequests /\ requests[i].address \in Addresses
      BY DEF answered, BookTypes, Requests
  <2> QED
      BY <1>1, <1>2, <2>1 DEF InsertsKept, NotUndone, Quiet
<1>7. AnswersRead'
  <2> SUFFICES ASSUME NEW r \in BookRequests, requests'[r].op = "request"
               PROVE  /\ requests'[r].at # "panic"
                      /\ requests'[r].at = "ok" =>
                            WrittenFor(requests[r].address, requests[r].answer)'
                      /\ requests'[r].at \in {"ok", "not found"} =>
                            \A i \in requests'[r].after :
                                requests'[i].address = requests'[r].address =>
                                  requests'[r].at = "ok" /\ NotUndone(i, requests[r].answer)'
      BY DEF AnswersRead
  <2>1. CASE requests'[r] # requests[r]
      BY <2>1 DEF Quiet
  <2>2. CASE requests'[r] = requests[r]
    <3>1. requests[r].address \in Addresses /\ requests[r].after \subseteq answered("insert")
        BY DEF BookTypes, Requests, AfterAnswered
    <3>2. requests'[r].at = "ok" => WrittenFor(requests[r].address, requests[r].answer)'
      <4>1. requests[r].at = "ok" => WrittenFor(requests[r].address, requests[r].answer)
          BY <2>2 DEF AnswersRead
      <4> QED
          BY <2>2, <4>1 DEF Quiet, WrittenFor
    <3> QED
        BY <1>2, <2>2, <3>1, <3>2 DEF AnswersRead, NotUndone
  <2> QED
      BY <2>1, <2>2
<1> QED
    BY <1>4, <1>5, <1>6, <1>7

-----------------------------------------------------------------------------
(* Each action keeps the invariant.                                        *)

\* A new request is not answered yet, and knows the inserts that are.
LEMMA PostStep ==
    ASSUME BookInv, NEW r \in BookRequests, NEW op \in {"insert", "request", "healthcheck"},
           NEW a \in Addresses, NEW s \in Addresses, NEW at \in {"received", "verified"},
           at = "verified" => op = "healthcheck" /\ a = Default,
           post(r, asks(op, a, s, at))
    PROVE  BookInv'
<1>1. /\ requests' \in [BookRequests -> Requests]
      /\ \A q \in BookRequests \ {r} : requests'[q] = requests[q]
      /\ requests[r].at = "none" /\ requests'[r].at = at
      /\ requests'[r].op = op /\ requests'[r].address = a /\ requests'[r].signer = s
      /\ requests'[r].after = answered("insert")
      /\ UNCHANGED files
    BY PostTypes DEF BookInv
<1>2. BookTypes'
    BY <1>1 DEF BookInv, BookTypes
<1>3. Quiet
    BY <1>1 DEF Quiet
<1>4. SavesAuthorised'
    BY <1>1 DEF BookInv, SavesAuthorised, Authorised, Saving
<1>5. TemporaryFilesOwned'
    BY <1>1 DEF BookInv, TemporaryFilesOwned
<1> QED
    BY <1>2, <1>3, <1>4, <1>5, QuietStep DEF BookInv

\* Only a valid signature lets an insert go on to save.
LEMMA VerifyStep ==
    ASSUME BookInv, NEW r \in BookRequests, verify_sig_and_get_pub_key(r)
    PROVE  BookInv'
<1>1. PICK at \in {"verified", "bad request"} :
         /\ moveTo(r, at)
         /\ at = "verified" => Authorised(r)
    BY DEF verify_sig_and_get_pub_key, verify_sig, Authorised
<1>2. /\ requests' \in [BookRequests -> Requests]
      /\ \A q \in BookRequests \ {r} : requests'[q] = requests[q]
      /\ requests'[r].at = at
      /\ requests'[r].op = requests[r].op /\ requests'[r].address = requests[r].address
      /\ requests'[r].signer = requests[r].signer /\ requests'[r].after = requests[r].after
    BY <1>1, MoveTypes DEF BookInv, Saving
<1>3. requests[r].at = "received" /\ UNCHANGED files
    BY DEF verify_sig_and_get_pub_key
<1>4. BookTypes'
    BY <1>2, <1>3 DEF BookInv, BookTypes
<1>5. Quiet
    BY <1>2, <1>3 DEF Quiet, BookInv, AfterAnswered
<1>6. SavesAuthorised'
    BY <1>1, <1>2 DEF BookInv, SavesAuthorised, Authorised, Saving
<1>7. TemporaryFilesOwned'
    BY <1>2, <1>3 DEF BookInv, TemporaryFilesOwned
<1> QED
    BY <1>4, <1>5, <1>6, <1>7, QuietStep DEF BookInv

\* A save that writes its temporary file, or fails: no file of an address
\* changes and nothing is answered.
LEMMA SaveStep ==
    ASSUME BookInv, NEW r \in BookRequests, SaveOpens(r) \/ SaveWrites(r) \/ SaveFails(r)
    PROVE  BookInv'
<1>1. PICK at \in {"writing", "written", "error"} :
         /\ moveTo(r, at)
         /\ at = "written" => fillTmp(r)
         /\ fillTmp(r) \/ createTmp(r) \/ UNCHANGED files
    BY DEF SaveOpens, SaveWrites, SaveFails
<1>2. /\ requests' \in [BookRequests -> Requests]
      /\ \A q \in BookRequests \ {r} : requests'[q] = requests[q]
      /\ requests'[r].at = at
      /\ requests'[r].op = requests[r].op /\ requests'[r].address = requests[r].address
      /\ requests'[r].signer = requests[r].signer /\ requests'[r].after = requests[r].after
    BY <1>1, MoveTypes DEF BookInv, Saving
<1>3. requests[r].at \in Saving
    BY DEF SaveOpens, SaveWrites, SaveFails, Saving
<1>4. PICK file \in Files : files' = [files EXCEPT ![r] = file] \/ UNCHANGED files
  <2>1. [by |-> r, whole |-> TRUE] \in Files /\ [by |-> r, whole |-> FALSE] \in Files
      BY DEF Files
  <2> QED
      BY <1>1, <2>1 DEF fillTmp, createTmp, tmp_path
<1>5. BookTypes'
    BY <1>2, <1>4 DEF BookInv, BookTypes
<1>6. \A n \in Names \ {r} : files'[n] = files[n]
    BY <1>4 DEF BookInv, BookTypes
<1>7. Quiet
    BY <1>2, <1>3, <1>6, NamesUsed, AddressBookAssumption
       DEF Quiet, BookInv, AfterAnswered, Saving
<1>8. SavesAuthorised'
    BY <1>1, <1>2, <1>3 DEF BookInv, SavesAuthorised, Authorised
<1>9. TemporaryFilesOwned'
  <2>1. at = "written" => files'[r] = [by |-> r, whole |-> TRUE]
      BY <1>1, NamesUsed DEF fillTmp, tmp_path, BookInv, BookTypes
  <2> QED
      BY <1>2, <1>6, <2>1, NamesUsed DEF BookInv, TemporaryFilesOwned
<1> QED
    BY <1>5, <1>7, <1>8, <1>9, QuietStep DEF BookInv

\* The rename puts the key of an authorised request in place, after every
\* insert that was answered so far.
LEMMA RenameStep ==
    ASSUME BookInv, NEW r \in BookRequests, SaveRenames(r)
    PROVE  BookInv'
<1> DEFINE file == [by |-> r, whole |-> TRUE]
<1>0. PICK a \in Addresses : requests[r].address = a
    BY DEF BookInv, BookTypes, Requests
<1>1. /\ requests' \in [BookRequests -> Requests]
      /\ \A q \in BookRequests \ {r} : requests'[q] = requests[q]
      /\ requests'[r].at = "ok"
      /\ requests'[r].op = requests[r].op /\ requests'[r].address = requests[r].address
      /\ requests'[r].signer = requests[r].signer /\ requests'[r].after = requests[r].after
    BY MoveTypes DEF BookInv, SaveRenames
<1>2. requests[r].at = "written" /\ files[r] = file /\ Authorised(r)
    BY DEF SaveRenames, BookInv, TemporaryFilesOwned, SavesAuthorised, Saving
<1>3. requests[r].op # "request"
    BY <1>2 DEF Authorised
<1>4. a # r /\ a \in Names /\ r \in Names
    BY NamesUsed, AddressBookAssumption
<1>5. files' = [files EXCEPT ![a] = file, ![r] = NoFile]
    BY <1>0, <1>2 DEF SaveRenames, rename, path, tmp_path
<1>6. /\ files'[a] = file
      /\ \A n \in Names \ {a, r} : files'[n] = files[n]
    BY <1>4, <1>5 DEF BookInv, BookTypes
<1>7. /\ \A b \in Addresses \ {a} : files'[b] = files[b]
      /\ \A q \in BookRequests \ {r} : files'[q] = files[q]
    BY <1>4, <1>6, NamesUsed, AddressBookAssumption
<1>8. BookTypes'
    BY <1>1, <1>5 DEF BookInv, BookTypes, Files, NoFile
<1>9. SavesAuthorised'
    BY <1>1, <1>2 DEF BookInv, SavesAuthorised, Authorised
<1>10. TemporaryFilesOwned'
    BY <1>1, <1>7 DEF BookInv, TemporaryFilesOwned
<1>11. \A b \in Addresses : \A g : WrittenFor(b, g) => WrittenFor(b, g)'
    BY <1>1, <1>2 DEF WrittenFor
<1>12. FilesWritten'
  <2>1. WrittenFor(a, file)'
      BY <1>0, <1>1, <1>3 DEF WrittenFor
  <2> QED
      BY <1>6, <1>7, <1>11, <2>1 DEF BookInv, FilesWritten
<1>13. /\ answered("insert")' \subseteq answered("insert") \cup {r}
       /\ answered("insert") \subseteq answered("insert")'
       /\ r \notin answered("insert")
    BY <1>1, <1>2 DEF answered
<1>14. AfterAnswered'
    BY <1>1, <1>13 DEF BookInv, AfterAnswered
<1>15. \A i \in BookRequests : r \notin requests'[i].after
    BY <1>1, <1>13 DEF BookInv, AfterAnswered
<1>16. InsertsKept'
  <2> SUFFICES ASSUME NEW i \in answered("insert")'
               PROVE  NotUndone(i, files[requests[i].address])'
      BY DEF InsertsKept
  <2>0. i \in BookRequests /\ requests'[i].address = requests[i].address
           /\ requests'[i].after = requests[i].after /\ requests[i].address \in Addresses
      BY <1>1 DEF answered, BookInv, BookTypes, Requests
  <2>1. CASE requests[i].address = a
      BY <1>6, <1>15, <2>0, <2>1 DEF NotUndone
  <2>2. CASE requests[i].address # a
    <3>1. i \in answered("insert")
        BY <1>0, <1>13, <2>2
    <3> QED
        BY <1>7, <2>0, <2>2, <3>1 DEF BookInv, InsertsKept, NotUndone
  <2> QED
      BY <2>1, <2>2
<1>17. AnswersRead'
  <2> SUFFICES ASSUME NEW q \in BookRequests, requests'[q].op = "request"
               PROVE  /\ requests'[q].at # "panic"
                      /\ requests'[q].at = "ok" =>
                            WrittenFor(requests[q].address, requests[q].answer)'
                      /\ requests'[q].at \in {"ok", "not found"} =>
                            \A i \in requests'[q].after :
                                requests'[i].address = requests'[q].address =>
                                  requests'[q].at = "ok" /\ NotUndone(i, requests[q].answer)'
      BY DEF AnswersRead
  <2>1. requests'[q] = requests[q] /\ requests[q].op = "request"
      BY <1>1, <1>3
  <2>2. requests'[q].at = "ok" => WrittenFor(requests[q].address, requests[q].answer)'
    <3>1. requests[q].at = "ok" => WrittenFor(requests[q].address, requests[q].answer)
        BY <2>1 DEF BookInv, AnswersRead
    <3> QED
        BY <1>1, <1>2, <2>1, <3>1 DEF WrittenFor
  <2>3. \A i \in requests[q].after : i \in BookRequests /\ i # r
      BY <1>15, <2>1, <1>13 DEF BookInv, AfterAnswered, answered
  <2> QED
      BY <1>1, <2>1, <2>2, <2>3 DEF BookInv, AnswersRead, NotUndone
<1> QED
    BY <1>8, <1>9, <1>10, <1>12, <1>14, <1>16, <1>17 DEF BookInv

\* A request reads what is in place: a whole key of its address, if there is
\* one, and there is one if it came after an insert.
LEMMA ReadStep ==
    ASSUME BookInv, NEW r \in BookRequests, request_pubkey(r)
    PROVE  BookInv'
<1> DEFINE a == requests[r].address
           file == files[a]
           at == IF file = NoFile THEN "not found" ELSE IF file.whole THEN "ok" ELSE "panic"
<1>1. /\ requests[r] \in Requests /\ requests[r].op = "request" /\ requests[r].at = "received"
      /\ UNCHANGED files
    BY DEF request_pubkey, BookInv, BookTypes
<1>2. a \in Addresses /\ file \in Files
    BY <1>1, NamesUsed DEF BookInv, BookTypes, Requests
<1>3. requests' = [requests EXCEPT ![r] = [requests[r] EXCEPT !.answer = file, !.at = at]]
    BY DEF request_pubkey, load, path
<1>4. file # NoFile => WrittenFor(a, file)
    BY <1>2 DEF BookInv, FilesWritten
<1>5. at \in {"ok", "not found"} /\ (at = "ok" <=> file # NoFile)
    BY <1>4 DEF WrittenFor
<1> HIDE DEF a, file, at
<1>6. /\ requests' \in [BookRequests -> Requests]
      /\ \A q \in BookRequests \ {r} : requests'[q] = requests[q]
      /\ requests'[r].at = at /\ requests'[r].answer = file
      /\ requests'[r].op = "request" /\ requests'[r].address = a
      /\ requests'[r].after = requests[r].after
  <2> DEFINE q == [requests[r] EXCEPT !.answer = file, !.at = at]
  <2>1. /\ q \in Requests /\ q.at = at /\ q.answer = file
        /\ q.op = "request" /\ q.address = a /\ q.after = requests[r].after
      BY <1>1, <1>2, <1>5 DEF Requests, a
  <2> HIDE DEF q
  <2> QED
      BY <1>3, <2>1 DEF BookInv, BookTypes, q
<1>7. BookTypes'
    BY <1>1, <1>6 DEF BookInv, BookTypes
<1>8. SavesAuthorised'
    BY <1>5, <1>6 DEF BookInv, SavesAuthorised, Authorised, Saving
<1>9. TemporaryFilesOwned'
    BY <1>1, <1>5, <1>6 DEF BookInv, TemporaryFilesOwned
<1>10. \A b \in Addresses : \A g : WrittenFor(b, g) => WrittenFor(b, g)'
    BY <1>1, <1>6 DEF WrittenFor
<1>11. FilesWritten'
    BY <1>1, <1>10 DEF BookInv, FilesWritten
<1>12. answered("insert")' = answered("insert") /\ r \notin answered("insert")
    BY <1>1, <1>6 DEF answered
<1>13. AfterAnswered'
    BY <1>6, <1>12 DEF BookInv, AfterAnswered
<1>14. \A i \in answered("insert") : i \in BookRequests /\ requests'[i] = requests[i]
    BY <1>6, <1>12 DEF answered
<1>15. InsertsKept'
    BY <1>1, <1>12, <1>14 DEF BookInv, InsertsKept, NotUndone
<1>16. AnswersRead'
  <2> SUFFICES ASSUME NEW q \in BookRequests, requests'[q].op = "request"
               PROVE  /\ requests'[q].at # "panic"
                      /\ requests'[q].at = "ok" =>
                            WrittenFor(requests[q].address, requests[q].answer)'
                      /\ requests'[q].at \in {"ok", "not found"} =>
                            \A i \in requests'[q].after :
                                requests'[i].address = requests'[q].address =>
                                  requests'[q].at = "ok" /\ NotUndone(i, requests[q].answer)'
      BY DEF AnswersRead
  <2>0. requests[q].after \subseteq answered("insert")
      BY DEF BookInv, AfterAnswered
  <2>1. CASE q = r
    <3>1. file # NoFile => WrittenFor(requests[q].address, requests[q].answer)'
        BY <1>1, <1>4, <1>6, <2>1 DEF WrittenFor
    <3>2. \A i \in requests[r].after : requests[i].address = a => NotUndone(i, file)
        BY <2>0, <2>1 DEF BookInv, InsertsKept, file
    <3>3. ~NoFile.whole
        BY DEF NoFile
    <3> QED
        BY <1>5, <1>6, <1>14, <2>0, <2>1, <3>1, <3>2, <3>3 DEF NotUndone
  <2>2. CASE q # r
    <3>1. requests'[q] = requests[q] /\ requests[q].op = "request"
        BY <1>6, <2>2
    <3>2. requests'[q].at = "ok" => WrittenFor(requests[q].address, requests[q].answer)'
      <4>1. requests[q].at = "ok" => WrittenFor(requests[q].address, requests[q].answer)
          BY <3>1 DEF BookInv, AnswersRead
      <4> QED
          BY <1>1, <1>6, <3>1, <4>1 DEF WrittenFor
    <3> QED
        BY <1>14, <2>0, <3>1, <3>2 DEF BookInv, AnswersRead, NotUndone
  <2> QED
      BY <2>1, <2>2
<1> QED
    BY <1>7, <1>8, <1>9, <1>11, <1>13, <1>15, <1>16 DEF BookInv

\* A crash cuts the handlers off; what was answered and what is on disk stays.
LEMMA KillStep ==
    ASSUME BookInv, Kill
    PROVE  BookInv'
<1>1. UNCHANGED files
    BY DEF Kill
<1>2. ASSUME NEW r \in BookRequests
      PROVE  /\ requests'[r] \in Requests
             /\ \/ requests'[r] = requests[r]
                \/ /\ requests[r].at # "ok" /\ requests'[r].at = "lost"
                   /\ requests'[r].after = requests[r].after
  <2>1. requests[r] \in Requests
      BY DEF BookInv, BookTypes
  <2>2. requests'[r] = IF requests[r].at \in {"received", "verified", "writing", "written"}
                       THEN [requests[r] EXCEPT !.at = "lost"] ELSE requests[r]
      BY DEF Kill
  <2> QED
      BY <2>1, <2>2 DEF Requests
<1>3. BookTypes'
  <2>1. requests' = [r \in BookRequests |-> requests'[r]]
      BY DEF Kill
  <2> QED
      BY <1>1, <1>2, <2>1 DEF BookInv, BookTypes
<1>4. Quiet
    BY <1>1, <1>2 DEF Quiet, BookInv, AfterAnswered
<1>5. SavesAuthorised'
    BY <1>2 DEF BookInv, SavesAuthorised, Authorised, Saving
<1>6. TemporaryFilesOwned'
    BY <1>1, <1>2 DEF BookInv, TemporaryFilesOwned
<1> QED
    BY <1>3, <1>4, <1>5, <1>6, QuietStep DEF BookInv

-----------------------------------------------------------------------------
(* The invariant, and what follows from it.                                *)

\* The book starts empty.
LEMMA BookInvInit == BookInit => BookInv
<1> SUFFICES ASSUME BookInit PROVE BookInv
    OBVIOUS
<1>1. NoFile \in Files /\ Default \in Addresses
    BY DEF NoFile, Files, Addresses
<1>2. NotMade \in Requests
    BY <1>1 DEF NotMade, Requests
<1>3. BookTypes
    BY <1>1, <1>2 DEF BookInit, BookTypes
<1>4. \A r \in BookRequests : requests[r].at = "none" /\ requests[r].op = "none"
                                /\ requests[r].after = {}
    BY DEF BookInit, NotMade
<1>5. FilesWritten
    BY NamesUsed DEF BookInit, FilesWritten
<1> QED
    BY <1>3, <1>4, <1>5 DEF BookInv, SavesAuthorised, TemporaryFilesOwned, AfterAnswered,
       InsertsKept, AnswersRead, answered, Saving

\* The invariant holds in every state of the address book.
LEMMA BookInvariant == BookSpec => []BookInv
<1>1. ASSUME BookInv, [BookNext]_bookVars PROVE BookInv'
  <2>0. Default \in Addresses /\ Users \subseteq Addresses
      BY DEF Addresses
  <2>1. ASSUME NEW r \in BookRequests, register_user_key(r) PROVE BookInv'
      BY <1>1, <2>0, <2>1, PostStep DEF register_user_key
  <2>2. ASSUME NEW r \in BookRequests, SendInsert(r) PROVE BookInv'
      BY <1>1, <2>0, <2>2, PostStep DEF SendInsert
  <2>3. ASSUME NEW r \in BookRequests, get_public_key(r) PROVE BookInv'
      BY <1>1, <2>0, <2>3, PostStep DEF get_public_key
  <2>4. ASSUME NEW r \in BookRequests, SendHealthcheck(r) PROVE BookInv'
      BY <1>1, <2>0, <2>4, PostStep DEF SendHealthcheck
  <2>5. CASE main \/ UNCHANGED bookVars
    <3>1. files' = files /\ requests' = requests
        BY <2>5 DEF main, bookVars
    <3> QED
        BY <1>1, <3>1, Zenon DEF BookInv, BookTypes, SavesAuthorised, Authorised,
         TemporaryFilesOwned, FilesWritten, WrittenFor, AfterAnswered, InsertsKept, NotUndone,
         AnswersRead, answered
  <2> QED
      BY <1>1, <2>1, <2>2, <2>3, <2>4, <2>5, VerifyStep, SaveStep, RenameStep, ReadStep, KillStep
         DEF BookNext
<1> QED
    BY <1>1, BookInvInit, PTL DEF BookSpec

\* For any number of users and of concurrent requests, failing saves and crashes,
\* a key that is served for an address is a whole key, which its owner signed or,
\* for the default address, a healthcheck wrote (address_book/src/lib.rs).
THEOREM BookServesSignedKeys == BookSpec => []KeysServedBySignature
<1>1. BookInv => KeysServedBySignature
  <2> SUFFICES ASSUME BookInv, NEW r \in BookRequests, requests[r].op = "request"
               PROVE  /\ requests[r].at # "panic"
                      /\ publicKeyResult(r) = "key" =>
                            LET writer == requests[requests[r].answer.by] IN
                            /\ writer.address = requests[r].address
                            /\ \/ writer.op = "insert" /\ writer.signer = requests[r].address
                               \/ writer.op = "healthcheck" /\ requests[r].address = Default
      BY DEF KeysServedBySignature
  <2>1. publicKeyResult(r) = "key" => requests[r].at = "ok"
      BY DEF publicKeyResult
  <2>2. CASE requests[r].at = "ok"
    <3>1. WrittenFor(requests[r].address, requests[r].answer)
        BY <2>2 DEF BookInv, AnswersRead
    <3>2. Authorised(requests[r].answer.by)
        BY <3>1 DEF BookInv, SavesAuthorised, WrittenFor
    <3> QED
        BY <2>2, <3>1, <3>2 DEF WrittenFor, Authorised
  <2> QED
      BY <2>1, <2>2 DEF BookInv, AnswersRead
<1> QED
    BY <1>1, BookInvariant, PTL

\* An acknowledged key is found by every later request, over crashes and failing
\* saves of the same address too, and no older acknowledged key comes back.
THEOREM BookKeepsAcknowledged == BookSpec => []AcknowledgedKeysStay
<1>1. BookInv => AcknowledgedKeysStay
  <2> SUFFICES ASSUME BookInv, NEW r \in BookRequests, requests[r].op = "request",
                      NEW i \in requests[r].after, requests[i].address = requests[r].address
               PROVE  /\ publicKeyResult(r) # "PubkeyNotFound"
                      /\ publicKeyResult(r) = "key" =>
                            requests[r].answer.by \notin requests[i].after
      BY DEF AcknowledgedKeysStay
  <2>1. /\ publicKeyResult(r) = "PubkeyNotFound" => requests[r].at = "not found"
        /\ publicKeyResult(r) = "key" => requests[r].at = "ok"
      BY DEF publicKeyResult
  <2>2. requests[r].at \in {"ok", "not found"} =>
           requests[r].at = "ok" /\ NotUndone(i, requests[r].answer)
      BY DEF BookInv, AnswersRead
  <2> QED
      BY <2>1, <2>2 DEF NotUndone
<1> QED
    BY <1>1, BookInvariant, PTL

-----------------------------------------------------------------------------
(* Types.                                                                  *)

OpeningKinds == {"newwallet", "openwallet", "resetpassword"}

OpeningSteps == {"latest_contract", "close", "write_path", "load", "create", "verify_assets"}

OtherKinds ==
    {"none", "closewallet", "newasset", "exportasset", "importasset", "updateasset",
     "submitsponsor", "waitforsponsor", "query"}

OpeningRequests ==
    [kind : OpeningKinds, step : OpeningSteps, path : Paths,
     mnemonic : Mnemonics \cup {NoMnemonic}, password : Passwords, contract : Nat]

OtherRequests == [kind : OtherKinds, step : {"none", "handle", "wait"}]

Infos ==
    [code : Paths, mint_info : Mnemonics \cup {NoMnemonic}, symbol : {"given", "changed"}]

Keystores ==
    [exists : {TRUE}, mnemonic : Mnemonics \cup {NoMnemonic}, password : Passwords,
     contract : Nat, assets : SUBSET Infos]

ServerTypes ==
    /\ openWallet \in Paths \cup {NoWallet}
    /\ apiRequest \in OpeningRequests \cup OtherRequests
    /\ keystores \in [Paths -> Keystores \cup {Absent}]
    /\ lastUsed \in Paths \cup {NoWallet}
    /\ assetsFile \in {"absent", "valid", "invalid"}
    /\ exported \in SUBSET Infos
    /\ contract \in Nat
    /\ handles \in [Paths -> Int]
    /\ requestCount \in 0 .. MaxRequests /\ faults \in 0 .. MaxFaults

-----------------------------------------------------------------------------
(* The inductive invariant.                                                *)

\* The request that is being handled has opened the keystore of path p.
Opens(p) == opening /\ apiRequest.step = "verify_assets" /\ apiRequest.path = p

(***************************************************************************)
(* The files of a keystore are open in the wallet of the server, or in the *)
(* one that a request is about to install; by then the former is closed.   *)
(***************************************************************************)
HandlesCounted ==
    /\ \A p \in Paths : handles[p] = IF openWallet = p \/ Opens(p) THEN 1 ELSE 0
    /\ opening /\ apiRequest.step \in {"write_path", "load", "create", "verify_assets"}
          => openWallet = NoWallet

\* A keystore is created only where there is none, and opened where there is.
StepsFollowDisk ==
    /\ openWallet # NoWallet => keystores[openWallet].exists
    /\ opening /\ apiRequest.step = "create" => ~keystores[apiRequest.path].exists
    /\ opening /\ apiRequest.step = "verify_assets" => keystores[apiRequest.path].exists

\* The keystore that defined an asset is there and has it.
Defined(code) ==
    keystores[code].exists /\ \E info \in keystores[code].assets : info.code = code

\* Nobody has or exports an asset that its creator has lost.
AssetsDefined ==
    /\ \A p \in Paths : keystores[p].exists =>
          \A info \in keystores[p].assets : Defined(info.code)
    /\ \A info \in exported : Defined(info.code) /\ info.mint_info = "none"

ServerInv ==
    ServerTypes /\ HandlesCounted /\ StepsFollowDisk /\ AssetsDefined /\ MintInfoStaysPrivate
-----------------------------------------------------------------------------
(* Types are kept.                                                         *)

\* The server starts with keystores of the right shape.
LEMMA ServerTypesInit == ServerInit => ServerTypes
<1> SUFFICES ASSUME ServerInit PROVE ServerTypes
    OBVIOUS
<1> USE WalletServerAssumption
<1>1. noKeystores \in [Paths -> Keystores \cup {Absent}]
    BY DEF noKeystores
<1>2. oneKeystore \in [Paths -> Keystores \cup {Absent}]
  <2> DEFINE p == CHOOSE p \in Paths : TRUE
             m == CHOOSE m \in Mnemonics : TRUE
             pw == CHOOSE pw \in Passwords : TRUE
  <2>1. p \in Paths /\ m \in Mnemonics /\ pw \in Passwords
      OBVIOUS
  <2>2. oneKeystore = [noKeystores EXCEPT ![p] = Keystore(m, pw, 1, {AssetInfo(p, m)})]
      BY DEF oneKeystore
  <2> HIDE DEF p, m, pw
  <2>3. Keystore(m, pw, 1, {AssetInfo(p, m)}) \in Keystores
      BY <2>1 DEF Keystore, Keystores, AssetInfo, Infos
  <2> QED
      BY <1>1, <2>1, <2>2, <2>3
<1> QED
    BY <1>1, <1>2 DEF ServerInit, ServerTypes, Idle, OtherRequests, OtherKinds

\* What import_asset leaves behind is a keystore of the right shape, in which
\* only the assets of the open wallet changed.
LEMMA ImportTypes ==
    ASSUME ServerTypes, openWallet \in Paths, keystores[openWallet].exists,
           NEW info \in Infos, import_asset(info)
    PROVE  \E merged \in Infos :
              /\ merged.code = info.code
              /\ \/ merged.mint_info = info.mint_info
                    /\ \A i \in keystores[openWallet].assets :
                          i.code = info.code => i.mint_info = "none"
                 \/ \E i \in keystores[openWallet].assets :
                       i.code = info.code /\ i.mint_info # "none"
                         /\ merged.mint_info = i.mint_info
              /\ keystores' = [keystores EXCEPT ![openWallet].assets =
                    (@ \ {i \in @ : i.code = info.code}) \cup {merged}]
              /\ keystores' \in [Paths -> Keystores \cup {Absent}]
<1> DEFINE known == {i \in known_assets : i.code = info.code}
           kept == {i \in known : i.mint_info # "none"}
           merged == IF kept = {} THEN info
                     ELSE [info EXCEPT !.mint_info = (CHOOSE i \in kept : TRUE).mint_info]
<1> USE WalletServerAssumption
<1>1. keystores[openWallet] \in Keystores
    BY DEF ServerTypes, Absent
<1>2. known_assets = keystores[openWallet].assets /\ known_assets \subseteq Infos
    BY <1>1 DEF known_assets, Keystores
<1>3. keystores' = [keystores EXCEPT ![openWallet].assets = (@ \ known) \cup {merged}]
    BY Zenon DEF import_asset
<1>4. /\ merged \in Infos /\ merged.code = info.code
      /\ \/ merged.mint_info = info.mint_info
            /\ \A i \in keystores[openWallet].assets :
                  i.code = info.code => i.mint_info = "none"
         \/ \E i \in keystores[openWallet].assets :
               i.code = info.code /\ i.mint_info # "none" /\ merged.mint_info = i.mint_info
  <2>1. CASE kept = {}
      BY <1>2, <2>1
  <2>2. CASE kept # {}
    <3>1. PICK i \in kept : i = CHOOSE j \in kept : TRUE
        BY <2>2
    <3>2. merged = [info EXCEPT !.mint_info = i.mint_info]
        BY <2>2, <3>1
    <3>3. i \in Infos /\ i \in keystores[openWallet].assets /\ i.code = info.code
             /\ i.mint_info # "none"
        BY <1>2
    <3> HIDE DEF kept, merged
    <3> QED
        BY <3>2, <3>3 DEF Infos
  <2> QED
      BY <2>1, <2>2
<1> HIDE DEF kept, merged
<1>5. keystores' = [keystores EXCEPT ![openWallet].assets =
                       (@ \ {i \in @ : i.code = info.code}) \cup {merged}]
    BY <1>2, <1>3
<1>6. keystores' \in [Paths -> Keystores \cup {Absent}]
  <2> DEFINE new == (keystores[openWallet].assets \ known) \cup {merged}
  <2>1. new \subseteq Infos
      BY <1>2, <1>4
  <2> HIDE DEF new, known
  <2>2. [keystores[openWallet] EXCEPT !.assets = new] \in Keystores
      BY <1>1, <2>1 DEF Keystores
  <2>3. keystores' = [keystores EXCEPT ![openWallet] = [keystores[openWallet] EXCEPT !.assets = new]]
      BY <1>3, <1>2, Zenon DEF new
  <2> QED
      BY <2>2, <2>3 DEF ServerTypes
<1> QED
    BY <1>4, <1>5, <1>6
\* Every step keeps the types.
LEMMA ServerTypesStep ==
    ASSUME ServerTypes, StepsFollowDisk, [ServerNext]_serverVars
    PROVE  ServerTypes'
<1> USE WalletServerAssumption DEF ServerTypes, disk, world, counters
<1>a. Idle \in OtherRequests
    BY DEF Idle, OtherRequests, OtherKinds
<1>b. \A s \in OpeningSteps : opening => [apiRequest EXCEPT !.step = s] \in OpeningRequests
    BY DEF opening, OpeningRequests, OtherRequests, OpeningKinds, OtherKinds
<1>c. opening => apiRequest \in OpeningRequests /\ apiRequest.path \in Paths
    BY DEF opening, OpeningRequests, OtherRequests, OpeningKinds, OtherKinds
<1>d. ~opening => [apiRequest EXCEPT !.step = "wait"] \in OtherRequests
    BY DEF opening, OpeningRequests, OtherRequests, OpeningKinds, OtherKinds
<1>e. openWallet # NoWallet => keystores[openWallet] \in Keystores
    BY DEF StepsFollowDisk, Absent
<1>f. known_assets \subseteq Infos
    BY <1>e DEF known_assets, Keystores
<1>g. ASSUME openWallet # NoWallet, NEW info \in Infos, import_asset(info)
      PROVE  keystores' \in [Paths -> Keystores \cup {Absent}]
    BY <1>g, ImportTypes DEF StepsFollowDisk
<1>1. CASE dispatch_url
  <2>1. ASSUME NEW r \in OpeningRequests \cup OtherRequests, accept(r) PROVE ServerTypes'
      BY <2>1 DEF accept
  <2>2. ASSUME NEW p \in Paths, NEW m \in Mnemonics \cup {NoMnemonic}, NEW pw \in Passwords,
               NEW kind \in OpeningKinds
        PROVE  openingRequest(kind, p, m, pw) \in OpeningRequests
      BY DEF openingRequest, OpeningRequests, OpeningSteps
  <2>3. \A kind \in OtherKinds : [kind |-> kind, step |-> "handle"] \in OtherRequests
      BY DEF OtherRequests
  <2> QED
      BY <1>1, <2>1, <2>2, <2>3, Zenon DEF dispatch_url, OpeningKinds, OtherKinds
<1>2. CASE latest_contract
  <2>1. apiRequest' \in OpeningRequests \cup OtherRequests
      BY <1>2, <1>a, <1>c DEF latest_contract, reply, OpeningRequests, OpeningSteps
  <2> QED
      BY <1>2, <2>1 DEF latest_contract
<1>3. CASE closeBeforeOpen
    BY <1>3, <1>b DEF closeBeforeOpen, step, closed, OpeningSteps
<1>4. CASE write_path
    BY <1>4, <1>b, <1>c DEF write_path, step, OpeningSteps
<1>5. CASE loadWallet
  <2> DEFINE k == keystores[apiRequest.path]
  <2>1. apiRequest' \in OpeningRequests \cup OtherRequests
      BY <1>5, <1>a, <1>b DEF loadWallet, step, reply, OpeningSteps
  <2>2. handles' \in [Paths -> Int]
      BY <1>5, <1>c DEF loadWallet
  <2>3. keystores' \in [Paths -> Keystores \cup {Absent}]
    <3>1. CASE keystores' = keystores
        BY <3>1
    <3>2. CASE k.exists /\ keystores' = [keystores EXCEPT ![apiRequest.path].password = apiRequest.password]
      <4>1. k \in Keystores /\ apiRequest.password \in Passwords
          BY <1>5, <1>c, <3>2 DEF loadWallet, Absent, OpeningRequests
      <4>2. [k EXCEPT !.password = apiRequest.password] \in Keystores
          BY <4>1 DEF Keystores
      <4> QED
          BY <1>5, <1>c, <3>2, <4>2 DEF loadWallet
    <3> QED
        BY <1>5, <3>1, <3>2 DEF loadWallet
  <2> QED
      BY <1>5, <2>1, <2>2, <2>3 DEF loadWallet
<1>6. CASE create
  <2>1. apiRequest' \in OpeningRequests \cup OtherRequests
      BY <1>6, <1>a, <1>b DEF create, step, reply, OpeningSteps
  <2>2. Keystore(apiRequest.mnemonic, apiRequest.password, apiRequest.contract, {}) \in Keystores
      BY <1>6, <1>c DEF create, OpeningRequests, Keystore, Keystores
  <2> QED
      BY <1>6, <1>c, <2>1, <2>2 DEF create
<1>7. CASE verify_cape_assets
    BY <1>7, <1>a, <1>c DEF verify_cape_assets, reply
<1>8. CASE closewallet
    BY <1>8, <1>a DEF closewallet, closed, reply
<1>9. CASE query
    BY <1>9, <1>a DEF query, reply
<1>10. CASE newasset
  <2>1. openWallet # NoWallet => AssetInfo(openWallet, keystores[openWallet].mnemonic) \in Infos
      BY <1>e DEF AssetInfo, Infos, Keystores
  <2>2. keystores' \in [Paths -> Keystores \cup {Absent}]
      BY <1>10, <1>g, <2>1 DEF newasset
  <2> QED
      BY <1>10, <1>a, <2>2 DEF newasset, reply
<1>11. CASE exportasset
  <2>1. \A info \in known_assets : withoutMintInfo(info) \in Infos
      BY <1>f DEF withoutMintInfo, Infos, NoMnemonic
  <2> QED
      BY <1>11, <1>a, <2>1 DEF exportasset, reply
<1>12. CASE importasset
  <2>1. keystores' \in [Paths -> Keystores \cup {Absent}]
      BY <1>12, <1>g DEF importasset
  <2> QED
      BY <1>12, <1>a, <2>1 DEF importasset, reply
<1>13. CASE updateasset
  <2>1. \A info \in known_assets : [info EXCEPT !.symbol = "changed"] \in Infos
      BY <1>f DEF Infos
  <2>2. known_assets # {} => openWallet # NoWallet
      BY DEF known_assets
  <2>3. keystores' \in [Paths -> Keystores \cup {Absent}]
      BY <1>13, <1>g, <2>1, <2>2 DEF updateasset
  <2> QED
      BY <1>13, <1>a, <2>3 DEF updateasset, reply
<1>14. CASE submitsponsor
    BY <1>14, <1>a, <1>d DEF submitsponsor, handling, opening, reply, step
<1>15. CASE waitSponsored
    BY <1>15, <1>a DEF waitSponsored, reply
<1>16. CASE waitforsponsor
    BY <1>16, <1>a, <1>d DEF waitforsponsor, handling, opening, reply, step
<1>17. CASE timeout
    BY <1>17, <1>a DEF timeout, reply
<1>18. CASE reportSponsored
    BY <1>18 DEF reportSponsored
<1>19. CASE eqsGoesDown
    BY <1>19 DEF eqsGoesDown, fault
<1>20. CASE newContract
    BY <1>20 DEF newContract, fault
<1>21. CASE init_server
    BY <1>21, <1>a DEF init_server, fault
<1>22. CASE UNCHANGED serverVars
    BY <1>22 DEF serverVars
<1> QED
    BY <1>1, <1>2, <1>3, <1>4, <1>5, <1>6, <1>7, <1>8, <1>9, <1>10, <1>11, <1>12, <1>13, <1>14, <1>15, <1>16, <1>17, <1>18, <1>19, <1>20, <1>21, <1>22, Zenon DEF ServerNext, Handle
-----------------------------------------------------------------------------
(* The files of a keystore.                                           *)

\* Every step keeps the count of open files.
LEMMA HandlesStep ==
    ASSUME ServerTypes, HandlesCounted, [ServerNext]_serverVars
    PROVE  HandlesCounted'
<1> USE WalletServerAssumption DEF ServerTypes, HandlesCounted, Opens, opening, disk, world, counters
<1>a. opening => /\ apiRequest \in OpeningRequests
                 /\ apiRequest.path \in Paths
                 /\ \A s : LET r == [apiRequest EXCEPT !.step = s] IN
                       r.kind = apiRequest.kind /\ r.step = s /\ r.path = apiRequest.path
    BY DEF OpeningRequests, OtherRequests, OpeningKinds, OtherKinds
<1>b. reply => apiRequest'.kind = "none"
    BY DEF reply, Idle
<1>c. ~opening => ~opening' \/ apiRequest' # [apiRequest EXCEPT !.step = "wait"]
    BY DEF OpeningRequests, OtherRequests, OpeningKinds, OtherKinds
<1>d. opening => apiRequest.step # "wait"
    BY DEF OpeningRequests, OtherRequests, OpeningKinds, OtherKinds, OpeningSteps
<1>e. ASSUME opening, apiRequest.step \in {"load", "create"}, UNCHANGED openWallet,
             \/ step("verify_assets") /\ handles' = [handles EXCEPT ![apiRequest.path] = @ + 1]
             \/ step("create") /\ UNCHANGED handles
             \/ reply /\ UNCHANGED handles
      PROVE  HandlesCounted'
  <2>0. openWallet = NoWallet /\ openWallet' = NoWallet /\ \A p \in Paths : handles[p] = 0
      BY <1>e
  <2>1. CASE step("verify_assets") /\ handles' = [handles EXCEPT ![apiRequest.path] = @ + 1]
    <3>1. /\ apiRequest'.kind = apiRequest.kind /\ apiRequest'.path = apiRequest.path
          /\ apiRequest'.step = "verify_assets"
        BY <1>a, <1>e, <2>1 DEF step
    <3>2. \A p \in Paths : handles'[p] = IF p = apiRequest.path THEN 1 ELSE 0
        BY <1>a, <1>e, <2>0, <2>1
    <3> QED
        BY <1>e, <2>0, <3>1, <3>2
  <2>2. CASE step("create") /\ UNCHANGED handles
    <3>1. apiRequest'.step = "create"
        BY <1>a, <1>e, <2>2 DEF step
    <3> QED
        BY <2>0, <2>2, <3>1
  <2>3. CASE reply /\ UNCHANGED handles
      BY <1>b, <2>0, <2>3
  <2> QED
      BY <1>e, <2>1, <2>2, <2>3
<1>1. CASE dispatch_url
  <2>1. ASSUME NEW r, r.kind # "none", r.step \in {"latest_contract", "handle"}, accept(r)
        PROVE  HandlesCounted'
      BY <2>1 DEF accept, unlocked
  <2>2. ASSUME NEW p, NEW m, NEW pw, NEW kind \in OpeningKinds
        PROVE  openingRequest(kind, p, m, pw).kind = kind
                 /\ openingRequest(kind, p, m, pw).step = "latest_contract"
      BY DEF openingRequest
  <2> QED
      BY <1>1, <2>1, <2>2 DEF dispatch_url, OpeningKinds
<1>2. CASE latest_contract
  <2>1. CASE reply
      BY <1>2, <1>b, <2>1 DEF latest_contract
  <2>2. CASE apiRequest' = [apiRequest EXCEPT !.contract = contract, !.step = "close"]
    <3>1. apiRequest'.step = "close" /\ apiRequest'.kind = apiRequest.kind
        BY <1>2, <1>a, <2>2 DEF latest_contract, OpeningRequests
    <3> QED
        BY <1>2, <3>1 DEF latest_contract
  <2> QED
      BY <1>2, <2>1, <2>2 DEF latest_contract
<1>3. CASE closeBeforeOpen
    BY <1>3, <1>a DEF closeBeforeOpen, step, closed
<1>4. CASE write_path
    BY <1>4, <1>a DEF write_path, step
<1>5. CASE loadWallet
    BY <1>5, <1>e, Zenon DEF loadWallet
<1>6. CASE create
    BY <1>6, <1>e, Zenon DEF create
<1>7. CASE verify_cape_assets
    BY <1>7, <1>a, <1>b DEF verify_cape_assets
<1>8. CASE closewallet
    BY <1>8, <1>b DEF closewallet, handling, closed
<1>9. CASE query
    BY <1>9, <1>b DEF query, handling
<1>10. CASE newasset
    BY <1>10, <1>b DEF newasset, handling
<1>11. CASE exportasset
    BY <1>11, <1>b DEF exportasset, handling
<1>12. CASE importasset
    BY <1>12, <1>b DEF importasset, handling
<1>13. CASE updateasset
    BY <1>13, <1>b DEF updateasset, handling
<1>14. CASE submitsponsor
    BY <1>14, <1>b, <1>c DEF submitsponsor, handling, step
<1>15. CASE waitSponsored
    BY <1>15, <1>b, <1>d DEF waitSponsored
<1>16. CASE waitforsponsor
    BY <1>16, <1>b, <1>c DEF waitforsponsor, handling, step
<1>17. CASE timeout
    BY <1>17, <1>b DEF timeout, handling
<1>18. CASE reportSponsored
    BY <1>18 DEF reportSponsored
<1>19. CASE eqsGoesDown
    BY <1>19 DEF eqsGoesDown
<1>20. CASE newContract
    BY <1>20 DEF newContract
<1>21. CASE init_server
    BY <1>21 DEF init_server, Idle
<1>22. CASE UNCHANGED serverVars
    BY <1>22 DEF serverVars
<1> QED
    BY <1>1, <1>2, <1>3, <1>4, <1>5, <1>6, <1>7, <1>8, <1>9, <1>10, <1>11, <1>12, <1>13, <1>14, <1>15, <1>16, <1>17, <1>18, <1>19, <1>20, <1>21, <1>22, Zenon DEF ServerNext, Handle

-----------------------------------------------------------------------------
(* How the keystores on disk change.                                       *)

\* A recovered keystore gets a new password.
Recovers(p) ==
    /\ keystores[p].exists
    /\ \E pw : keystores' = [keystores EXCEPT ![p].password = pw]

\* A new keystore has no assets.
Creates(p) ==
    /\ ~keystores[p].exists
    /\ \E m, pw, v : keystores' = [keystores EXCEPT ![p] = Keystore(m, pw, v, {})]

\* What the open wallet may import: an asset it defines, one that was exported,
\* or one it has, described differently.
Importable(info) ==
    \/ info.code = openWallet /\ info.mint_info = keystores[openWallet].mnemonic
    \/ info \in exported
    \/ \E i \in keystores[openWallet].assets :
          info.code = i.code /\ info.mint_info = i.mint_info

Imports ==
    /\ openWallet # NoWallet
    /\ \E info \in Infos : Importable(info) /\ import_asset(info)

Exports ==
    /\ UNCHANGED keystores
    /\ openWallet # NoWallet
    /\ \E info \in keystores[openWallet].assets :
          exported' = exported \cup {withoutMintInfo(info)}

\* Those are the only changes of the keystores and of the exported assets.
LEMMA DiskChanges ==
    ASSUME ServerTypes, StepsFollowDisk, [ServerNext]_serverVars
    PROVE  \/ UNCHANGED <<keystores, exported>>
           \/ (\E p \in Paths : Recovers(p) \/ Creates(p)) /\ UNCHANGED exported
           \/ Imports /\ UNCHANGED exported
           \/ Exports
<1> USE DEF disk
<1>a. opening => apiRequest.path \in Paths
    BY DEF ServerTypes, opening, OpeningRequests, OtherRequests, OpeningKinds, OtherKinds
<1>b. openWallet # NoWallet => keystores[openWallet] \in Keystores
    BY DEF ServerTypes, StepsFollowDisk, Absent
<1>1. CASE dispatch_url
    BY <1>1 DEF dispatch_url, accept
<1>2. CASE latest_contract
    BY <1>2 DEF latest_contract
<1>3. CASE closeBeforeOpen
    BY <1>3 DEF closeBeforeOpen
<1>4. CASE write_path
    BY <1>4 DEF write_path
<1>5. CASE loadWallet
    BY <1>5, <1>a DEF loadWallet, Recovers
<1>6. CASE create
    BY <1>6, <1>a DEF create, StepsFollowDisk, Creates
<1>7. CASE verify_cape_assets
    BY <1>7 DEF verify_cape_assets
<1>8. CASE closewallet
    BY <1>8 DEF closewallet
<1>9. CASE query
    BY <1>9 DEF query
<1>10. CASE newasset
  <2> DEFINE info == AssetInfo(openWallet, keystores[openWallet].mnemonic)
  <2>1. openWallet # NoWallet => info \in Infos /\ Importable(info)
      BY <1>b DEF ServerTypes, AssetInfo, Infos, Keystores, Importable
  <2> QED
      BY <1>10, <2>1 DEF newasset, Imports
<1>11. CASE exportasset
    BY <1>11 DEF exportasset, known_assets, Exports
<1>12. CASE importasset
  <2>1. CASE UNCHANGED keystores
      BY <1>12, <2>1 DEF importasset
  <2>2. ASSUME openWallet # NoWallet, NEW info \in exported, import_asset(info)
        PROVE  Imports
      BY <2>2 DEF ServerTypes, Imports, Importable
  <2> QED
      BY <1>12, <2>1, <2>2 DEF importasset
<1>13. CASE updateasset
  <2>1. CASE UNCHANGED keystores
      BY <1>13, <2>1 DEF updateasset
  <2>2. ASSUME NEW i \in known_assets, import_asset([i EXCEPT !.symbol = "changed"])
        PROVE  Imports
    <3> DEFINE info == [i EXCEPT !.symbol = "changed"]
    <3>1. openWallet # NoWallet /\ i \in keystores[openWallet].assets
        BY DEF known_assets
    <3>2. i \in Infos
        BY <1>b, <3>1 DEF Keystores
    <3>3. info \in Infos /\ info.code = i.code /\ info.mint_info = i.mint_info
        BY <3>2 DEF Infos
    <3> HIDE DEF info
    <3>4. Importable(info)
        BY <3>1, <3>3 DEF Importable
    <3> QED
        BY <2>2, <3>1, <3>3, <3>4, Zenon DEF Imports, info
  <2> QED
      BY <1>13, <2>1, <2>2, Zenon DEF updateasset
<1>14. CASE submitsponsor
    BY <1>14 DEF submitsponsor
<1>15. CASE waitSponsored
    BY <1>15 DEF waitSponsored
<1>16. CASE waitforsponsor
    BY <1>16 DEF waitforsponsor
<1>17. CASE timeout
    BY <1>17 DEF timeout
<1>18. CASE reportSponsored
    BY <1>18 DEF reportSponsored
<1>19. CASE eqsGoesDown
    BY <1>19 DEF eqsGoesDown
<1>20. CASE newContract
    BY <1>20 DEF newContract
<1>21. CASE init_server
    BY <1>21 DEF init_server
<1>22. CASE UNCHANGED serverVars
    BY <1>22 DEF serverVars
<1> QED
    BY <1>1, <1>2, <1>3, <1>4, <1>5, <1>6, <1>7, <1>8, <1>9, <1>10, <1>11, <1>12, <1>13, <1>14, <1>15, <1>16, <1>17, <1>18, <1>19, <1>20, <1>21, <1>22, Zenon DEF ServerNext, Handle

-----------------------------------------------------------------------------
(* The secrets of assets.                                                  *)

\* No change of the disk takes an asset from its creator or shows its secret.
LEMMA SecretsStep ==
    ASSUME ServerTypes, ServerTypes', StepsFollowDisk, AssetsDefined, MintInfoStaysPrivate,
           [ServerNext]_serverVars
    PROVE  AssetsDefined' /\ MintInfoStaysPrivate'
<1> USE WalletServerAssumption
<1>0. \A p \in Paths : keystores[p].exists =>
         keystores[p] \in Keystores /\ keystores[p].assets \subseteq Infos
  <2>1. \A p \in Paths : keystores[p].exists => keystores[p] \in Keystores
      BY DEF ServerTypes, Absent
  <2> QED
      BY <2>1 DEF Keystores
<1>1. CASE UNCHANGED <<keystores, exported>>
    BY <1>1, Zenon DEF AssetsDefined, MintInfoStaysPrivate, Defined
<1>2. ASSUME NEW p \in Paths, Recovers(p), UNCHANGED exported
      PROVE  AssetsDefined' /\ MintInfoStaysPrivate'
  <2>1. \A q \in Paths : /\ keystores'[q].exists = keystores[q].exists
                         /\ keystores[q].exists => keystores'[q].assets = keystores[q].assets
                                                     /\ keystores'[q].mnemonic = keystores[q].mnemonic
      BY <1>0, <1>2 DEF Recovers, ServerTypes, Keystores
  <2>2. \A info \in Infos : Defined(info.code) => Defined(info.code)'
      BY <2>1 DEF Defined, Infos
  <2>3. AssetsDefined'
      BY <1>0, <1>2, <2>1, <2>2 DEF AssetsDefined, ServerTypes
  <2>4. MintInfoStaysPrivate'
      BY <2>1 DEF MintInfoStaysPrivate
  <2> QED
      BY <2>3, <2>4
<1>3. ASSUME NEW p \in Paths, Creates(p), UNCHANGED exported
      PROVE  AssetsDefined' /\ MintInfoStaysPrivate'
  <2>1. /\ \A q \in Paths \ {p} : keystores'[q] = keystores[q]
        /\ keystores'[p].assets = {} /\ ~keystores[p].exists
      BY <1>3 DEF Creates, ServerTypes, Keystore
  <2>2. \A info \in Infos : Defined(info.code) => Defined(info.code)'
      BY <2>1 DEF Defined, Infos
  <2>3. AssetsDefined'
      BY <1>0, <1>3, <2>1, <2>2 DEF AssetsDefined, ServerTypes
  <2>4. MintInfoStaysPrivate'
      BY <2>1 DEF MintInfoStaysPrivate
  <2> QED
      BY <2>3, <2>4
<1>4. CASE Imports /\ UNCHANGED exported
  <2> DEFINE w == openWallet
             old == keystores[openWallet].assets
  <2>1. PICK info \in Infos : Importable(info) /\ import_asset(info)
      BY <1>4 DEF Imports
  <2>2. w \in Paths /\ keystores[w].exists
      BY <1>4 DEF Imports, ServerTypes, StepsFollowDisk
  <2>3. PICK merged \in Infos :
           /\ merged.code = info.code
           /\ \/ merged.mint_info = info.mint_info
                 /\ \A i \in old : i.code = info.code => i.mint_info = "none"
              \/ \E i \in old : i.code = info.code /\ i.mint_info # "none"
                                  /\ merged.mint_info = i.mint_info
           /\ keystores' = [keystores EXCEPT ![w].assets =
                 (@ \ {i \in @ : i.code = info.code}) \cup {merged}]
      BY <2>1, <2>2, ImportTypes
  <2> DEFINE new == (old \ {i \in old : i.code = info.code}) \cup {merged}
  <2>4. /\ \A q \in Paths \ {w} : keystores'[q] = keystores[q]
        /\ keystores'[w].exists /\ keystores'[w].mnemonic = keystores[w].mnemonic
        /\ keystores'[w].assets = new
      BY <1>0, <2>2, <2>3 DEF ServerTypes, Keystores
  <2>5. \A i \in old : i.code \in Paths /\ Defined(i.code)
                         /\ i.mint_info \in {"none", keystores[w].mnemonic}
                         /\ (i.code = w => i.mint_info = keystores[w].mnemonic)
      BY <1>0, <2>2 DEF AssetsDefined, MintInfoStaysPrivate, Infos
  <2>6. \A c \in Paths : Defined(c) => Defined(c)'
    <3>1. \A i \in old : \E j \in new : j.code = i.code
        BY <2>3
    <3> QED
        BY <2>2, <2>4, <3>1 DEF Defined
  <2>7. info.code \in Paths /\ Defined(info.code)'
    <3>1. info.code \in Paths
        BY DEF Infos
    <3>2. CASE info.code = w
        BY <2>2, <2>3, <2>4, <3>2 DEF Defined
    <3>3. CASE info \in exported
        BY <2>6, <3>1, <3>3 DEF AssetsDefined
    <3>4. CASE \E i \in old : info.code = i.code
        BY <2>5, <2>6, <3>4
    <3> QED
        BY <2>1, <3>1, <3>2, <3>3, <3>4 DEF Importable
  <2>8. AssetsDefined'
    <3>1. \A i \in new : Defined(i.code)'
        BY <2>3, <2>5, <2>6, <2>7
    <3>2. \A p \in Paths \ {w} : keystores'[p].exists =>
             \A i \in keystores'[p].assets : Defined(i.code)'
        BY <1>0, <2>4, <2>6 DEF AssetsDefined, Infos
    <3>3. \A i \in exported' : Defined(i.code)' /\ i.mint_info = "none"
        BY <1>4, <2>6 DEF AssetsDefined, ServerTypes, Infos
    <3> QED
        BY <2>4, <3>1, <3>2, <3>3 DEF AssetsDefined
  <2>9. /\ merged.mint_info \in {"none", keystores[w].mnemonic}
        /\ merged.code = w => merged.mint_info = keystores[w].mnemonic
    <3>1. CASE \E i \in old : i.mint_info # "none" /\ merged.mint_info = i.mint_info
        BY <2>5, <3>1
    <3>2. CASE /\ merged.mint_info = info.mint_info
               /\ \A i \in old : i.code = info.code => i.mint_info = "none"
      <4>1. CASE info.mint_info = keystores[w].mnemonic
          BY <3>2, <4>1
      <4>2. CASE info \in exported
        <5>1. info.mint_info = "none" /\ Defined(info.code)
            BY <4>2 DEF AssetsDefined
        <5>2. info.code = w => keystores[w].mnemonic = "none"
            BY <2>5, <3>2, <5>1 DEF Defined
        <5> QED
            BY <2>3, <3>2, <5>1, <5>2
      <4>3. CASE \E i \in old : info.code = i.code /\ info.mint_info = i.mint_info
          BY <2>3, <2>5, <3>2, <4>3
      <4> QED
          BY <2>1, <4>1, <4>2, <4>3 DEF Importable
    <3> QED
        BY <2>3, <3>1, <3>2
  <2>10. MintInfoStaysPrivate'
      BY <2>4, <2>5, <2>9 DEF MintInfoStaysPrivate
  <2> QED
      BY <2>8, <2>10
<1>5. CASE Exports
  <2>1. PICK info \in keystores[openWallet].assets :
           exported' = exported \cup {withoutMintInfo(info)}
      BY <1>5 DEF Exports
  <2>2. openWallet \in Paths /\ keystores[openWallet].exists
      BY <1>5 DEF Exports, ServerTypes, StepsFollowDisk
  <2>3. info \in Infos /\ Defined(info.code)
      BY <1>0, <2>2 DEF AssetsDefined
  <2>4. withoutMintInfo(info).code = info.code /\ withoutMintInfo(info).mint_info = "none"
      BY <2>3 DEF withoutMintInfo, Infos
  <2>5. MintInfoStaysPrivate' /\ \A c : Defined(c)' <=> Defined(c)
      BY <1>5, Zenon DEF Exports, MintInfoStaysPrivate, Defined
  <2>6. AssetsDefined'
      BY <1>5, <2>1, <2>3, <2>4, <2>5 DEF Exports, AssetsDefined
  <2> QED
      BY <2>5, <2>6
<1> QED
    BY <1>1, <1>2, <1>3, <1>4, <1>5, DiskChanges

\* No step removes a keystore, and requests know whether theirs exists.
LEMMA StepsFollowDiskStep ==
    ASSUME ServerTypes, ServerTypes', StepsFollowDisk, [ServerNext]_serverVars
    PROVE  StepsFollowDisk'
<1> USE WalletServerAssumption DEF opening, disk, world, counters
<1>a. opening => /\ apiRequest \in OpeningRequests
                 /\ apiRequest.path \in Paths
                 /\ \A s : LET r == [apiRequest EXCEPT !.step = s] IN
                       r.kind = apiRequest.kind /\ r.step = s /\ r.path = apiRequest.path
    BY DEF ServerTypes, OpeningRequests, OtherRequests, OpeningKinds, OtherKinds
<1>b. reply => apiRequest'.kind = "none"
    BY DEF reply, Idle
<1>c. ~opening => ~opening' \/ apiRequest' # [apiRequest EXCEPT !.step = "wait"]
    BY DEF ServerTypes, OpeningRequests, OtherRequests, OpeningKinds, OtherKinds
<1>d. \A p \in Paths : keystores[p].exists => keystores'[p].exists
  <2>1. \A p \in Paths : keystores[p].exists => keystores[p] \in Keystores
      BY DEF ServerTypes, Absent
  <2>2. ASSUME NEW p \in Paths, Recovers(p) \/ Creates(p)
        PROVE  \A q \in Paths : keystores[q].exists => keystores'[q].exists
    <3>1. CASE Recovers(p)
        BY <2>1, <3>1 DEF Recovers, ServerTypes, Keystores
    <3>2. CASE Creates(p)
        BY <3>2 DEF Creates, ServerTypes
    <3> QED
        BY <2>2, <3>1, <3>2
  <2>3. CASE Imports
    <3>1. openWallet \in Paths /\ keystores[openWallet].exists
        BY <2>3 DEF Imports, ServerTypes, StepsFollowDisk
    <3>2. \E new : keystores' = [keystores EXCEPT ![openWallet].assets = new]
        BY <2>3, Zenon DEF Imports, import_asset
    <3> QED
        BY <2>1, <3>1, <3>2 DEF ServerTypes, Keystores
  <2> QED
      BY <2>2, <2>3, DiskChanges DEF Exports
<1>e. ASSUME openWallet' \in {openWallet, NoWallet},
             ~opening' \/ apiRequest'.step \notin {"create", "verify_assets"}
      PROVE  StepsFollowDisk'
    BY <1>d, <1>e DEF ServerTypes, StepsFollowDisk
<1>1. CASE dispatch_url
  <2>1. ASSUME NEW r, r.step \in {"latest_contract", "handle"}, accept(r)
        PROVE  StepsFollowDisk'
      BY <1>e, <2>1 DEF accept
  <2>2. ASSUME NEW p, NEW m, NEW pw, NEW kind
        PROVE  openingRequest(kind, p, m, pw).step = "latest_contract"
      BY DEF openingRequest
  <2> QED
      BY <1>1, <2>1, <2>2 DEF dispatch_url
<1>2. CASE latest_contract
  <2>1. CASE reply
      BY <1>2, <1>b, <1>e, <2>1 DEF latest_contract
  <2>2. CASE apiRequest' = [apiRequest EXCEPT !.contract = contract, !.step = "close"]
    <3>1. apiRequest'.step = "close"
        BY <1>2, <1>a, <2>2 DEF latest_contract, OpeningRequests
    <3> QED
        BY <1>2, <1>e, <3>1 DEF latest_contract
  <2> QED
      BY <1>2, <2>1, <2>2 DEF latest_contract
<1>3. CASE closeBeforeOpen
    BY <1>3, <1>a, <1>e DEF closeBeforeOpen, step
<1>4. CASE write_path
    BY <1>4, <1>a, <1>e DEF write_path, step
<1>5. CASE loadWallet
  <2>1. CASE reply
      BY <1>5, <1>b, <1>e, <2>1 DEF loadWallet
  <2>2. CASE step("verify_assets") /\ keystores[apiRequest.path].exists
    <3>1. apiRequest'.step = "verify_assets" /\ apiRequest'.path = apiRequest.path
        BY <1>5, <1>a, <2>2 DEF loadWallet, step
    <3> QED
        BY <1>5, <1>a, <1>d, <2>2, <3>1 DEF loadWallet, StepsFollowDisk, ServerTypes
  <2>3. CASE step("create") /\ ~keystores[apiRequest.path].exists /\ UNCHANGED keystores
    <3>1. apiRequest'.step = "create" /\ apiRequest'.path = apiRequest.path
        BY <1>5, <1>a, <2>3 DEF loadWallet, step
    <3> QED
        BY <1>5, <2>3, <3>1 DEF loadWallet, StepsFollowDisk
  <2> QED
      BY <1>5, <2>1, <2>2, <2>3 DEF loadWallet
<1>6. CASE create
  <2>1. CASE reply
      BY <1>6, <1>b, <1>e, <2>1 DEF create
  <2>2. CASE step("verify_assets") /\ keystores' = [keystores EXCEPT ![apiRequest.path] =
                  Keystore(apiRequest.mnemonic, apiRequest.password, apiRequest.contract, {})]
    <3>1. apiRequest'.step = "verify_assets" /\ apiRequest'.path = apiRequest.path
        BY <1>6, <1>a, <2>2 DEF create, step
    <3>2. keystores'[apiRequest.path].exists
        BY <1>6, <1>a, <2>2 DEF create, ServerTypes, Keystore
    <3> QED
        BY <1>6, <1>a, <1>d, <3>1, <3>2 DEF create, StepsFollowDisk, ServerTypes
  <2> QED
      BY <1>6, <2>1, <2>2 DEF create
<1>7. CASE verify_cape_assets
    BY <1>7, <1>a, <1>b, <1>d DEF verify_cape_assets, StepsFollowDisk, ServerTypes
<1>8. CASE closewallet
    BY <1>8, <1>b, <1>e DEF closewallet
<1>9. CASE query
    BY <1>9, <1>b, <1>e DEF query
<1>10. CASE newasset
    BY <1>10, <1>b, <1>e DEF newasset
<1>11. CASE exportasset
    BY <1>11, <1>b, <1>e DEF exportasset
<1>12. CASE importasset
    BY <1>12, <1>b, <1>e DEF importasset
<1>13. CASE updateasset
    BY <1>13, <1>b, <1>e DEF updateasset
<1>14. CASE submitsponsor
    BY <1>14, <1>b, <1>c, <1>e DEF submitsponsor, handling, step
<1>15. CASE waitSponsored
    BY <1>15, <1>b, <1>e DEF waitSponsored
<1>16. CASE waitforsponsor
    BY <1>16, <1>b, <1>c, <1>e DEF waitforsponsor, handling, step
<1>17. CASE timeout
    BY <1>17, <1>b, <1>e DEF timeout
<1>18. CASE reportSponsored
    BY <1>18 DEF reportSponsored, StepsFollowDisk
<1>19. CASE eqsGoesDown
    BY <1>19 DEF eqsGoesDown, StepsFollowDisk
<1>20. CASE newContract
    BY <1>20 DEF newContract, StepsFollowDisk
<1>21. CASE init_server
    BY <1>21, <1>e DEF init_server, Idle
<1>22. CASE UNCHANGED serverVars
    BY <1>22 DEF serverVars, StepsFollowDisk
<1> QED
    BY <1>1, <1>2, <1>3, <1>4, <1>5, <1>6, <1>7, <1>8, <1>9, <1>10, <1>11, <1>12, <1>13, <1>14, <1>15, <1>16, <1>17, <1>18, <1>19, <1>20, <1>21, <1>22, Zenon DEF ServerNext, Handle

-----------------------------------------------------------------------------
(* The invariant, and what follows from it.                                *)

\* The server starts with no wallet open, and at most one keystore, whose asset
\* is its own.
LEMMA ServerInvInit == ServerInit => ServerInv
<1> SUFFICES ASSUME ServerInit PROVE ServerInv
    OBVIOUS
<1> USE WalletServerAssumption
<1>1. ServerTypes
    BY ServerTypesInit
<1>2. HandlesCounted
    BY DEF ServerInit, HandlesCounted, Opens, opening, Idle
<1>3. StepsFollowDisk
    BY DEF ServerInit, StepsFollowDisk, opening, Idle
<1>4. AssetsDefined /\ MintInfoStaysPrivate
  <2>1. CASE keystores = noKeystores
      BY <2>1 DEF ServerInit, AssetsDefined, MintInfoStaysPrivate, noKeystores, Absent
  <2>2. CASE keystores = oneKeystore
    <3> DEFINE p == CHOOSE p \in Paths : TRUE
               m == CHOOSE m \in Mnemonics : TRUE
               pw == CHOOSE pw \in Passwords : TRUE
    <3>1. p \in Paths
        OBVIOUS
    <3>2. keystores = [noKeystores EXCEPT ![p] = Keystore(m, pw, 1, {AssetInfo(p, m)})]
        BY <2>2 DEF oneKeystore
    <3> HIDE DEF p, m, pw
    <3>3. /\ \A q \in Paths \ {p} : ~keystores[q].exists
          /\ keystores[p].exists /\ keystores[p].mnemonic = m
          /\ keystores[p].assets = {AssetInfo(p, m)}
        BY <3>1, <3>2 DEF noKeystores, Absent, Keystore
    <3>4. AssetInfo(p, m).code = p /\ AssetInfo(p, m).mint_info = m
        BY DEF AssetInfo
    <3> QED
        BY <3>1, <3>3, <3>4 DEF ServerInit, AssetsDefined, Defined, MintInfoStaysPrivate
  <2> QED
      BY <2>1, <2>2 DEF ServerInit
<1> QED
    BY <1>1, <1>2, <1>3, <1>4 DEF ServerInv

\* The invariant holds in every state of the server.
LEMMA ServerInvariant == ServerSpec => []ServerInv
<1>1. ServerInv /\ [ServerNext]_serverVars => ServerInv'
    BY ServerTypesStep, HandlesStep, StepsFollowDiskStep, SecretsStep DEF ServerInv
<1> QED
    BY <1>1, ServerInvInit, PTL DEF ServerSpec

\* For every set of keystores, mnemonics and passwords and however many requests
\* come and fail half way, no two wallets use the files of one keystore at the
\* same time (routes.rs newwallet, openwallet and resetpassword close the open
\* wallet before they load the next one).
THEOREM ServerOneWalletPerKeystore == ServerSpec => []OneWalletPerKeystore
<1>1. ServerInv => OneWalletPerKeystore
    BY DEF ServerInv, HandlesCounted, OneWalletPerKeystore
<1> QED
    BY <1>1, ServerInvariant, PTL

\* However assets are defined, exported, imported, updated and defined again over
\* keystores, crashes and recoveries, the secret that mints an asset is known in
\* its own keystore, which never loses it, and nowhere else (routes.rs
\* exportasset).
THEOREM ServerMintInfoPrivate == ServerSpec => []MintInfoStaysPrivate
<1>1. ServerInv => MintInfoStaysPrivate
    BY DEF ServerInv
<1> QED
    BY <1>1, ServerInvariant, PTL

-----------------------------------------------------------------------------
(* The asset library: types of what generate creates.                      *)

SpecAssets == UNION {ToSet(spec) : spec \in LibrarySpecs}

PolicyKeys ==
    {a.viewing_key : a \in SpecAssets} \cup {a.freezing_key : a \in SpecAssets} \cup {Unset}

\* A policy without a viewing key has no freezing key.
Policies ==
    {p \in [viewing_key : PolicyKeys, freezing_key : PolicyKeys] :
       p.viewing_key = Unset => p.freezing_key = Unset}

Definitions ==
    [kind : {"native", "domestic", "wrapped"},
     code : Nat \cup {"native"} \cup {a.contract : a \in SpecAssets}, policy : Policies]

AssetInfos ==
    [definition : Definitions, name : {a.symbol : a \in SpecAssets} \cup {Unset},
     description : {a.description : a \in SpecAssets} \cup {Unset}]

Generates ==
    [step : {"create", "await fees"}, spec : LibrarySpecs, key : SigningKeys,
     no_deploy : SUBSET {a.symbol : a \in SpecAssets}, assets : Seq(AssetInfos),
     fees : BOOLEAN]

LibraryTypes ==
    /\ codes \in Nat
    /\ command \in Generates \cup {NoCommand}
    /\ library.assets \in Seq(AssetInfos)
    /\ library = NoLibrary \/ library.key \in SigningKeys
    /\ verified \subseteq AssetInfos
    /\ IsFiniteSet(verified)

OnChain(info) == info.definition \in skipped \/ deployed(info.definition)

\* The assets created so far are on the chain and as the specification says.
CreatedAsSpecified ==
    command # NoCommand =>
        /\ Len(command.assets) <= Len(command.spec)
        /\ \A i \in DOMAIN command.assets :
              /\ OnChain(command.assets[i])
              /\ asSpecified(command.assets[i], command.spec[i])

LibraryInv == LibraryTypes /\ CreatedAsSpecified /\ LibrariesMatchChain

-----------------------------------------------------------------------------
\* The assets of a specification are a list.
LEMMA SpecIsList ==
    ASSUME NEW spec \in LibrarySpecs
    PROVE  /\ spec \in Seq(SpecAssets)
           /\ Len(spec) \in Nat
           /\ \A i \in DOMAIN spec : spec[i] \in SpecAssets
<1>1. spec \in Seq(ToSet(spec))
  BY LibraryAssumption
<1>2. ToSet(spec) \subseteq SpecAssets
  BY DEF SpecAssets
<1>3. /\ Len(spec) \in Nat /\ DOMAIN spec = 1 .. Len(spec)
      /\ \A i \in DOMAIN spec : spec[i] \in ToSet(spec)
  BY <1>1 DEF ToSet
<1>4. spec \in Seq(SpecAssets)
  BY <1>1, <1>2
<1> QED
  BY <1>2, <1>3, <1>4

\* The policy of an asset has no freezing key without a viewing key.
LEMMA PolicyType ==
    ASSUME NEW a \in SpecAssets
    PROVE  policyOf(a) \in Policies /\ defaultPolicy \in Policies
BY DEF policyOf, defaultPolicy, Policies, PolicyKeys

\* New names and descriptions leave the definition of an asset.
LEMMA MetadataKeeps ==
    ASSUME NEW info \in AssetInfos, NEW a \in SpecAssets
    PROVE  /\ withMetadata(info, a) \in AssetInfos
           /\ withMetadata(info, a).definition = info.definition
BY DEF withMetadata, AssetInfos

\* What is recorded for a definition that was created.
LEMMA CreatedInfo ==
    ASSUME NEW definition \in Definitions, NEW a \in SpecAssets
    PROVE  /\ AssetInfoOf(definition, a) \in AssetInfos
           /\ AssetInfoOf(definition, a).definition = definition
<1> DEFINE info == [definition |-> definition, name |-> Unset, description |-> Unset]
<1>1. info \in AssetInfos /\ info.definition = definition
  BY DEF AssetInfos
<1> HIDE DEF info
<1>2. AssetInfoOf(definition, a) = withMetadata(info, a)
  BY DEF AssetInfoOf, info
<1> QED
  BY <1>1, <1>2, MetadataKeeps

\* A command's record after an asset was added to it.
LEMMA WithAsset ==
    ASSUME NEW S, NEW c \in [step : {"create", "await fees"}, spec : LibrarySpecs,
                             key : SigningKeys, no_deploy : SUBSET {a.symbol : a \in SpecAssets},
                             assets : S, fees : BOOLEAN],
           NEW list \in S
    PROVE  LET d == [c EXCEPT !.assets = list]
           IN  /\ d \in [step : {"create", "await fees"}, spec : LibrarySpecs,
                         key : SigningKeys, no_deploy : SUBSET {a.symbol : a \in SpecAssets},
                         assets : S, fees : BOOLEAN]
               /\ d.assets = list
               /\ d.spec = c.spec
OBVIOUS

\* The fields of a command.
LEMMA CommandFields ==
    ASSUME NEW c \in Generates
    PROVE  /\ c.spec \in LibrarySpecs
           /\ c.assets \in Seq(AssetInfos)
           /\ Len(c.assets) \in Nat
           /\ \A i \in DOMAIN c.assets : c.assets[i] \in AssetInfos
<1>1. c.spec \in LibrarySpecs /\ c.assets \in Seq(AssetInfos)
  BY DEF Generates
<1>2. Len(c.assets) \in Nat /\ \A i \in DOMAIN c.assets : c.assets[i] \in AssetInfos
  BY <1>1
<1> QED
  BY <1>1, <1>2

\* An asset on the chain stays there.
LEMMA StaysOnChain ==
    ASSUME NEW info \in AssetInfos, OnChain(info),
           skipped \subseteq skipped', mintedAssets \subseteq mintedAssets',
           sponsoredAssets \subseteq sponsoredAssets'
    PROVE  OnChain(info)'
<1>1. info.definition.kind \in {"native", "domestic", "wrapped"}
  BY DEF AssetInfos, Definitions
<1> QED
  BY <1>1 DEF OnChain, deployed

\* A step that only adds to the chain keeps the library and the command.
LEMMA ChainGrows ==
    ASSUME LibraryInv, skipped \subseteq skipped', mintedAssets \subseteq mintedAssets',
           sponsoredAssets \subseteq sponsoredAssets', UNCHANGED <<library, verified>>
    PROVE  /\ LibrariesMatchChain'
           /\ command # NoCommand => \A info \in ToSet(command.assets) : OnChain(info)'
<1>1. \A info \in ToSet(library.assets) \cup verified : info \in AssetInfos
  BY DEF LibraryInv, LibraryTypes, ToSet
<1>2. \A info \in ToSet(library.assets) \cup verified : OnChain(info)
  BY DEF LibraryInv, LibrariesMatchChain, OnChain
<1>3. \A info \in ToSet(library.assets) \cup verified : OnChain(info)'
  BY <1>1, <1>2, StaysOnChain
<1>4. LibrariesMatchChain'
  BY <1>3 DEF LibraryInv, LibrariesMatchChain, OnChain, asSpecified
<1>5. ASSUME command # NoCommand, NEW info \in ToSet(command.assets)
      PROVE  OnChain(info)'
  <2>1. command \in Generates
    BY <1>5 DEF LibraryInv, LibraryTypes
  <2>2. info \in AssetInfos
    BY <2>1, <1>5, CommandFields DEF ToSet
  <2>3. OnChain(info)
    BY <1>5 DEF LibraryInv, CreatedAsSpecified, ToSet
  <2> QED
    BY <2>2, <2>3, StaysOnChain
<1> QED
  BY <1>4, <1>5

-----------------------------------------------------------------------------
(* The asset library: the steps of generate.                               *)

\* An asset is created: it is on the chain and has the policy of its entry.
LEMMA CreatedStep ==
    ASSUME LibraryInv, generating, ~allCreated, NEW definition \in Definitions,
           assetCreated(definition), UNCHANGED <<library, verified>>,
           skipped \subseteq skipped', mintedAssets \subseteq mintedAssets',
           sponsoredAssets \subseteq sponsoredAssets', codes' \in Nat,
           definition.kind = "native" \/ definition.policy = policyOf(next),
           definition \in skipped' \/ deployed(definition)'
    PROVE  LibraryInv'
<1> DEFINE L == Seq(AssetInfos)
           old == command.assets
           a == next
           info == AssetInfoOf(definition, a)
           new == Append(old, info)
<1>1. command \in Generates
  BY DEF LibraryInv, LibraryTypes, generating, NoCommand
<1>2. old \in L /\ command.spec \in LibrarySpecs
  BY <1>1 DEF Generates
<1>3. Len(old) <= Len(command.spec) /\ Len(old) \in Nat /\ Len(command.spec) \in Nat
  <2>1. command # NoCommand
    BY DEF generating, NoCommand
  <2> QED
    BY <2>1, <1>2, SpecIsList DEF LibraryInv, CreatedAsSpecified
<1>4. Len(old) # Len(command.spec)
  BY DEF allCreated
<1>5. a \in SpecAssets
  <2>1. Len(old) + 1 \in 1 .. Len(command.spec)
    BY <1>3, <1>4
  <2>2. Len(old) + 1 \in DOMAIN command.spec
    BY <2>1, <1>2, SpecIsList
  <2> QED
    BY <2>2, <1>2, SpecIsList DEF next
<1>6. info \in AssetInfos /\ info.definition = definition
  BY <1>5, CreatedInfo
<1>6a. definition.kind = "native" \/ definition.policy = policyOf(a)
  OBVIOUS
<1>6b. a = command.spec[Len(old) + 1]
  BY DEF next
<1>6c. command' = [command EXCEPT !.assets = new]
  BY DEF assetCreated
<1> HIDE DEF info, a
<1>7. /\ new \in L /\ Len(new) = Len(old) + 1 /\ DOMAIN new = 1 .. Len(old) + 1
      /\ new[Len(old) + 1] = info
      /\ \A i \in 1 .. Len(old) : new[i] = old[i]
  BY <1>2, <1>6
<1> HIDE DEF new
<1>8. command' = [command EXCEPT !.assets = new] /\ command \in
        [step : {"create", "await fees"}, spec : LibrarySpecs,
         key : SigningKeys, no_deploy : SUBSET {b.symbol : b \in SpecAssets},
         assets : L, fees : BOOLEAN]
  BY <1>1, <1>6c DEF Generates
<1> HIDE DEF L
<1>9. /\ command' \in [step : {"create", "await fees"}, spec : LibrarySpecs,
         key : SigningKeys, no_deploy : SUBSET {b.symbol : b \in SpecAssets},
         assets : L, fees : BOOLEAN]
      /\ command'.assets = new /\ command'.spec = command.spec
  BY <1>8, <1>7, WithAsset
<1>10. LibraryTypes'
  <2>1. command' \in Generates
    BY <1>9 DEF Generates, L
  <2> QED
    BY <2>1 DEF LibraryInv, LibraryTypes
<1>11. /\ LibrariesMatchChain'
       /\ \A x \in ToSet(old) : OnChain(x)'
  <2>1. command # NoCommand
    BY DEF generating, NoCommand
  <2> QED
    BY <2>1, ChainGrows
<1>12. CreatedAsSpecified'
  <2>1. \A i \in DOMAIN old : asSpecified(old[i], command.spec[i])
    <3>1. command # NoCommand
      BY DEF generating, NoCommand
    <3> QED
      BY <3>1 DEF LibraryInv, CreatedAsSpecified
  <2>2. DOMAIN old = 1 .. Len(old)
    BY <1>2 DEF L
  <2>3. \A x : x = info => OnChain(x)'
    BY <1>6 DEF OnChain
  <2>4. asSpecified(info, a)
    BY <1>6, <1>6a DEF asSpecified
  <2>5. ASSUME NEW i \in DOMAIN new
        PROVE  /\ \A x : x = new[i] => OnChain(x)'
               /\ asSpecified(new[i], command.spec[i])
    <3>1. CASE i = Len(old) + 1
      BY <3>1, <1>7, <2>3, <2>4, <1>6b
    <3>2. CASE i # Len(old) + 1
      <4>1. i \in DOMAIN old /\ new[i] = old[i]
        BY <3>2, <2>5, <1>7, <1>3, <2>2
      <4>2. old[i] \in ToSet(old)
        BY <4>1 DEF ToSet
      <4> QED
        BY <4>1, <4>2, <2>1, <1>11
    <3> QED
      BY <3>1, <3>2
  <2>6. Len(new) <= Len(command.spec)
    BY <1>7, <1>3, <1>4
  <2>7. \A i \in DOMAIN command'.assets : OnChain(command.assets[i])'
    BY <1>9, <2>5 DEF OnChain
  <2> QED
    BY <1>9, <2>5, <2>6, <2>7 DEF CreatedAsSpecified, asSpecified
<1> QED
  BY <1>10, <1>11, <1>12 DEF LibraryInv

\* The command ends, perhaps after it changed the chain.
LEMMA EndedStep ==
    ASSUME LibraryInv, command' = NoCommand, UNCHANGED <<library, verified>>,
           skipped \subseteq skipped', mintedAssets \subseteq mintedAssets',
           sponsoredAssets \subseteq sponsoredAssets', codes' \in Nat
    PROVE  LibraryInv'
<1>1. LibrariesMatchChain'
  BY ChainGrows
<1> QED
  BY <1>1 DEF LibraryInv, LibraryTypes, CreatedAsSpecified

\* The native asset is added.
LEMMA NativeStep == LibraryInv /\ createNative => LibraryInv'
<1> SUFFICES ASSUME LibraryInv, createNative PROVE LibraryInv'
  OBVIOUS
<1>1. command \in Generates /\ ~allCreated /\ generating
  BY DEF createNative, creating, LibraryInv, LibraryTypes, generating, NoCommand
<1>2. PICK definition \in Definitions :
        definition = native_definition /\ definition.kind = "native"
  <2>1. defaultPolicy \in Policies
    BY DEF defaultPolicy, Policies, PolicyKeys
  <2>2. native_definition \in Definitions /\ native_definition.kind = "native"
    BY <2>1 DEF native_definition, Definitions
  <2> QED
    BY <2>2
<1>3. deployed(definition)'
  BY <1>2 DEF deployed
<1> QED
  BY <1>1, <1>2, <1>3, CreatedStep DEF createNative, deployment, LibraryInv, LibraryTypes

\* The command goes on to the next asset.
LEMMA NextType ==
    ASSUME LibraryInv, generating, ~allCreated
    PROVE  next \in SpecAssets
<1>1. command \in Generates /\ command # NoCommand
  BY DEF LibraryInv, LibraryTypes, generating, NoCommand
<1>2. command.spec \in LibrarySpecs /\ Len(command.assets) \in Nat
  BY <1>1, CommandFields
<1>3. Len(command.assets) <= Len(command.spec) /\ Len(command.assets) # Len(command.spec)
  BY <1>1 DEF LibraryInv, CreatedAsSpecified, allCreated
<1>4. Len(command.spec) \in Nat /\ command.spec \in Seq(SpecAssets)
  BY <1>2, SpecIsList
<1>5. Len(command.assets) + 1 \in DOMAIN command.spec
  BY <1>2, <1>3, <1>4
<1> QED
  BY <1>5, <1>2, SpecIsList DEF next

\* A domestic asset is minted.
LEMMA DomesticStep == LibraryInv /\ createDomestic => LibraryInv'
<1> SUFFICES ASSUME LibraryInv, createDomestic PROVE LibraryInv'
  OBVIOUS
<1>0. PICK asset : asset = define_asset(next)
  OBVIOUS
<1>1. generating /\ ~allCreated
  BY DEF createDomestic, creating
<1>2. asset \in Definitions /\ asset.kind = "domestic" /\ asset.policy = policyOf(next)
  <2>1. policyOf(next) \in Policies
    BY <1>1, NextType, PolicyType
  <2>2. codes \in Nat
    BY DEF LibraryInv, LibraryTypes
  <2> QED
    BY <1>0, <2>1, <2>2 DEF define_asset, Definitions
<1>3. /\ codes' \in Nat /\ UNCHANGED <<sponsoredAssets, library, verified>>
      /\ \/ UNCHANGED skipped /\ mintedAssets' = mintedAssets \cup {asset} /\ assetCreated(asset)
         \/ UNCHANGED skipped /\ mintedAssets \subseteq mintedAssets' /\ failed(asset)
         \/ skip(asset) /\ UNCHANGED mintedAssets
  BY <1>0 DEF createDomestic, LibraryInv, LibraryTypes
<1>4. CASE UNCHANGED skipped /\ mintedAssets' = mintedAssets \cup {asset} /\ assetCreated(asset)
  <2>1. deployed(asset)'
    BY <1>2, <1>4 DEF deployed
  <2> QED
    BY <1>1, <1>2, <1>3, <1>4, <2>1, CreatedStep
<1>5. CASE UNCHANGED skipped /\ mintedAssets \subseteq mintedAssets' /\ failed(asset)
  BY <1>3, <1>5, EndedStep DEF failed
<1>6. CASE skip(asset) /\ UNCHANGED mintedAssets
  BY <1>1, <1>2, <1>3, <1>6, CreatedStep DEF skip
<1> QED
  BY <1>3, <1>4, <1>5, <1>6

\* A wrapped asset is sponsored.
LEMMA WrappedStep == LibraryInv /\ createWrapped => LibraryInv'
<1> SUFFICES ASSUME LibraryInv, createWrapped PROVE LibraryInv'
  OBVIOUS
<1>0. PICK asset : asset = build_sponsor(next)
  OBVIOUS
<1>1. generating /\ ~allCreated
  BY DEF createWrapped, creating
<1>2. asset \in Definitions /\ asset.kind = "wrapped" /\ asset.policy = policyOf(next)
  <2>1. policyOf(next) \in Policies /\ next \in SpecAssets
    BY <1>1, NextType, PolicyType
  <2> QED
    BY <1>0, <2>1 DEF build_sponsor, Definitions
<1>3. /\ UNCHANGED <<mintedAssets, codes, library, verified>>
      /\ \/ UNCHANGED skipped /\ sponsoredAssets' = sponsoredAssets \cup {asset}
              /\ assetCreated(asset)
         \/ UNCHANGED skipped /\ sponsoredAssets \subseteq sponsoredAssets' /\ failed(asset)
         \/ skip(asset) /\ UNCHANGED sponsoredAssets
  BY <1>0 DEF createWrapped
<1>3a. codes' \in Nat
  BY <1>3 DEF LibraryInv, LibraryTypes
<1>4. CASE /\ UNCHANGED skipped /\ sponsoredAssets' = sponsoredAssets \cup {asset}
           /\ assetCreated(asset)
  <2>1. deployed(asset)'
    BY <1>2, <1>4 DEF deployed
  <2> QED
    BY <1>1, <1>2, <1>3, <1>3a, <1>4, <2>1, CreatedStep
<1>5. CASE UNCHANGED skipped /\ sponsoredAssets \subseteq sponsoredAssets' /\ failed(asset)
  BY <1>3, <1>3a, <1>5, EndedStep DEF failed
<1>6. CASE skip(asset) /\ UNCHANGED sponsoredAssets
  BY <1>1, <1>2, <1>3, <1>3a, <1>6, CreatedStep DEF skip
<1> QED
  BY <1>3, <1>4, <1>5, <1>6

-----------------------------------------------------------------------------
(* The asset library: the other commands.                                  *)

LEMMA GenerateStep == LibraryInv /\ generate => LibraryInv'
<1> SUFFICES ASSUME LibraryInv, generate PROVE LibraryInv'
  OBVIOUS
<1>1. PICK spec \in LibrarySpecs, key \in SigningKeys :
        \E no_deploy \in SUBSET {spec[i].symbol : i \in DOMAIN spec} :
            command' = [step |-> "create", spec |-> spec, key |-> key, no_deploy |-> no_deploy,
                        assets |-> <<>>, fees |-> FALSE]
  BY DEF generate
<1>2. PICK no_deploy \in SUBSET {spec[i].symbol : i \in DOMAIN spec} :
            command' = [step |-> "create", spec |-> spec, key |-> key, no_deploy |-> no_deploy,
                        assets |-> <<>>, fees |-> FALSE]
  BY <1>1
<1>3. no_deploy \in SUBSET {a.symbol : a \in SpecAssets}
  BY SpecIsList
<1>4. command' \in Generates
  BY <1>2, <1>3 DEF Generates
<1>5. LibrariesMatchChain'
  BY ChainGrows DEF generate, deployment
<1>6. CreatedAsSpecified'
  <2>1. command'.assets = <<>> /\ command'.spec = spec
    BY <1>2
  <2> QED
    BY <2>1, SpecIsList DEF CreatedAsSpecified
<1> QED
  BY <1>4, <1>5, <1>6 DEF generate, deployment, LibraryInv, LibraryTypes

\* The fees are asked for and arrive.
LEMMA FeesStep == LibraryInv /\ (request_fee_assets \/ feesArrive) => LibraryInv'
<1> SUFFICES ASSUME LibraryInv, request_fee_assets \/ feesArrive PROVE LibraryInv'
  OBVIOUS
<1>0. UNCHANGED <<deployment, library, verified>>
  BY DEF request_fee_assets, feesArrive
<1>1. CASE command' = NoCommand
  BY <1>0, <1>1, EndedStep DEF deployment, LibraryInv, LibraryTypes
<1>2. CASE command' # NoCommand
  <2>1. \/ command' = [command EXCEPT !.step = "await fees"]
        \/ command' = [command EXCEPT !.step = "create", !.fees = TRUE]
    BY <1>2 DEF request_fee_assets, feesArrive
  <2>2. command \in Generates /\ command # NoCommand
    <3>1. generating
      BY DEF request_fee_assets, feesArrive, creating
    <3> QED
      BY <3>1 DEF LibraryInv, LibraryTypes, generating, NoCommand
  <2>3. /\ command' \in Generates /\ command'.assets = command.assets
        /\ command'.spec = command.spec
    BY <2>1, <2>2 DEF Generates
  <2>4. /\ LibrariesMatchChain'
        /\ \A info \in ToSet(command.assets) : OnChain(info)'
    BY <1>0, <2>2, ChainGrows DEF deployment
  <2>5. \A i \in DOMAIN command'.assets : OnChain(command.assets[i])'
    BY <2>3, <2>4 DEF ToSet, OnChain
  <2>6. CreatedAsSpecified'
    BY <2>2, <2>3, <2>5 DEF CreatedAsSpecified, LibraryInv, asSpecified
  <2> QED
    BY <1>0, <2>3, <2>4, <2>6 DEF LibraryInv, LibraryTypes, deployment
<1> QED
  BY <1>1, <1>2

\* The library is signed and written.
LEMMA WritesStep == LibraryInv /\ generateWrites => LibraryInv'
<1> SUFFICES ASSUME LibraryInv, generateWrites PROVE LibraryInv'
  OBVIOUS
<1>1. command \in Generates /\ command # NoCommand
  BY DEF generateWrites, LibraryInv, LibraryTypes, generating, NoCommand
<1>2. /\ library'.assets = command.assets /\ library'.spec = command.spec
      /\ library'.key = command.key
  BY DEF generateWrites, write_library
<1>3. command.assets \in Seq(AssetInfos) /\ command.key \in SigningKeys
      /\ command.spec \in LibrarySpecs /\ Len(command.assets) = Len(command.spec)
  BY <1>1 DEF Generates, generateWrites, allCreated
<1>4. LibraryTypes'
  BY <1>2, <1>3 DEF LibraryInv, LibraryTypes, generateWrites, deployment
<1>5. DOMAIN command.spec = DOMAIN command.assets
  BY <1>3, SpecIsList
<1>6. \A i \in DOMAIN command.assets :
          /\ OnChain(command.assets[i])
          /\ asSpecified(command.assets[i], command.spec[i])
  BY <1>1 DEF LibraryInv, CreatedAsSpecified
<1>7. UNCHANGED <<deployment, verified>>
  BY DEF generateWrites
<1>8. \A info \in ToSet(command.assets) \cup verified : OnChain(info)
  BY <1>6 DEF LibraryInv, LibrariesMatchChain, OnChain, ToSet
<1>9. LibrariesMatchChain'
  BY <1>2, <1>5, <1>6, <1>7, <1>8
     DEF LibrariesMatchChain, OnChain, deployed, asSpecified, deployment
<1>10. CreatedAsSpecified'
  BY DEF CreatedAsSpecified, generateWrites
<1> QED
  BY <1>4, <1>9, <1>10 DEF LibraryInv

\* The codes of a library are updated.
LEMMA UpdateStep == LibraryInv /\ update => LibraryInv'
<1> SUFFICES ASSUME LibraryInv, update PROVE LibraryInv'
  OBVIOUS
<1>0. UNCHANGED <<deployment, command, verified>>
  BY DEF update
<1>1. CASE UNCHANGED library
  <2>1. LibrariesMatchChain'
    BY <1>0, <1>1, ChainGrows DEF deployment
  <2> QED
    BY <1>0, <1>1, <2>1
       DEF LibraryInv, LibraryTypes, CreatedAsSpecified, deployment, OnChain, deployed,
           asSpecified
<1>2. CASE ~UNCHANGED library
  <2>1. PICK spec \in LibrarySpecs, key \in SigningKeys :
          /\ updatable(spec)
          /\ write_library([i \in DOMAIN spec |-> withMetadata(library.assets[i], spec[i])],
                              key, spec)
    BY <1>2 DEF update
  <2> DEFINE old == library.assets
             new == [i \in DOMAIN spec |-> withMetadata(old[i], spec[i])]
  <2>2. library'.assets = new /\ library'.spec = spec /\ library'.key = key
    BY <2>1 DEF write_library
  <2>3. /\ old \in Seq(AssetInfos) /\ Len(old) = Len(spec) /\ DOMAIN spec = 1 .. Len(spec)
        /\ Len(spec) \in Nat /\ DOMAIN old = DOMAIN spec
    BY <2>1, SpecIsList DEF LibraryInv, LibraryTypes, updatable
  <2>4. ASSUME NEW i \in DOMAIN spec
        PROVE  /\ new[i] \in AssetInfos /\ new[i].definition = old[i].definition
               /\ asSpecified(new[i], spec[i])
    <3>1. old[i] \in AssetInfos /\ spec[i] \in SpecAssets
      BY <2>3, SpecIsList
    <3>2. new[i] \in AssetInfos /\ new[i].definition = old[i].definition
      BY <3>1, MetadataKeeps
    <3>3. keysMatch(old[i], spec[i])
      BY <2>1 DEF updatable
    <3>4. old[i].definition.policy \in Policies
      BY <3>1 DEF AssetInfos, Definitions
    <3>5. old[i].definition.policy = policyOf(spec[i])
      BY <3>3, <3>4 DEF keysMatch, policyOf, defaultPolicy, Policies
    <3> QED
      BY <3>2, <3>5 DEF asSpecified
  <2>5. \A i \in DOMAIN spec : OnChain(old[i])
    BY <2>3 DEF LibraryInv, LibrariesMatchChain, OnChain, ToSet
  <2>6. new \in Seq(AssetInfos)
    BY <2>3, <2>4
  <2>6a. DOMAIN new = DOMAIN spec
    OBVIOUS
  <2> HIDE DEF new, old
  <2>7. \A info \in ToSet(new) : OnChain(info)
    BY <2>4, <2>5, <2>6a DEF OnChain, ToSet
  <2>8. LibrariesMatchChain'
    <3>1. \A info \in verified : OnChain(info)
      BY DEF LibraryInv, LibrariesMatchChain, OnChain
    <3> QED
      BY <1>0, <2>2, <2>4, <2>7, <3>1
         DEF LibrariesMatchChain, OnChain, deployed, asSpecified, deployment
  <2>9. LibraryTypes'
    BY <1>0, <2>2, <2>6 DEF LibraryInv, LibraryTypes, deployment
  <2>10. CreatedAsSpecified'
    BY <1>0 DEF LibraryInv, CreatedAsSpecified, OnChain, deployed, asSpecified, deployment
  <2> QED
    BY <2>8, <2>9, <2>10 DEF LibraryInv
<1> QED
  BY <1>1, <1>2

\* The elements of a list are finitely many.
LEMMA ListFinite ==
    ASSUME NEW S, NEW s \in Seq(S)
    PROVE  IsFiniteSet(ToSet(s))
<1> DEFINE f == [i \in 1 .. Len(s) |-> s[i]]
<1>1. f \in Surjection(1 .. Len(s), ToSet(s))
  BY DEF Surjection, ToSet
<1>2. IsFiniteSet(1 .. Len(s))
  BY FS_Interval
<1> QED
  BY <1>1, <1>2, FS_Surjection DEF ExistsSurjection

\* The list of a finite set has its elements.
LEMMA ListOfSet ==
    ASSUME NEW S, NEW T, IsFiniteSet(S), S \subseteq T
    PROVE  SetToSeq(S) \in Seq(T) /\ ToSet(SetToSeq(S)) \subseteq S
<1>1. Cardinality(S) \in Nat /\ ExistsBijection(1 .. Cardinality(S), S)
  BY FS_CardinalityType
<1>2. PICK f : f \in Bijection(1 .. Cardinality(S), S)
  BY <1>1 DEF ExistsBijection
<1>3. f \in [1 .. Cardinality(S) -> S] /\ IsInjective(f)
  BY <1>2 DEF Bijection, Injection, IsInjective
<1>4. SetToSeq(S) \in [1 .. Cardinality(S) -> S]
  BY <1>3 DEF SetToSeq
<1> QED
  BY <1>1, <1>4 DEF ToSet

\* A wallet verifies a library.
LEMMA VerifyAssetsStep == LibraryInv /\ verify_assets => LibraryInv'
<1> SUFFICES ASSUME LibraryInv, verify_assets PROVE LibraryInv'
  OBVIOUS
<1>1. /\ verified' = verified \cup ToSet(library.assets)
      /\ UNCHANGED <<deployment, command, library>>
  BY DEF verify_assets
<1>2. library.assets \in Seq(AssetInfos)
  BY DEF LibraryInv, LibraryTypes
<1>3. IsFiniteSet(verified') /\ verified' \subseteq AssetInfos
  <2>1. IsFiniteSet(ToSet(library.assets))
    BY <1>2, ListFinite
  <2>2. ToSet(library.assets) \subseteq AssetInfos
    BY <1>2 DEF ToSet
  <2> QED
    BY <1>1, <2>1, <2>2, FS_Union DEF LibraryInv, LibraryTypes
<1>4. LibraryTypes'
  BY <1>1, <1>3 DEF LibraryInv, LibraryTypes, deployment
<1>5. LibrariesMatchChain'
  BY <1>1 DEF LibraryInv, LibrariesMatchChain, deployed, asSpecified, deployment
<1>6. CreatedAsSpecified'
  BY <1>1 DEF LibraryInv, CreatedAsSpecified, OnChain, deployed, asSpecified, deployment
<1> QED
  BY <1>4, <1>5, <1>6 DEF LibraryInv

\* The assets of a library are extracted.
LEMMA ExtractStep == LibraryInv /\ extract => LibraryInv'
<1> SUFFICES ASSUME LibraryInv, extract PROVE LibraryInv'
  OBVIOUS
<1>1. PICK infos \in SUBSET verified, key \in SigningKeys :
        write_library(SetToSeq(infos), key, <<>>)
  BY DEF extract
<1>2. UNCHANGED <<deployment, command, verified>>
  BY DEF extract
<1>3. IsFiniteSet(infos) /\ infos \subseteq AssetInfos
  BY FS_Subset DEF LibraryInv, LibraryTypes
<1> DEFINE new == SetToSeq(infos)
<1>4. new \in Seq(AssetInfos) /\ ToSet(new) \subseteq verified
  BY <1>3, ListOfSet
<1>5. library'.assets = new /\ library'.key = key /\ library'.spec = <<>>
  BY <1>1 DEF write_library
<1> HIDE DEF new
<1>6. LibraryTypes'
  BY <1>2, <1>4, <1>5 DEF LibraryInv, LibraryTypes, deployment
<1>7. LibrariesMatchChain'
  <2>1. \A info \in ToSet(new) \cup verified : OnChain(info)
    BY <1>4 DEF LibraryInv, LibrariesMatchChain, OnChain
  <2>2. DOMAIN library'.spec = {}
    BY <1>5
  <2> QED
    BY <1>2, <1>5, <2>1, <2>2 DEF LibrariesMatchChain, OnChain, deployed, deployment
<1>8. CreatedAsSpecified'
  BY <1>2 DEF LibraryInv, CreatedAsSpecified, OnChain, deployed, asSpecified, deployment
<1> QED
  BY <1>6, <1>7, <1>8 DEF LibraryInv

-----------------------------------------------------------------------------
\* There is no library at first.
LEMMA LibraryInitInv == LibraryInit => LibraryInv
BY FS_EmptySet DEF LibraryInit, LibraryInv, LibraryTypes, CreatedAsSpecified,
       LibrariesMatchChain, NoLibrary, NoCommand, ToSet

\* Every command keeps the invariant.
LEMMA LibraryStepInv == LibraryInv /\ [LibraryNext]_libraryVars => LibraryInv'
<1> SUFFICES ASSUME LibraryInv, [LibraryNext]_libraryVars PROVE LibraryInv'
  OBVIOUS
<1>1. CASE load_icon_fails \/ interrupt
  <2>1. command' = NoCommand /\ UNCHANGED <<deployment, library, verified>>
    BY <1>1 DEF load_icon_fails, interrupt
  <2> QED
    BY <2>1, EndedStep DEF deployment, LibraryInv, LibraryTypes
<1>2. CASE UNCHANGED libraryVars
  BY <1>2 DEF libraryVars, LibraryInv, LibraryTypes, CreatedAsSpecified, OnChain, deployed,
              asSpecified, LibrariesMatchChain
<1> QED
  BY <1>1, <1>2, GenerateStep, NativeStep, FeesStep, DomesticStep, WrappedStep, WritesStep,
     UpdateStep, VerifyAssetsStep, ExtractStep DEF LibraryNext

\* For every specification and every key, however commands fail and are resumed:
\* the assets that a library lists and a wallet shows as verified are on the chain,
\* with the keys that were specified (GenerateCommand::run, UpdateCommand::run,
\* verify_cape_assets).
THEOREM LibrariesKeepMatching == LibrarySpec => []LibrariesMatchChain
<1>1. LibraryInv => LibrariesMatchChain
  BY DEF LibraryInv
<1> QED
  BY <1>1, LibraryInitInv, LibraryStepInv, PTL DEF LibrarySpec
===========================================================================
