---------------------------- MODULE AddressBook ----------------------------
(***************************************************************************)
(* address_book/src: the service that maps user addresses to public keys.  *)
(* Each (address, key) pair is one file of the store's directory; handlers *)
(* run concurrently and share nothing but that directory.  A save writes a *)
(* temporary file and renames it over the pair's file.                     *)
(***************************************************************************)
EXTENDS Naturals, FiniteSets

CONSTANTS
    Users,         \* each owns the address it is identified with
    Default,       \* UserAddress::default(), which nobody owns
    BookRequests   \* bound: the requests that are ever made

VARIABLES
    files,         \* what the store's directory holds at each name
    requests,       \* what each request asks and how far its handler is
    up             \* the process is running

bookVars == <<files, requests, up>>

Addresses == Users \cup {Default}

\* The name of a temporary file, which its request stands for, is not the name
\* of a pair's file.
ASSUME AddressBookAssumption == Addresses \cap BookRequests = {}

NoFile == [by |-> "nobody", whole |-> FALSE]

NotMade == [op |-> "none", address |-> Default, signer |-> Default, at |-> "none",
            answer |-> NoFile, after |-> {}]

-----------------------------------------------------------------------------
(* FileStore.  A file holds the key of the request that wrote it; it is    *)
(* whole once fs::write has returned.                                      *)

path(r) == requests[r].address

\* Mutant: the temporary name is fixed by the address.
tmpPathOfAddress(r) == <<requests[r].address>>

\* Sixteen random characters: no two saves choose the same name.
tmp_path(r) == r

Names == Addresses \cup BookRequests \cup {<<a>> : a \in Addresses}

\* fs::write creates or truncates the file, then fills it.
createTmp(r) == files' = [files EXCEPT ![tmp_path(r)] = [by |-> r, whole |-> FALSE]]

fillTmp(r) == files' = [files EXCEPT ![tmp_path(r)] = [by |-> r, whole |-> TRUE]]

\* Mutant: the handler answers as soon as the temporary file is written.
keepTmp(r) == UNCHANGED files

rename(r) ==
    /\ files[tmp_path(r)] # NoFile
    /\ files' = [files EXCEPT ![path(r)] = files[tmp_path(r)], ![tmp_path(r)] = NoFile]

\* fs::read of the pair's file, NotFound when there is none.
load(a) == files[a]

-----------------------------------------------------------------------------
(* Requests.                                                               *)

answered(op) == {r \in BookRequests : requests[r].op = op /\ requests[r].at = "ok"}

asks(op, address, signer, at) ==
    [op |-> op, address |-> address, signer |-> signer, at |-> at, answer |-> NoFile,
     after |-> answered("insert")]

post(r, q) ==
    /\ up /\ requests[r] = NotMade
    /\ requests' = [requests EXCEPT ![r] = q]
    /\ UNCHANGED <<files, up>>

\* A wallet posts a key of its user, signed with that key.  Any response counts
\* as success, whatever its status: only a post without one fails.
register_user_key(r) ==
    \E u \in Users : post(r, asks("insert", u, u, "received"))

\* Other clients post what they like: a key for an address they do not own.
SendInsert(r) ==
    \E a \in Addresses, s \in Users :
        a # s /\ post(r, asks("insert", a, s, "received"))

\* A wallet asks for the key of an address.
get_public_key(r) ==
    \E a \in Addresses : post(r, asks("request", a, Default, "received"))

SendHealthcheck(r) == post(r, asks("healthcheck", Default, Default, "verified"))

moveTo(r, at) == requests' = [requests EXCEPT ![r].at = at]

\* The signature of a key is checked against a key the request names.
verify_sig(r) == requests[r].signer = requests[r].address

verify_sig_and_get_pub_key(r) ==
    /\ up /\ requests[r].op = "insert" /\ requests[r].at = "received"
    /\ moveTo(r, IF verify_sig(r) THEN "verified" ELSE "bad request")
    /\ UNCHANGED <<files, up>>

\* save, up to the point where fs::write has opened the temporary file.
SaveOpens(r) ==
    /\ up /\ requests[r].at = "verified"
    /\ createTmp(r) /\ moveTo(r, "writing")
    /\ UNCHANGED up

SaveWrites(r) ==
    /\ up /\ requests[r].at = "writing"
    /\ fillTmp(r) /\ moveTo(r, "written")
    /\ UNCHANGED up

SaveRenames(r) ==
    /\ up /\ requests[r].at = "written"
    /\ rename(r) /\ moveTo(r, "ok")
    /\ UNCHANGED up

\* fs::write fails at any point, or fs::rename fails: the error is returned
\* and the temporary file stays.
SaveFails(r) ==
    /\ up /\ requests[r].at \in {"verified", "writing", "written"}
    /\ moveTo(r, "error")
    /\ UNCHANGED <<files, up>>

\* Deserializing a file that is not whole panics.
request_pubkey(r) ==
    /\ up /\ requests[r].op = "request" /\ requests[r].at = "received"
    /\ requests' = [requests EXCEPT
          ![r].answer = load(path(r)),
          ![r].at = IF load(path(r)) = NoFile THEN "not found"
                    ELSE IF load(path(r)).whole THEN "ok" ELSE "panic"]
    /\ UNCHANGED <<files, up>>

\* The process dies: its handlers are gone, the directory stays.
Kill ==
    /\ up /\ up' = FALSE
    /\ requests' = [r \in BookRequests |->
          IF requests[r].at \in {"received", "verified", "writing", "written"}
          THEN [requests[r] EXCEPT !.at = "lost"] ELSE requests[r]]
    /\ UNCHANGED files

main == ~up /\ up' = TRUE /\ UNCHANGED <<files, requests>>

BookInit ==
    /\ files = [n \in Names |-> NoFile]
    /\ requests = [r \in BookRequests |-> NotMade]
    /\ up = TRUE

BookNext ==
    \/ \E r \in BookRequests :
          \/ register_user_key(r) \/ SendInsert(r) \/ get_public_key(r) \/ SendHealthcheck(r)
          \/ verify_sig_and_get_pub_key(r)
          \/ SaveOpens(r) \/ SaveWrites(r) \/ SaveRenames(r) \/ SaveFails(r)
          \/ request_pubkey(r)
    \/ Kill \/ main

\* What the wallet makes of the answer: a key, PubkeyNotFound, or Failed.
publicKeyResult(r) ==
    CASE requests[r].at = "ok"        -> "key"
      [] requests[r].at = "not found" -> "PubkeyNotFound"
      [] OTHER                        -> "Failed"

BookSpec == BookInit /\ [][BookNext]_bookVars

-----------------------------------------------------------------------------
\* A key served for a user's address is a whole key that the user signed for
\* that address, however saves of the same address interleave, fail half way
\* or are cut by a crash; only the default address, which healthcheck writes,
\* is ever served without a signature.  Nothing is served from a temporary file.
KeysServedBySignature ==
    \A r \in BookRequests : requests[r].op = "request" =>
        /\ requests[r].at # "panic"
        /\ publicKeyResult(r) = "key" =>
              LET writer == requests[requests[r].answer.by] IN
              /\ writer.address = requests[r].address
              /\ \/ writer.op = "insert" /\ writer.signer = requests[r].address
                 \/ writer.op = "healthcheck" /\ requests[r].address = Default

\* Once insert_pubkey was answered, a later request for that address finds a
\* key, over crashes too, and never one that was already answered before that
\* insert was sent: an acknowledged update is not undone.
AcknowledgedKeysStay ==
    \A r \in BookRequests : requests[r].op = "request" =>
        \A i \in requests[r].after : requests[i].address = requests[r].address =>
            /\ publicKeyResult(r) # "PubkeyNotFound"
            /\ publicKeyResult(r) = "key" => requests[r].answer.by \notin requests[i].after
=============================================================================
