------------------------------ MODULE Accounts ------------------------------
(***************************************************************************)
(* The account file of engine/accounts.py: one JSON file that the sessions *)
(* of the UI and the runs of its command line share.  Nothing locks it: a  *)
(* call loads the whole file, derives a key (slow), and saves the whole    *)
(* file through one temporary file, which is opened (and so truncated),    *)
(* written and renamed in three steps.                                     *)
(*                                                                         *)
(* A rename gives the name accounts.json to the file that was accounts.tmp *)
(* and takes it from the old one; an open handle stays with its file.      *)
(***************************************************************************)
EXTENDS Integers, FiniteSets

CONSTANTS
  Sessions,   \* sessions and processes, one call each at a time
  Names,      \* spellings of account names
  LowerOf,    \* str.lower() on them
  Passwords,
  Keys,       \* private keys of wallets, each with its address
  FirstFiles, \* what accounts.json may be at the start
  None,       \* no record, no role (an old record), no file
  Blank,      \* the text of a file just opened for writing
  Broken,     \* a text that is not JSON
  MaxCalls    \* bound: calls that go on to save

Record == [password: Passwords, key: Keys, role: {"user", "admin", None}]

Book == [Names -> Record \cup {None}]

Text == Book \cup {Blank, Broken}

EmptyBook == [n \in Names |-> None]

\* The records an account name stands for, up to case.
MatchesAll(book, n) == {m \in Names : book[m] # None}  \* mutant: any name
Matches(book, n) == {m \in Names : book[m] # None /\ LowerOf[m] = LowerOf[n]}

Unique(book) ==
  \A m, n \in Names : book[m] # None /\ book[n] # None /\ LowerOf[m] = LowerOf[n] => m = n

ASSUME AccountsAssumption ==
  /\ LowerOf \in [Names -> Names]
  /\ FirstFiles \subseteq {None} \cup {book \in Book : Unique(book)}
  /\ None \notin Record \cup Text
  /\ Blank \notin Book /\ Broken \notin Book /\ Blank # Broken

VARIABLES
  file,    \* the text of accounts.json, or None
  tmp,     \* the text of accounts.tmp, or None
  handle,  \* which file a session has open or is about to rename: "tmp",
           \* "file", "lost" (it has no name any more), or "none"
  calls,   \* what each session is doing
  busy,    \* history: another save has gone on since this call began
  shared,  \* history: two saves have had the temporary file at once
  started  \* calls so far

vars == <<file, tmp, handle, calls, busy, shared, started>>

\* book: what the call will save.  key: from authenticate, in change_password.
Call == [pc: {"reload", "open", "write", "replace"},
         op: {"register", "change_password", "delete_account", "set_role",
              "ensure_roles"},
         name: Names \cup {None}, password: Passwords \cup {None},
         key: Keys \cup {None}, role: {"user", "admin", None}, book: Book]

Idle == [pc |-> "idle"]

TypeOK ==
  /\ file \in Text \cup {None}
  /\ tmp \in Text \cup {None}
  /\ handle \in [Sessions -> {"none", "tmp", "file", "lost"}]
  /\ calls \in [Sessions -> Call \cup {Idle}]
  /\ busy \in [Sessions -> BOOLEAN]
  /\ shared \in BOOLEAN
  /\ started \in Nat

Init ==
  /\ file \in FirstFiles
  /\ tmp = None
  /\ handle = [s \in Sessions |-> "none"]
  /\ calls = [s \in Sessions |-> Idle]
  /\ busy = [s \in Sessions |-> FALSE]
  /\ shared = FALSE
  /\ started = 0

-----------------------------------------------------------------------------

\* _load_file: no file, or one that does not parse, is an empty book.
Load == IF file \in Book THEN file ELSE EmptyBook

At(s, pc) == calls[s].pc = pc

Others(s) == Sessions \ {s}

\* The call has loaded the file and knows what it will do.
Loaded(s, call) ==
  /\ calls' = [calls EXCEPT ![s] = call]
  /\ busy' = [busy EXCEPT ![s] = @ \/ \E o \in Others(s) : handle[o] # "none"]
  /\ IF At(s, "idle") THEN started < MaxCalls /\ started' = started + 1 ELSE UNCHANGED started
  /\ UNCHANGED <<file, tmp, handle, shared>>

Saving(op, n, pwd, key, role, book) ==
  [pc |-> "open", op |-> op, name |-> n, password |-> pwd, key |-> key,
   role |-> role, book |-> book]

\* Mutant: names are compared as they are spelled.
TakenExact(book, n) == book[n] # None
Taken(book, n) == Matches(book, n) # {}

\* register; UsernameTaken changes nothing.
Register(s, n, pwd, key, role) ==
  /\ At(s, "idle")
  /\ ~Taken(Load, n)
  /\ Loaded(s, Saving("register", n, pwd, key, role,
                      [Load EXCEPT ![n] = [password |-> pwd, key |-> key, role |-> role]]))

\* authenticate, at the start of change_password and delete_account.  The
\* key it decrypts is kept, the book it loaded is not.
Authenticate(s, op, n, old, new) ==
  /\ At(s, "idle")
  /\ \E m \in Matches(Load, n) :
       /\ Load[m].password = old
       /\ Loaded(s, [Saving(op, n, new, Load[m].key, None, EmptyBook)
                     EXCEPT !.pc = "reload"])

ChangePassword(s, n, old, new) == Authenticate(s, "change_password", n, old, new)

DeleteAccount(s, n, pwd) == Authenticate(s, "delete_account", n, pwd, None)

\* The second load of change_password; a name that is gone by then raises.
ChangeReload(s) ==
  /\ At(s, "reload") /\ calls[s].op = "change_password"
  /\ LET call == calls[s] IN
     \E m \in Matches(Load, call.name) :
       Loaded(s, [call EXCEPT !.pc = "open", !.book =
         [Load EXCEPT ![m].password = call.password, ![m].key = call.key]])

\* The second load of delete_account; it saves even if the name is gone.
DeleteReload(s) ==
  /\ At(s, "reload") /\ calls[s].op = "delete_account"
  /\ LET call == calls[s] IN
     Loaded(s, [call EXCEPT !.pc = "open", !.book =
       [m \in Names |-> IF m \in Matches(Load, call.name) THEN None ELSE Load[m]]])

\* set_role; an unknown name raises.
SetRole(s, n, role) ==
  /\ At(s, "idle")
  /\ Matches(Load, n) # {}
  /\ Loaded(s, Saving("set_role", n, None, None, role,
       [m \in Names |-> IF m \in Matches(Load, n)
                        THEN [Load[m] EXCEPT !.role = role] ELSE Load[m]]))

\* ensure_roles: records without a role get "user"; none, and it does not save.
EnsureRoles(s) ==
  /\ At(s, "idle")
  /\ \E m \in Names : Load[m] # None /\ Load[m].role = None
  /\ Loaded(s, Saving("ensure_roles", None, None, None, None,
       [m \in Names |-> IF Load[m] # None /\ Load[m].role = None
                        THEN [Load[m] EXCEPT !.role = "user"] ELSE Load[m]]))

-----------------------------------------------------------------------------
(***************************************************************************)
(* _save_file                                                              *)
(***************************************************************************)

\* Whoever else is in a call has been overtaken.
Disturb(s) ==
  busy' = [o \in Sessions |-> IF o = s THEN busy[o] ELSE ~At(o, "idle")]

\* Mutant: open without truncating, over what an earlier save left behind.
OpenKeeps(s) ==
  /\ At(s, "open")
  /\ tmp' = IF tmp = None THEN Blank ELSE tmp
  /\ handle' = [handle EXCEPT ![s] = "tmp"]
  /\ calls' = [calls EXCEPT ![s].pc = "write"]
  /\ shared' = (shared \/ \E o \in Others(s) : handle[o] = "tmp")
  /\ Disturb(s)
  /\ UNCHANGED <<file, started>>

\* open(tmp, "w") creates the file or empties it.
Open(s) ==
  /\ At(s, "open")
  /\ tmp' = Blank
  /\ handle' = [handle EXCEPT ![s] = "tmp"]
  /\ calls' = [calls EXCEPT ![s].pc = "write"]
  /\ shared' = (shared \/ \E o \in Others(s) : handle[o] = "tmp")
  /\ Disturb(s)
  /\ UNCHANGED <<file, started>>

Count(book) == Cardinality({n \in Names : book[n] # None})

\* What a file holds after a book is written over its text from the start:
\* a longer text keeps its tail.  Each account adds about as much text.
Over(text, book) ==
  IF text = Blank THEN {book}
  ELSE IF text = Broken THEN {book, Broken}
  ELSE IF Count(text) < Count(book) THEN {book}
  ELSE IF Count(text) = Count(book) THEN {book, Broken}
  ELSE {Broken}

\* json.dump and close, into whatever file the handle is for.
Write(s) ==
  /\ At(s, "write")
  /\ \/ /\ handle[s] = "tmp" /\ tmp' \in Over(tmp, calls[s].book) /\ UNCHANGED file
     \/ /\ handle[s] = "file" /\ file' \in Over(file, calls[s].book) /\ UNCHANGED tmp
     \/ /\ handle[s] = "lost" /\ UNCHANGED <<file, tmp>>
  /\ calls' = [calls EXCEPT ![s].pc = "replace"]
  /\ Disturb(s)
  /\ UNCHANGED <<handle, shared, started>>

End(s) ==
  /\ calls' = [calls EXCEPT ![s] = Idle]
  /\ busy' = [o \in Sessions |-> o # s /\ ~At(o, "idle")]
  /\ UNCHANGED <<shared, started>>

\* os.replace: what is called accounts.tmp is called accounts.json from now on.
Replace(s) ==
  /\ At(s, "replace")
  /\ tmp # None
  /\ file' = tmp /\ tmp' = None
  /\ handle' = [o \in Sessions |->
       IF o = s THEN "none"
       ELSE IF handle[o] = "file" THEN "lost"
       ELSE IF handle[o] = "tmp" THEN "file"
       ELSE handle[o]]
  /\ End(s)

\* The call ends with an exception, or its process is killed: no temporary
\* file to rename, a name that is gone, a full disk.
Abort(s) ==
  /\ ~At(s, "idle")
  /\ handle' = [handle EXCEPT ![s] = "none"]
  /\ End(s)
  /\ UNCHANGED <<file, tmp>>

Save(s) == Open(s) \/ Write(s) \/ Replace(s)

StartCall(s) ==
  \/ \E n \in Names :
       \/ \E pwd \in Passwords, key \in Keys, role \in {"user", "admin"} :
            Register(s, n, pwd, key, role)
       \/ \E old, new \in Passwords : ChangePassword(s, n, old, new)
       \/ \E pwd \in Passwords : DeleteAccount(s, n, pwd)
       \/ \E role \in {"user", "admin"} : SetRole(s, n, role)
  \/ EnsureRoles(s)

Next ==
  \E s \in Sessions :
    StartCall(s) \/ ChangeReload(s) \/ DeleteReload(s) \/ Save(s) \/ Abort(s)

Spec == Init /\ [][Next]_vars

-----------------------------------------------------------------------------
(***************************************************************************)
(* Properties                                                              *)
(***************************************************************************)

(* However registrations race, and whatever they overwrite, no two         *)
(* accounts of the file differ only in case: authenticate and get_role,    *)
(* which take the first match, are never ambiguous.                        *)
NamesUnique == file \in Book => Unique(file)

(* The temporary file protects against crashes: as long as no two saves    *)
(* have had it at once, accounts.json is a whole book at every moment,     *)
(* whatever calls were cut short and whatever they left behind.            *)
WholeUnlessShared == ~shared => file \notin {Blank, Broken}

RecordsOf(book, n) == {book[m] : m \in Matches(book, n)}

SameButFor(old, new, name) ==
  \A n \in Names : LowerOf[n] # LowerOf[name] => RecordsOf(new, n) = RecordsOf(old, n)

\* What the docstring of each function says it does to the accounts.
DoesWhatItSays(call, old, new) ==
  LET before == RecordsOf(old, call.name)
      after == RecordsOf(new, call.name)
      own == SameButFor(old, new, call.name) IN
  \/ /\ call.op = "register" /\ own /\ before = {}
     /\ after = {[password |-> call.password, key |-> call.key, role |-> call.role]}
  \/ /\ call.op = "change_password" /\ own /\ before # {}
     /\ after = {[r EXCEPT !.password = call.password] : r \in before}
  \/ call.op = "delete_account" /\ own /\ after = {}
  \/ /\ call.op = "set_role" /\ own /\ before # {}
     /\ after = {[r EXCEPT !.role = call.role] : r \in before}
  \/ /\ call.op = "ensure_roles"
     /\ \A n \in Names : RecordsOf(new, n) =
          {IF r.role = None THEN [r EXCEPT !.role = "user"] ELSE r : r \in RecordsOf(old, n)}

(* A call that no other save overtakes does to the file what it says, and  *)
(* nothing else, although it loads twice and the crashes of earlier calls  *)
(* have left their temporary file behind.                                  *)
QuietCallIsExact ==
  [][\A s \in Sessions : Replace(s) /\ ~busy[s] =>
       DoesWhatItSays(calls[s], Load, Load')]_vars

(* ui/app.py:775-776 says of the registrations of the demo accounts that   *)
(* accounts that exist are not overwritten: what is in the file when a     *)
(* registration saves is still in it after.                                *)
RegisterKeepsOthers ==
  [][\A s \in Sessions : Replace(s) /\ calls[s].op = "register" =>
       \A n \in Names : Load[n] # None => Load'[n] = Load[n]]_vars

=============================================================================
