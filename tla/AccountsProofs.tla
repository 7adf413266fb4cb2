--------------------------- MODULE AccountsProofs ---------------------------
(***************************************************************************)
(* The account file keeps its types, its names stay unique, it is whole as *)
(* long as no two saves have shared the temporary file, and a call that is *)
(* not overtaken does what it says: for any sessions, names and passwords. *)
(***************************************************************************)
EXTENDS Accounts, TLAPS

\* Nothing that is saved or about to be saved has two spellings of a name.
UniqueInv ==
  /\ file \in Book => Unique(file)
  /\ tmp \in Book => Unique(tmp)
  /\ \A s \in Sessions : ~At(s, "idle") => Unique(calls[s].book)

\* A session has a handle between open and rename only.
HandleInv ==
  \A s \in Sessions :
    /\ At(s, "idle") \/ At(s, "reload") \/ At(s, "open") => handle[s] = "none"
    /\ At(s, "write") \/ At(s, "replace") => handle[s] # "none"

\* Without sharing, the temporary file is the one saver's.
SoleInv ==
  ~shared =>
    /\ file \notin {Blank, Broken}
    /\ \A s \in Sessions :
         /\ handle[s] \in {"none", "tmp"}
         /\ \A o \in Others(s) : handle[s] = "tmp" => handle[o] = "none"
         /\ At(s, "write") => tmp = Blank
         /\ At(s, "replace") => tmp = calls[s].book

\* What a call that has not been overtaken knows of the file is still so.
QuietInv ==
  \A s \in Sessions : ~busy[s] /\ ~At(s, "idle") =>
    /\ \A o \in Others(s) : handle[o] = "none"
    /\ At(s, "reload") /\ calls[s].op = "change_password" =>
         \E m \in Matches(Load, calls[s].name) : Load[m].key = calls[s].key
    /\ ~At(s, "reload") => DoesWhatItSays(calls[s], Load, calls[s].book)
    /\ At(s, "write") => handle[s] = "tmp" /\ tmp = Blank
    /\ At(s, "replace") => tmp = calls[s].book

\* change_password has a new password and the key it decrypted.
ArgumentsInv ==
  \A s \in Sessions :
    At(s, "reload") /\ calls[s].op = "change_password" =>
      calls[s].password \in Passwords /\ calls[s].key \in Keys

IInv == TypeOK /\ ArgumentsInv /\ UniqueInv /\ HandleInv /\ SoleInv /\ QuietInv

-----------------------------------------------------------------------------
(***************************************************************************)
(* Books                                                                   *)
(***************************************************************************)

(* Whatever accounts.json holds, _load_file returns a book.                *)
LEMMA LoadIsBook == ASSUME TypeOK PROVE Load \in Book
  BY AccountsAssumption DEF TypeOK, Load, EmptyBook, Book

(* ... in which no name has two spellings.                                 *)
LEMMA LoadIsUnique == ASSUME file \in Book => Unique(file) PROVE Unique(Load)
  BY DEF Load, EmptyBook, Unique

(* A book with no more names than one whose names are unique has unique    *)
(* names.                                                                  *)
LEMMA FewerNames ==
  ASSUME NEW old, NEW new, Unique(old), \A n \in Names : new[n] # None => old[n] # None
  PROVE  Unique(new)
  BY DEF Unique

(* A name stands for one record at most.                                   *)
LEMMA OneRecord ==
  ASSUME NEW book, Unique(book), NEW n, NEW m \in Matches(book, n)
  PROVE  /\ Matches(book, n) = {m}
         /\ RecordsOf(book, n) = {book[m]}
  BY DEF Unique, Matches, RecordsOf

(* Books that agree on the spellings of a name hold the same records of it.*)
LEMMA SameRecords ==
  ASSUME NEW old, NEW new, NEW n,
         \A m \in Names : LowerOf[m] = LowerOf[n] => new[m] = old[m]
  PROVE  RecordsOf(new, n) = RecordsOf(old, n)
  BY DEF RecordsOf, Matches

(* What a call says it does depends on the call's arguments only.          *)
LEMMA SaysByArguments ==
  ASSUME NEW call, NEW other, NEW old, NEW new,
         other.op = call.op, other.name = call.name, other.password = call.password,
         other.key = call.key, other.role = call.role,
         DoesWhatItSays(call, old, new)
  PROVE  DoesWhatItSays(other, old, new)
  BY DEF DoesWhatItSays

-----------------------------------------------------------------------------
(***************************************************************************)
(* Calls that load                                                         *)
(***************************************************************************)

\* What a session may know of the file when it has loaded it.
Knows(s, call) ==
  /\ call \in Call
  /\ call.pc \in {"reload", "open"}
  /\ Unique(call.book)
  /\ call.pc = "reload" /\ call.op = "change_password" =>
       /\ call.password \in Passwords /\ call.key \in Keys
       /\ \E m \in Matches(Load, call.name) : Load[m].key = call.key
  /\ call.pc = "open" /\ ~busy[s] => DoesWhatItSays(call, Load, call.book)

(* A session that has loaded the file and knows as much keeps IInv.        *)
LEMMA LoadedKeeps ==
  ASSUME IInv, NEW s \in Sessions, At(s, "idle") \/ At(s, "reload"),
         NEW call, Knows(s, call), Loaded(s, call)
  PROVE  IInv'
<1> USE DEF At, Others
<1>1. /\ calls' = [calls EXCEPT ![s] = call]
      /\ file' = file /\ tmp' = tmp /\ handle' = handle /\ shared' = shared
      /\ busy' = [busy EXCEPT ![s] = @ \/ \E o \in Others(s) : handle[o] # "none"]
  BY DEF Loaded
<1>2. /\ calls \in [Sessions -> Call \cup {Idle}]
      /\ call \in Call /\ call.pc \in {"reload", "open"}
  BY DEF IInv, TypeOK, Knows
<1>3. /\ calls'[s] = call
      /\ \A o \in Sessions : o # s => calls'[o] = calls[o]
  BY <1>1, <1>2
<1>4. started' \in Nat
  BY DEF Loaded, IInv, TypeOK
<1>5. Load' = Load
  BY <1>1 DEF Load
<1>6. TypeOK'
  <2>1. calls' \in [Sessions -> Call \cup {Idle}]
    BY <1>1, <1>2
  <2>2. busy \in [Sessions -> BOOLEAN]
    BY DEF IInv, TypeOK
  <2>3. busy' \in [Sessions -> BOOLEAN]
    BY <1>1, <2>2, Zenon
  <2> QED
    BY <1>1, <1>4, <2>1, <2>3 DEF IInv, TypeOK
<1>7. UniqueInv'
  BY <1>1, <1>3 DEF IInv, UniqueInv, Knows
<1>8. HandleInv'
  BY <1>1, <1>2, <1>3 DEF IInv, HandleInv
<1>9. SoleInv'
  BY <1>1, <1>2, <1>3 DEF IInv, SoleInv
<1>10. QuietInv'
  <2> SUFFICES ASSUME NEW o \in Sessions, ~busy'[o], calls'[o].pc # "idle"
               PROVE  /\ \A p \in Others(o) : handle'[p] = "none"
                      /\ calls'[o].pc = "reload" /\ calls'[o].op = "change_password" =>
                           \E m \in Matches(Load, calls'[o].name) : Load[m].key = calls'[o].key
                      /\ calls'[o].pc # "reload" => DoesWhatItSays(calls'[o], Load, calls'[o].book)
                      /\ calls'[o].pc = "write" => handle'[o] = "tmp" /\ tmp' = Blank
                      /\ calls'[o].pc = "replace" => tmp' = calls'[o].book
    BY <1>5 DEF QuietInv
  <2>1. CASE o = s
    <3>1. busy'[s] = (busy[s] \/ \E p \in Others(s) : handle[p] # "none")
      BY <1>1 DEF IInv, TypeOK
    <3>2. ~busy[s] /\ \A p \in Others(s) : handle[p] = "none"
      BY <2>1, <3>1
    <3> QED
      BY <1>1, <1>2, <1>3, <2>1, <3>2 DEF Knows
  <2>2. CASE o # s
    <3>1. busy'[o] = busy[o] /\ calls'[o] = calls[o]
      BY <1>1, <1>3, <2>2 DEF IInv, TypeOK
    <3> QED
      BY <1>1, <3>1 DEF IInv, QuietInv
  <2> QED
    BY <2>1, <2>2
<1>11. ArgumentsInv'
  BY <1>3 DEF IInv, ArgumentsInv, Knows
<1> QED
  BY <1>6, <1>7, <1>8, <1>9, <1>10, <1>11 DEF IInv

(* register.                                                               *)
LEMMA RegisterKeeps ==
  ASSUME IInv, NEW s \in Sessions, NEW n \in Names, NEW pwd \in Passwords,
         NEW key \in Keys, NEW role \in {"user", "admin"}, Register(s, n, pwd, key, role)
  PROVE  IInv'
<1> DEFINE rec == [password |-> pwd, key |-> key, role |-> role]
           new == [Load EXCEPT ![n] = rec]
           call == Saving("register", n, pwd, key, role, new)
<1>1. Load \in Book /\ Unique(Load)
  BY LoadIsBook, LoadIsUnique DEF IInv, UniqueInv
<1>2. rec \in Record /\ rec # None
  BY AccountsAssumption DEF Record
<1>3. new \in Book /\ new[n] = rec /\ \A m \in Names \ {n} : new[m] = Load[m]
  BY <1>1, <1>2 DEF Book
<1>4. At(s, "idle") /\ Matches(Load, n) = {} /\ Loaded(s, call)
  BY DEF Register, Taken
<1> HIDE DEF rec, new
<1>5. /\ call \in Call
      /\ call.pc = "open" /\ call.op = "register" /\ call.book = new /\ call.name = n
      /\ call.password = pwd /\ call.key = key /\ call.role = role
  BY <1>3 DEF Saving, Call
<1> HIDE DEF call
<1>6. Unique(new)
  BY <1>1, <1>3, <1>4 DEF Unique, Matches
<1>7. RecordsOf(Load, n) = {}
  BY <1>4 DEF RecordsOf
<1>8. RecordsOf(new, n) = {rec}
  <2>1. n \in Matches(new, n)
    BY <1>2, <1>3 DEF Matches
  <2> QED
    BY <1>3, <1>6, <2>1, OneRecord
<1>9. SameButFor(Load, new, n)
  BY <1>3, SameRecords DEF SameButFor
<1>10. DoesWhatItSays(call, Load, new)
  BY <1>5, <1>7, <1>8, <1>9 DEF DoesWhatItSays, rec
<1>11. Knows(s, call)
  BY <1>5, <1>6, <1>10 DEF Knows
<1> QED
  BY <1>4, <1>11, LoadedKeeps

(* The first half of change_password and delete_account.                   *)
LEMMA AuthenticateKeeps ==
  ASSUME IInv, NEW s \in Sessions, NEW op \in {"change_password", "delete_account"},
         NEW n \in Names, NEW old \in Passwords, NEW new \in Passwords \cup {None},
         op = "change_password" => new \in Passwords, Authenticate(s, op, n, old, new)
  PROVE  IInv'
<1>1. PICK m \in Matches(Load, n) :
        Loaded(s, [Saving(op, n, new, Load[m].key, None, EmptyBook) EXCEPT !.pc = "reload"])
  BY DEF Authenticate
<1> DEFINE call == [Saving(op, n, new, Load[m].key, None, EmptyBook) EXCEPT !.pc = "reload"]
<1>2. Load[m].key \in Keys
  BY LoadIsBook DEF Book, Record, Matches, IInv
<1>3. EmptyBook \in Book /\ Unique(EmptyBook)
  BY DEF EmptyBook, Book, Unique
<1>4. /\ call \in Call
      /\ call.pc = "reload" /\ call.book = EmptyBook
      /\ call.name = n /\ call.key = Load[m].key
      /\ call.password = new /\ call.op = op
  BY <1>2, <1>3 DEF Saving, Call
<1>5. Loaded(s, call)
  BY <1>1
<1> HIDE DEF call
<1>6. Knows(s, call)
  BY <1>2, <1>3, <1>4 DEF Knows
<1> QED
  BY <1>5, <1>6, LoadedKeeps DEF Authenticate

(* delete_account, after its second load.                                  *)
LEMMA DeleteKeeps ==
  ASSUME IInv, NEW s \in Sessions, DeleteReload(s)
  PROVE  IInv'
<1> DEFINE was == calls[s]
           new == [m \in Names |-> IF m \in Matches(Load, was.name) THEN None ELSE Load[m]]
           call == [was EXCEPT !.pc = "open", !.book = new]
<1>1. Load \in Book /\ Unique(Load)
  BY LoadIsBook, LoadIsUnique DEF IInv, UniqueInv
<1>2. was \in Call /\ was.op = "delete_account" /\ At(s, "reload") /\ Loaded(s, call)
  BY DEF IInv, TypeOK, DeleteReload, At, Idle
<1>3. /\ new \in Book
      /\ \A m \in Names : new[m] = IF m \in Matches(Load, was.name) THEN None ELSE Load[m]
  BY <1>1 DEF Book
<1> HIDE DEF new, was
<1>4. call \in Call /\ call.pc = "open" /\ call.op = "delete_account"
  BY <1>2, <1>3 DEF Call
<1>5. call.book = new /\ call.name = was.name
  BY <1>2 DEF Call
<1> HIDE DEF call
<1>6. Unique(new)
  BY <1>1, <1>3, FewerNames
<1>7. RecordsOf(new, call.name) = {}
  BY <1>3, <1>5 DEF RecordsOf, Matches
<1>8. SameButFor(Load, new, call.name)
  <2> SUFFICES ASSUME NEW n \in Names, LowerOf[n] # LowerOf[call.name]
               PROVE  RecordsOf(new, n) = RecordsOf(Load, n)
    BY DEF SameButFor
  <2>1. \A m \in Names : LowerOf[m] = LowerOf[n] => new[m] = Load[m]
    BY <1>3, <1>5 DEF Matches
  <2> QED
    BY <2>1, SameRecords
<1>9. DoesWhatItSays(call, Load, new)
  BY <1>4, <1>7, <1>8 DEF DoesWhatItSays
<1>10. Knows(s, call)
  BY <1>4, <1>5, <1>6, <1>9 DEF Knows
<1> QED
  BY <1>2, <1>10, LoadedKeeps

(* change_password, after its second load.                                 *)
LEMMA ChangeKeeps ==
  ASSUME IInv, NEW s \in Sessions, ChangeReload(s)
  PROVE  IInv'
<1> DEFINE was == calls[s]
<1>1. PICK m \in Matches(Load, was.name) :
        Loaded(s, [was EXCEPT !.pc = "open", !.book =
          [Load EXCEPT ![m].password = was.password, ![m].key = was.key]])
  BY DEF ChangeReload
<1> DEFINE new == [Load EXCEPT ![m].password = was.password, ![m].key = was.key]
           call == [was EXCEPT !.pc = "open", !.book = new]
<1>2. Load \in Book /\ Unique(Load)
  BY LoadIsBook, LoadIsUnique DEF IInv, UniqueInv
<1>3. m \in Names /\ Load[m] \in Record /\ LowerOf[m] = LowerOf[was.name]
  BY <1>2 DEF Book, Matches
<1>4. /\ was \in Call /\ was.op = "change_password" /\ At(s, "reload")
      /\ was.password \in Passwords /\ was.key \in Keys
  BY DEF IInv, TypeOK, ArgumentsInv, ChangeReload, At, Idle
<1> HIDE DEF was
<1>5. /\ new[m] \in Record
      /\ new[m] = [[Load[m] EXCEPT !.password = was.password] EXCEPT !.key = was.key]
      /\ \A n \in Names \ {m} : new[n] = Load[n]
  BY <1>2, <1>3, <1>4 DEF Book, Record
<1>6. new \in Book
  BY <1>2, <1>5 DEF Book
<1>7. Loaded(s, call)
  BY <1>1
<1> HIDE DEF new
<1>8. call \in Call /\ call.pc = "open" /\ call.op = "change_password"
  BY <1>4, <1>6 DEF Call
<1>9. call.book = new /\ call.name = was.name /\ call.password = was.password
  BY <1>4 DEF Call
<1> HIDE DEF call
<1>10. Unique(new)
  BY <1>2, <1>3, <1>5, FewerNames, AccountsAssumption DEF Matches
<1>11. ASSUME ~busy[s] PROVE DoesWhatItSays(call, Load, new)
  <2>1. Load[m].key = was.key
    <3>1. PICK k \in Matches(Load, was.name) : Load[k].key = was.key
      BY <1>4, <1>11 DEF IInv, QuietInv, was, At
    <3> QED
      BY <1>1, <1>2, <3>1, OneRecord
  <2>2. new[m] = [Load[m] EXCEPT !.password = call.password]
    BY <1>3, <1>5, <1>9, <2>1 DEF Record
  <2>3. RecordsOf(Load, call.name) = {Load[m]}
    BY <1>1, <1>2, <1>9, OneRecord
  <2>4. RecordsOf(new, call.name) = {new[m]}
    <3>1. m \in Matches(new, call.name)
      BY <1>3, <1>5, <1>9, AccountsAssumption DEF Matches
    <3> QED
      BY <1>10, <3>1, OneRecord
  <2>5. SameButFor(Load, new, call.name)
    BY <1>3, <1>5, <1>9, SameRecords DEF SameButFor
  <2>6. RecordsOf(new, call.name) =
          {[r EXCEPT !.password = call.password] : r \in RecordsOf(Load, call.name)}
    BY <2>2, <2>3, <2>4, Zenon
  <2> QED
    BY <1>8, <2>3, <2>5, <2>6, Zenon DEF DoesWhatItSays
<1>12. Knows(s, call)
  BY <1>8, <1>9, <1>10, <1>11 DEF Knows
<1> QED
  BY <1>4, <1>7, <1>12, LoadedKeeps

(* set_role.                                                               *)
LEMMA SetRoleKeeps ==
  ASSUME IInv, NEW s \in Sessions, NEW n \in Names, NEW role \in {"user", "admin"},
         SetRole(s, n, role)
  PROVE  IInv'
<1> DEFINE new == [m \in Names |-> IF m \in Matches(Load, n)
                                   THEN [Load[m] EXCEPT !.role = role] ELSE Load[m]]
           call == Saving("set_role", n, None, None, role, new)
<1>1. Load \in Book /\ Unique(Load)
  BY LoadIsBook, LoadIsUnique DEF IInv, UniqueInv
<1>2. At(s, "idle") /\ Matches(Load, n) # {} /\ Loaded(s, call)
  BY DEF SetRole
<1>3. PICK m \in Matches(Load, n) : TRUE
  BY <1>2
<1>4. m \in Names /\ Load[m] \in Record /\ LowerOf[m] = LowerOf[n]
  BY <1>1 DEF Book, Matches
<1>5. /\ new[m] = [Load[m] EXCEPT !.role = role]
      /\ \A k \in Names \ {m} : new[k] = Load[k]
  BY <1>1, <1>4, OneRecord
<1>6. [Load[m] EXCEPT !.role = role] \in Record
  BY <1>4 DEF Record
<1>7. new \in Book
  BY <1>1, <1>4, <1>5, <1>6 DEF Book
<1> HIDE DEF new
<1>8. /\ call \in Call
      /\ call.pc = "open" /\ call.op = "set_role" /\ call.book = new /\ call.name = n
      /\ call.role = role
  BY <1>7 DEF Saving, Call
<1> HIDE DEF call
<1>9. Unique(new)
  BY <1>1, <1>4, <1>5, FewerNames, AccountsAssumption
<1>10. RecordsOf(Load, n) = {Load[m]}
  BY <1>1, OneRecord
<1>11. RecordsOf(new, n) = {new[m]}
  <2>1. m \in Matches(new, n)
    BY <1>4, <1>5, <1>6, AccountsAssumption DEF Matches
  <2> QED
    BY <1>9, <2>1, OneRecord
<1>12. SameButFor(Load, new, n)
  BY <1>4, <1>5, SameRecords DEF SameButFor
<1>13. RecordsOf(new, n) = {[r EXCEPT !.role = role] : r \in RecordsOf(Load, n)}
  BY <1>5, <1>10, <1>11, Zenon
<1>14. RecordsOf(Load, n) # {}
  BY <1>10
<1>15. DoesWhatItSays(call, Load, new)
  BY <1>8, <1>12, <1>13, <1>14, Zenon DEF DoesWhatItSays
<1>16. Knows(s, call)
  BY <1>8, <1>9, <1>15 DEF Knows
<1> QED
  BY <1>2, <1>16, LoadedKeeps

(* ensure_roles.                                                           *)
LEMMA EnsureRolesKeeps ==
  ASSUME IInv, NEW s \in Sessions, EnsureRoles(s)
  PROVE  IInv'
<1> DEFINE WithRole(r) == IF r.role = None THEN [r EXCEPT !.role = "user"] ELSE r
           new == [m \in Names |-> IF Load[m] # None /\ Load[m].role = None
                                   THEN [Load[m] EXCEPT !.role = "user"] ELSE Load[m]]
           call == Saving("ensure_roles", None, None, None, None, new)
<1>1. Load \in Book /\ Unique(Load)
  BY LoadIsBook, LoadIsUnique DEF IInv, UniqueInv
<1>2. At(s, "idle") /\ Loaded(s, call)
  BY DEF EnsureRoles
<1>3. \A m \in Names : new[m] = IF Load[m] # None THEN WithRole(Load[m]) ELSE None
  OBVIOUS
<1>4. \A r \in Record : WithRole(r) \in Record
  BY DEF Record
<1>5. new \in Book
  BY <1>1, <1>3, <1>4 DEF Book
<1> HIDE DEF new, WithRole
<1>6. /\ call \in Call
      /\ call.pc = "open" /\ call.op = "ensure_roles" /\ call.book = new
  BY <1>5 DEF Saving, Call
<1> HIDE DEF call
<1>7. \A m \in Names : new[m] # None <=> Load[m] # None
  BY <1>1, <1>3, <1>4, AccountsAssumption DEF Book
<1>8. Unique(new)
  BY <1>1, <1>7, FewerNames
<1>9. ASSUME NEW n \in Names
      PROVE  RecordsOf(new, n) = {WithRole(r) : r \in RecordsOf(Load, n)}
  <2>1. Matches(new, n) = Matches(Load, n)
    BY <1>7 DEF Matches
  <2>2. \A m \in Matches(Load, n) : new[m] = WithRole(Load[m])
    BY <1>3 DEF Matches
  <2> QED
    BY <2>1, <2>2, Zenon DEF RecordsOf
<1>10. DoesWhatItSays(call, Load, new)
  BY <1>6, <1>9, Zenon DEF DoesWhatItSays, WithRole
<1>11. Knows(s, call)
  BY <1>6, <1>8, <1>10 DEF Knows
<1> QED
  BY <1>2, <1>11, LoadedKeeps

-----------------------------------------------------------------------------
(***************************************************************************)
(* _save_file                                                              *)
(***************************************************************************)

(* Moving on to another step of the save changes nothing the call says.    *)
LEMMA NextStep ==
  ASSUME TypeOK, NEW s \in Sessions, ~At(s, "idle"), NEW pc \in {"open", "write", "replace"},
         calls' = [calls EXCEPT ![s].pc = pc]
  PROVE  /\ calls' \in [Sessions -> Call \cup {Idle}]
         /\ calls'[s].pc = pc
         /\ calls'[s].op = calls[s].op /\ calls'[s].name = calls[s].name
         /\ calls'[s].password = calls[s].password /\ calls'[s].key = calls[s].key
         /\ calls'[s].role = calls[s].role /\ calls'[s].book = calls[s].book
         /\ \A o \in Others(s) : calls'[o] = calls[o]
<1>1. calls[s] \in Call
  BY DEF TypeOK, At, Idle
<1>2. [calls[s] EXCEPT !.pc = pc] \in Call
  BY <1>1 DEF Call
<1>3. calls'[s] = [calls[s] EXCEPT !.pc = pc] /\ \A o \in Others(s) : calls'[o] = calls[o]
  BY DEF TypeOK, Others
<1> QED
  BY <1>1, <1>2, <1>3 DEF TypeOK, Call

(* Whoever has not been overtaken by a step of a save took the step, or is *)
(* idle.                                                                   *)
LEMMA Overtakes ==
  ASSUME TypeOK, NEW s \in Sessions, Disturb(s)
  PROVE  /\ busy' \in [Sessions -> BOOLEAN]
         /\ busy'[s] = busy[s]
         /\ \A o \in Others(s) : ~busy'[o] => At(o, "idle")
<1>1. busy \in [Sessions -> BOOLEAN]
  BY DEF TypeOK
<1>2. busy' \in [Sessions -> BOOLEAN]
  BY <1>1, Zenon DEF Disturb, At
<1> QED
  BY <1>2 DEF Disturb, Others

(* The same of the end of a call.                                          *)
LEMMA EndOvertakes ==
  ASSUME TypeOK, NEW s \in Sessions, End(s)
  PROVE  /\ calls' \in [Sessions -> Call \cup {Idle}]
         /\ calls'[s] = Idle
         /\ busy' \in [Sessions -> BOOLEAN]
         /\ \A o \in Others(s) : /\ calls'[o] = calls[o]
                                 /\ ~busy'[o] => At(o, "idle")
<1>1. busy' \in [Sessions -> BOOLEAN]
  <2>1. \A o \in Sessions : (o # s /\ ~At(o, "idle")) \in BOOLEAN
    BY Zenon DEF At
  <2> QED
    BY <2>1, Zenon DEF End
<1> QED
  BY <1>1 DEF End, TypeOK, Others

LEMMA OpenKeepsInv ==
  ASSUME IInv, NEW s \in Sessions, Open(s)
  PROVE  IInv'
<1> USE DEF At, Others
<1>1. /\ calls[s].pc = "open" /\ tmp' = Blank /\ file' = file /\ started' = started
      /\ handle' = [handle EXCEPT ![s] = "tmp"]
      /\ shared' = (shared \/ \E o \in Others(s) : handle[o] = "tmp")
      /\ calls' = [calls EXCEPT ![s].pc = "write"] /\ Disturb(s)
  BY DEF Open
<1>2. /\ calls' \in [Sessions -> Call \cup {Idle}]
      /\ calls'[s].pc = "write" /\ calls'[s].op = calls[s].op
      /\ calls'[s].name = calls[s].name /\ calls'[s].password = calls[s].password
      /\ calls'[s].key = calls[s].key /\ calls'[s].role = calls[s].role
      /\ calls'[s].book = calls[s].book
      /\ \A o \in Others(s) : calls'[o] = calls[o]
  BY <1>1, NextStep DEF IInv
<1>3. /\ busy' \in [Sessions -> BOOLEAN] /\ busy'[s] = busy[s]
      /\ \A o \in Others(s) : ~busy'[o] => calls[o].pc = "idle"
  BY <1>1, Overtakes DEF IInv
<1>4. /\ handle'[s] = "tmp"
      /\ \A o \in Others(s) : handle'[o] = handle[o]
  BY <1>1 DEF IInv, TypeOK
<1>5. Load' = Load
  BY <1>1 DEF Load
<1>6. TypeOK'
  BY <1>1, <1>2, <1>3, AccountsAssumption DEF IInv, TypeOK, Text
<1>7. ArgumentsInv' /\ UniqueInv'
  BY <1>1, <1>2, AccountsAssumption DEF IInv, ArgumentsInv, UniqueInv
<1>8. HandleInv'
  BY <1>1, <1>2, <1>4 DEF IInv, HandleInv
<1>9. SoleInv'
  <2>1. ASSUME ~shared'
        PROVE  /\ file' \notin {Blank, Broken}
               /\ \A o \in Others(s) : handle'[o] = "none"
    <3>1. ~shared /\ \A o \in Others(s) : handle[o] # "tmp"
      BY <1>1, <2>1
    <3> QED
      BY <1>1, <1>4, <3>1 DEF IInv, SoleInv
  <2>2. ASSUME ~shared', NEW o \in Others(s)
        PROVE  /\ calls'[o].pc # "write"
               /\ calls'[o].pc # "replace"
    BY <1>2, <1>4, <2>1, <2>2 DEF IInv, HandleInv
  <2> QED
    BY <1>1, <1>2, <1>4, <2>1, <2>2 DEF SoleInv
<1>10. QuietInv'
  <2>1. ASSUME ~busy'[s]
        PROVE  /\ \A o \in Others(s) : handle'[o] = "none"
               /\ DoesWhatItSays(calls'[s], Load', calls'[s].book)
    <3>1. DoesWhatItSays(calls[s], Load, calls[s].book)
      BY <1>1, <1>3, <2>1 DEF IInv, QuietInv
    <3>2. \A o \in Others(s) : handle[o] = "none"
      BY <1>1, <1>3, <2>1 DEF IInv, QuietInv
    <3>3. DoesWhatItSays(calls'[s], Load, calls[s].book)
      BY <1>2, <3>1, SaysByArguments
    <3> QED
      BY <1>2, <1>4, <1>5, <3>2, <3>3
  <2> QED
    BY <1>1, <1>2, <1>3, <1>4, <2>1 DEF QuietInv
<1> QED
  BY <1>6, <1>7, <1>8, <1>9, <1>10 DEF IInv

LEMMA WriteKeepsInv ==
  ASSUME IInv, NEW s \in Sessions, Write(s)
  PROVE  IInv'
<1> USE DEF At, Others
<1>1. /\ calls[s].pc = "write" /\ handle' = handle /\ shared' = shared /\ started' = started
      /\ calls' = [calls EXCEPT ![s].pc = "replace"] /\ Disturb(s)
  BY DEF Write
<1>2. /\ calls' \in [Sessions -> Call \cup {Idle}]
      /\ calls'[s].pc = "replace" /\ calls'[s].op = calls[s].op
      /\ calls'[s].name = calls[s].name /\ calls'[s].password = calls[s].password
      /\ calls'[s].key = calls[s].key /\ calls'[s].role = calls[s].role
      /\ calls'[s].book = calls[s].book
      /\ \A o \in Others(s) : calls'[o] = calls[o]
  BY <1>1, NextStep DEF IInv
<1>3. /\ busy' \in [Sessions -> BOOLEAN] /\ busy'[s] = busy[s]
      /\ \A o \in Others(s) : ~busy'[o] => calls[o].pc = "idle"
  BY <1>1, Overtakes DEF IInv
<1>4. calls[s] \in Call /\ calls[s].book \in Book /\ Unique(calls[s].book)
  BY <1>1 DEF IInv, TypeOK, UniqueInv, Idle, Call
<1>5. \A text : /\ Over(text, calls[s].book) \subseteq {calls[s].book, Broken}
               /\ Over(Blank, calls[s].book) = {calls[s].book}
  BY DEF Over
<1>6. /\ file' \in {file, calls[s].book, Broken} /\ tmp' \in {tmp, calls[s].book, Broken}
      /\ handle[s] = "tmp" => file' = file /\ tmp' \in Over(tmp, calls[s].book)
  BY <1>5 DEF Write
<1>7. TypeOK'
  BY <1>1, <1>2, <1>3, <1>4, <1>6 DEF IInv, TypeOK, Text
<1>8. ArgumentsInv' /\ UniqueInv'
  BY <1>1, <1>2, <1>4, <1>6, AccountsAssumption DEF IInv, ArgumentsInv, UniqueInv
<1>9. HandleInv'
  BY <1>1, <1>2 DEF IInv, HandleInv
<1>10. SoleInv'
  <2>1. ASSUME ~shared
        PROVE  /\ handle[s] = "tmp" /\ \A o \in Others(s) : handle[o] = "none"
               /\ file' = file /\ tmp' = calls[s].book
    BY <1>1, <1>5, <1>6, <2>1 DEF IInv, HandleInv, SoleInv
  <2> QED
    BY <1>1, <1>2, <2>1 DEF IInv, HandleInv, SoleInv
<1>11. QuietInv'
  <2>1. ASSUME ~busy'[s]
        PROVE  /\ \A o \in Others(s) : handle'[o] = "none"
               /\ DoesWhatItSays(calls'[s], Load', calls'[s].book)
               /\ tmp' = calls'[s].book
    <3>1. /\ DoesWhatItSays(calls[s], Load, calls[s].book)
          /\ handle[s] = "tmp" /\ tmp = Blank /\ \A o \in Others(s) : handle[o] = "none"
      BY <1>1, <1>3, <2>1 DEF IInv, QuietInv
    <3>2. Load' = Load
      BY <1>6, <3>1 DEF Load
    <3> QED
      BY <1>1, <1>2, <1>5, <1>6, <3>1, <3>2, SaysByArguments
  <2> QED
    BY <1>1, <1>2, <1>3, <2>1 DEF QuietInv
<1> QED
  BY <1>7, <1>8, <1>9, <1>10, <1>11 DEF IInv

LEMMA ReplaceKeepsInv ==
  ASSUME IInv, NEW s \in Sessions, Replace(s)
  PROVE  IInv'
<1> USE DEF At, Others
<1>1. /\ calls[s].pc = "replace" /\ tmp # None /\ file' = tmp /\ tmp' = None
      /\ shared' = shared /\ started' = started /\ End(s)
  BY DEF Replace, End
<1>2. /\ calls' \in [Sessions -> Call \cup {Idle}] /\ calls'[s] = Idle
      /\ busy' \in [Sessions -> BOOLEAN]
      /\ \A o \in Others(s) : calls'[o] = calls[o] /\ (~busy'[o] => calls[o].pc = "idle")
  BY <1>1, EndOvertakes DEF IInv
<1>3. handle' = [o \in Sessions |->
        IF o = s THEN "none"
        ELSE IF handle[o] = "file" THEN "lost"
        ELSE IF handle[o] = "tmp" THEN "file"
        ELSE handle[o]]
  BY DEF Replace
<1>4. /\ handle' \in [Sessions -> {"none", "tmp", "file", "lost"}]
      /\ handle'[s] = "none"
      /\ \A o \in Others(s) : handle'[o] = "none" <=> handle[o] = "none"
  BY <1>3 DEF IInv, TypeOK
<1>5. Idle.pc = "idle"
  BY DEF Idle
<1>6. TypeOK'
  BY <1>1, <1>2, <1>4 DEF IInv, TypeOK
<1>7. ArgumentsInv' /\ UniqueInv'
  BY <1>1, <1>2, <1>5, AccountsAssumption DEF IInv, ArgumentsInv, UniqueInv, Text
<1>8. HandleInv'
  BY <1>2, <1>4, <1>5 DEF IInv, HandleInv
<1>9. SoleInv'
  <2>1. ASSUME ~shared
        PROVE  tmp = calls[s].book /\ \A o \in Sessions : handle'[o] = "none"
    BY <1>1, <1>4, <2>1 DEF IInv, HandleInv, SoleInv
  <2>2. calls[s].book \in Book
    BY <1>1 DEF IInv, TypeOK, Idle, Call
  <2> QED
    BY <1>1, <1>2, <1>5, <1>8, <2>1, <2>2, AccountsAssumption DEF SoleInv, HandleInv
<1>10. QuietInv'
  BY <1>2, <1>5 DEF QuietInv
<1> QED
  BY <1>6, <1>7, <1>8, <1>9, <1>10 DEF IInv

LEMMA AbortKeepsInv ==
  ASSUME IInv, NEW s \in Sessions, Abort(s)
  PROVE  IInv'
<1> USE DEF At, Others
<1>1. /\ handle' = [handle EXCEPT ![s] = "none"] /\ file' = file /\ tmp' = tmp
      /\ shared' = shared /\ started' = started /\ End(s)
  BY DEF Abort, End
<1>2. /\ calls' \in [Sessions -> Call \cup {Idle}] /\ calls'[s] = Idle
      /\ busy' \in [Sessions -> BOOLEAN]
      /\ \A o \in Others(s) : calls'[o] = calls[o] /\ (~busy'[o] => calls[o].pc = "idle")
  BY <1>1, EndOvertakes DEF IInv
<1>3. Idle.pc = "idle"
  BY DEF Idle
<1>4. handle'[s] = "none" /\ \A o \in Others(s) : handle'[o] = handle[o]
  BY <1>1 DEF IInv, TypeOK
<1>5. TypeOK'
  BY <1>1, <1>2 DEF IInv, TypeOK
<1>6. ArgumentsInv' /\ UniqueInv' /\ HandleInv'
  BY <1>1, <1>2, <1>3, <1>4 DEF IInv, ArgumentsInv, UniqueInv, HandleInv
<1>7. SoleInv'
  BY <1>1, <1>2, <1>3, <1>4 DEF IInv, SoleInv
<1>8. QuietInv'
  BY <1>2, <1>3 DEF QuietInv
<1> QED
  BY <1>5, <1>6, <1>7, <1>8 DEF IInv

-----------------------------------------------------------------------------
(***************************************************************************)
(* The theorems                                                            *)
(***************************************************************************)

LEMMA InitIInv == ASSUME Init PROVE IInv
<1> USE DEF Init, At, Idle
<1>1. TypeOK
  BY AccountsAssumption DEF TypeOK, Text
<1>2. UniqueInv
  BY AccountsAssumption DEF UniqueInv, Text
<1>3. ArgumentsInv /\ HandleInv /\ QuietInv
  BY DEF ArgumentsInv, HandleInv, QuietInv
<1>4. SoleInv
  BY AccountsAssumption DEF SoleInv, Text
<1> QED
  BY <1>1, <1>2, <1>3, <1>4 DEF IInv

LEMMA NextIInv == ASSUME IInv, [Next]_vars PROVE IInv'
<1>1. CASE UNCHANGED vars
  <2>1. /\ file' = file /\ tmp' = tmp /\ handle' = handle /\ calls' = calls
        /\ busy' = busy /\ shared' = shared /\ started' = started
    BY <1>1 DEF vars
  <2>2. TypeOK' /\ ArgumentsInv' /\ UniqueInv' /\ HandleInv' /\ SoleInv'
    BY <2>1 DEF IInv, TypeOK, ArgumentsInv, UniqueInv, HandleInv, SoleInv, At
  <2>3. QuietInv'
    BY <2>1 DEF IInv, QuietInv, At, Load
  <2> QED
    BY <2>2, <2>3 DEF IInv
<1>2. CASE Next
  <2> SUFFICES ASSUME NEW s \in Sessions,
                      StartCall(s) \/ ChangeReload(s) \/ DeleteReload(s) \/ Save(s) \/ Abort(s)
               PROVE  IInv'
    BY <1>2 DEF Next
  <2>1. CASE StartCall(s)
    BY <2>1, RegisterKeeps, AuthenticateKeeps, SetRoleKeeps, EnsureRolesKeeps
       DEF StartCall, ChangePassword, DeleteAccount
  <2>2. CASE ChangeReload(s) \/ DeleteReload(s)
    BY <2>2, ChangeKeeps, DeleteKeeps
  <2>3. CASE Save(s)
    BY <2>3, OpenKeepsInv, WriteKeepsInv, ReplaceKeepsInv DEF Save
  <2>4. CASE Abort(s)
    BY <2>4, AbortKeepsInv
  <2> QED
    BY <2>1, <2>2, <2>3, <2>4
<1> QED
  BY <1>1, <1>2

(* IInv is inductive.                                                      *)
THEOREM AccountsInvariant == Spec => []IInv
  BY InitIInv, NextIInv, PTL DEF Spec

(* The account file, the temporary file and the calls keep their types.    *)
THEOREM AccountsTypes == Spec => []TypeOK
<1>1. IInv => TypeOK
  BY DEF IInv
<1> QED
  BY <1>1, AccountsInvariant, PTL

(* No two accounts of the file differ only in case, however registrations  *)
(* race and whatever they overwrite.                                       *)
THEOREM AccountNamesUnique == Spec => []NamesUnique
<1>1. IInv => NamesUnique
  BY DEF IInv, UniqueInv, NamesUnique
<1> QED
  BY <1>1, AccountsInvariant, PTL

(* As long as no two saves have had the temporary file at once,            *)
(* accounts.json is a whole book, whatever calls were cut short.           *)
THEOREM AccountFileWhole == Spec => []WholeUnlessShared
<1>1. IInv => WholeUnlessShared
  BY DEF IInv, SoleInv, WholeUnlessShared
<1> QED
  BY <1>1, AccountsInvariant, PTL

(* A call that no other save overtakes does to the file what it says.      *)
THEOREM QuietCallsExact == Spec => QuietCallIsExact
<1>1. ASSUME IInv, [Next]_vars
      PROVE  [\A s \in Sessions : Replace(s) /\ ~busy[s] =>
                DoesWhatItSays(calls[s], Load, Load')]_vars
  <2> SUFFICES ASSUME NEW s \in Sessions, Replace(s), ~busy[s]
               PROVE  DoesWhatItSays(calls[s], Load, Load')
    OBVIOUS
  <2>1. /\ DoesWhatItSays(calls[s], Load, calls[s].book)
        /\ tmp = calls[s].book
    BY <1>1 DEF IInv, QuietInv, Replace, At
  <2>2. calls[s].book \in Book
    BY <1>1 DEF IInv, TypeOK, Replace, At, Idle, Call
  <2>3. Load' = calls[s].book
    BY <2>1, <2>2 DEF Replace, Load
  <2> QED
    BY <2>1, <2>3
<1> QED
  BY <1>1, AccountsInvariant, PTL DEF Spec, QuietCallIsExact

=============================================================================
