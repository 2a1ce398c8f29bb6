-------------------------- MODULE EdgeBoxes_proofs ---------------------------
(***************************************************************************)
(* EDGE_BOX_LOCK keeps what its holders read: for any number of requests,  *)
(* boxes, inverters, keys and codes no key, code or inverter is shared, as *)
(* long as every writer takes the lock.  update-inverter-ip does not.      *)
(***************************************************************************)
EXTENDS EdgeBoxes, TLAPS

EveryWriterLocks == "ip" \notin Served

\* Of a document, the codes issued and the codes used: keys and inverters are
\* of one box each, and a code that is live was issued to one box and not used.
GoodDoc(d, issued, spent) ==
    /\ \A b, c \in Adopted(d) : b # c =>
          /\ d.boxes[b].api \in ApiKeys => d.boxes[b].api # d.boxes[c].api
          /\ d.boxes[b].holds \cap d.boxes[c].holds = {}
          /\ d.boxes[b].code # None => d.boxes[b].code # d.boxes[c].code
    /\ \A b \in Adopted(d) : d.boxes[b].code # None => d.boxes[b].code \in issued \ spent

\* What a coroutine knows between its awaits.
Adopting == {"adopt", "add", "add_write", "issue", "issue_write", "answer"}
Binding == {"bind", "bind_load", "bind_write", "prepare"}
Writing == {"add_write", "issue_write", "remove_write", "bind_write"}
Locked == (Adopting \ {"adopt"}) \cup {"remove_write"} \cup (Binding \ {"bind"})

Knows(r) ==
    /\ at[r] \in Locked => lock = r
    /\ at[r] \in Writing => snap[r] = doc
    /\ at[r] \in Adopting => /\ arg[r].box \in Boxes /\ arg[r].entry \in BoxEntry
                             /\ arg[r].entry.api = None /\ arg[r].entry.code = None
    /\ at[r] \in {"add", "add_write"} => ~HeldByOther(arg[r].box, arg[r].entry.holds)
    /\ at[r] \in {"forget", "remove_write"} => arg[r].box \in Boxes
    /\ at[r] \in Binding => arg[r].api \in ApiKeys /\ arg[r].code \in minted
    /\ at[r] \in {"bind_load", "bind_write", "prepare"} => arg[r].box \in Boxes
    /\ at[r] \in {"bind_load", "bind_write"} =>
          BoxForApiKey(doc, arg[r].api) = {} /\ arg[r].box \in BoxForCode(doc, arg[r].code)

BoxesInv ==
    /\ BoxesTypeOK
    /\ \A r \in Requests : at[r] \notin {"ip", "ip_write"} /\ Knows(r)
    /\ GoodDoc(doc, minted, used)

-----------------------------------------------------------------------------
(* What the operations do to a document. *)

LEMMA NoneApart ==
    /\ None \notin Requests /\ None \notin Boxes /\ None \notin BoxEntry
    /\ None \notin ApiKeys /\ None \notin Codes
  BY EdgeBoxesAssumption, NoneAssumption

\* n is d with one entry put in place.
Put(d, n, b, e) == n \in Doc /\ n.boxes = [d.boxes EXCEPT ![b] = e]

\* An operation puts one entry in place, and _write leaves the boxes alone.
LEMMA Puts ==
    ASSUME NEW d \in Doc, NEW b \in Boxes, NEW e \in BoxEntry \cup {None}
    PROVE  /\ Written([d EXCEPT !.boxes[b] = e]) \in Doc
           /\ Written([d EXCEPT !.boxes[b] = e]).boxes = [d.boxes EXCEPT ![b] = e]
<1>1. d.boxes \in [Boxes -> BoxEntry \cup {None}]
  BY DEF Doc
<1>2. [d.boxes EXCEPT ![b] = e] \in [Boxes -> BoxEntry \cup {None}]
  BY <1>1
<1>3. [d EXCEPT !.boxes[b] = e] = [d EXCEPT !.boxes = [d.boxes EXCEPT ![b] = e]]
  BY DEF Doc
<1> DEFINE f == [d.boxes EXCEPT ![b] = e]
<1> HIDE DEF f
<1>4. f \in [Boxes -> BoxEntry \cup {None}] =>
         /\ [d EXCEPT !.boxes = f] \in Doc /\ [d EXCEPT !.boxes = f].boxes = f
  BY DEF Doc
<1>5. ASSUME NEW x \in Doc PROVE Written(x) \in Doc /\ Written(x).boxes = x.boxes
  BY DEF Written, Doc
<1> QED
  BY <1>2, <1>3, <1>4, <1>5 DEF f

LEMMA IssuedEntry ==
    ASSUME NEW d \in Doc, NEW b \in Adopted(d), NEW c \in Codes
    PROVE  \E e \in BoxEntry :
              /\ e.api = d.boxes[b].api /\ e.code = c
              /\ e.holds = d.boxes[b].holds
              /\ Put(d, Written(IssuePairCode(d, b, c)), b, e)
<1>1. b \in Boxes /\ d.boxes[b] \in BoxEntry
  BY DEF Adopted, Doc
<1> DEFINE e == [d.boxes[b] EXCEPT !.code = c]
<1>2. e \in BoxEntry /\ e.api = d.boxes[b].api /\ e.code = c /\ e.holds = d.boxes[b].holds
  BY <1>1 DEF BoxEntry
<1>3. IssuePairCode(d, b, c) = [d EXCEPT !.boxes[b] = e]
  BY <1>1 DEF IssuePairCode, Doc
<1> HIDE DEF e
<1>4. /\ Written([d EXCEPT !.boxes[b] = e]) \in Doc
      /\ Written([d EXCEPT !.boxes[b] = e]).boxes = [d.boxes EXCEPT ![b] = e]
  BY <1>1, <1>2, Puts
<1>5. Put(d, Written(IssuePairCode(d, b, c)), b, e)
  BY <1>3, <1>4 DEF Put
<1> QED
  BY <1>2, <1>5

LEMMA BoundEntry ==
    ASSUME NEW d \in Doc, NEW b \in Adopted(d), NEW a \in ApiKeys
    PROVE  \E e \in BoxEntry :
              /\ e.api = a /\ e.code = None
              /\ e.holds = d.boxes[b].holds
              /\ Put(d, Written(BindEdgeBox(d, b, a)), b, e)
<1>1. b \in Boxes /\ d.boxes[b] \in BoxEntry
  BY DEF Adopted, Doc
<1> DEFINE e == [d.boxes[b] EXCEPT !.api = a, !.code = None]
<1>2. e \in BoxEntry /\ e.api = a /\ e.code = None /\ e.holds = d.boxes[b].holds
  BY <1>1 DEF BoxEntry
<1>3. BindEdgeBox(d, b, a) = [d EXCEPT !.boxes[b] = e]
  BY <1>1 DEF BindEdgeBox, Doc
<1> HIDE DEF e
<1>4. /\ Written([d EXCEPT !.boxes[b] = e]) \in Doc
      /\ Written([d EXCEPT !.boxes[b] = e]).boxes = [d.boxes EXCEPT ![b] = e]
  BY <1>1, <1>2, Puts
<1>5. Put(d, Written(BindEdgeBox(d, b, a)), b, e)
  BY <1>3, <1>4 DEF Put
<1> QED
  BY <1>2, <1>5

\* What an entry put in place must be for the document to stay good.
LEMMA GoodPut ==
    ASSUME NEW d \in Doc, NEW n \in Doc, NEW b \in Boxes, NEW e \in BoxEntry \cup {None},
           NEW I, NEW U, NEW J, NEW V,
           n.boxes = [d.boxes EXCEPT ![b] = e], GoodDoc(d, I, U), I \subseteq J,
           e # None => /\ e.code # None => e.code \in J \ V
                       /\ \A c \in Adopted(d) \ {b} :
                             /\ e.api \in ApiKeys => e.api # d.boxes[c].api
                             /\ e.holds \cap d.boxes[c].holds = {}
                             /\ e.code # None => e.code # d.boxes[c].code,
           \A c \in Adopted(d) \ {b} : d.boxes[c].code # None => d.boxes[c].code \notin V
    PROVE  GoodDoc(n, J, V) /\ Adopted(n) \subseteq Adopted(d) \cup {b}
<1>1. /\ \A c \in Boxes : n.boxes[c] = IF c = b THEN e ELSE d.boxes[c]
  BY DEF Doc
<1>2. Adopted(n) \subseteq Adopted(d) \cup {b} /\ (b \in Adopted(n) => e # None)
  BY <1>1 DEF Adopted
<1>3. ASSUME NEW x \in Adopted(n), NEW y \in Adopted(n), x # y
      PROVE  /\ n.boxes[x].api \in ApiKeys => n.boxes[x].api # n.boxes[y].api
             /\ n.boxes[x].holds \cap n.boxes[y].holds = {}
             /\ n.boxes[x].code # None => n.boxes[x].code # n.boxes[y].code
  <2>0. x \in Boxes /\ y \in Boxes
    BY DEF Adopted
  <2>1. CASE x = b
    BY <2>0, <2>1, <1>1, <1>2, <1>3
  <2>2. CASE y = b
    BY <2>0, <2>2, <1>1, <1>2, <1>3
  <2>3. CASE x # b /\ y # b
    <3>1. x \in Adopted(d) /\ y \in Adopted(d) /\ n.boxes[x] = d.boxes[x] /\ n.boxes[y] = d.boxes[y]
      BY <2>0, <2>3, <1>1, <1>2
    <3> QED
      BY <3>1, <1>3 DEF GoodDoc
  <2> QED
    BY <2>1, <2>2, <2>3
<1>4. ASSUME NEW x \in Adopted(n), n.boxes[x].code # None PROVE n.boxes[x].code \in J \ V
  <2>0. x \in Boxes
    BY DEF Adopted
  <2>1. CASE x = b
    BY <2>0, <2>1, <1>1, <1>2, <1>4
  <2>2. CASE x # b
    BY <2>0, <2>2, <1>1, <1>2, <1>4 DEF GoodDoc
  <2> QED
    BY <2>1, <2>2
<1> QED
  BY <1>2, <1>3, <1>4 DEF GoodDoc

-----------------------------------------------------------------------------
(* A step of one coroutine. *)

\* What the others know survives a step that changes neither their state, nor
\* a lock they hold, nor the document under it.
LEMMA OneSteps ==
    ASSUME BoxesInv, NEW r \in Requests, BoxesTypeOK',
           \A q \in Requests \ {r} : at'[q] = at[q] /\ arg'[q] = arg[q] /\ snap'[q] = snap[q],
           lock' = lock \/ lock \in {None, r}, doc' = doc \/ lock = r, minted \subseteq minted',
           at'[r] \notin {"ip", "ip_write"}, Knows(r)', GoodDoc(doc', minted', used')
    PROVE  BoxesInv'
<1>1. ASSUME NEW q \in Requests, q # r PROVE at'[q] \notin {"ip", "ip_write"} /\ Knows(q)'
  <2>1. /\ at'[q] = at[q] /\ arg'[q] = arg[q] /\ snap'[q] = snap[q]
        /\ Knows(q) /\ at[q] \notin {"ip", "ip_write"} /\ q # None
    BY <1>1, NoneApart DEF BoxesInv
  <2>2. CASE at[q] \in Locked
    <3>1. lock = q /\ lock' = lock /\ doc' = doc
      BY <2>1, <2>2, <1>1 DEF Knows
    <3> QED
      BY <2>1, <3>1 DEF Knows, HeldByOther
  <2>3. CASE at[q] \notin Locked
    <3>1. at[q] \notin Writing /\ at[q] \notin {"add", "bind_load", "prepare"}
      BY <2>3 DEF Locked, Writing, Adopting, Binding
    <3> QED
      BY <2>1, <2>3, <3>1 DEF Knows, Writing
  <2> QED
    BY <2>2, <2>3
<1> QED
  BY <1>1 DEF BoxesInv

\* An answer ends what the coroutine knows, and lets the lock go if it is its own.
LEMMA AnswerKeeps ==
    ASSUME BoxesInv, NEW r \in Requests, Answer(r), doc' \in Doc, doc' = doc \/ lock = r,
           entry' \in {"loaded", "setup", "read"}, reload' \in BOOLEAN, seen' \subseteq Boxes,
           UNCHANGED codes, prepared' \subseteq Boxes, GoodDoc(doc', minted, used)
    PROVE  BoxesInv'
<1>1. EmptyDoc \in Doc /\ NoArg \in Args
  BY DEF EmptyDoc, Doc, NoArg, Args
<1>2. BoxesTypeOK'
  BY <1>1 DEF BoxesInv, BoxesTypeOK, Answer, codes, Points, LockAfter
<1>3. at'[r] = "idle"
  BY DEF BoxesInv, BoxesTypeOK, Answer
<1>4. Knows(r)'
  BY <1>3 DEF Knows, Locked, Writing, Adopting, Binding
<1>5. \A q \in Requests \ {r} : at'[q] = at[q] /\ arg'[q] = arg[q] /\ snap'[q] = snap[q]
  BY DEF BoxesInv, BoxesTypeOK, Answer
<1>6. lock' = lock \/ lock \in {None, r}
  BY DEF Answer, LockAfter
<1> QED
  BY <1>2, <1>3, <1>4, <1>5, <1>6, OneSteps DEF codes

\* A coroutine that only goes on, without an answer, with nothing but its own
\* state, the lock and the codes' age to change.
LEMMA RequestGoesOn ==
    ASSUME BoxesInv, NEW r \in Requests, NEW point \in Points, NEW a \in Args, NEW d \in Doc,
           point \notin {"ip", "ip_write"}, at' = [at EXCEPT ![r] = point],
           arg' = [arg EXCEPT ![r] = a], snap' = [snap EXCEPT ![r] = d],
           lock' = lock \/ (lock = None /\ lock' = r), UNCHANGED <<doc, setup, codes, prepared>>,
           (/\ point \in Locked => lock' = r
            /\ point \in Writing => d = doc
            /\ point \in Adopting => /\ a.box \in Boxes /\ a.entry \in BoxEntry
                                     /\ a.entry.api = None /\ a.entry.code = None
            /\ point \in {"add", "add_write"} => ~HeldByOther(a.box, a.entry.holds)
            /\ point \in {"forget", "remove_write"} => a.box \in Boxes
            /\ point \in Binding => a.api \in ApiKeys /\ a.code \in minted
            /\ point \in {"bind_load", "bind_write", "prepare"} => a.box \in Boxes
            /\ point \in {"bind_load", "bind_write"} =>
                  BoxForApiKey(doc, a.api) = {} /\ a.box \in BoxForCode(doc, a.code))
    PROVE  BoxesInv'
<1>1. at'[r] = point /\ arg'[r] = a /\ snap'[r] = d
  BY DEF BoxesInv, BoxesTypeOK
<1>2. \A q \in Requests \ {r} : at'[q] = at[q] /\ arg'[q] = arg[q] /\ snap'[q] = snap[q]
  BY DEF BoxesInv, BoxesTypeOK
<1>3. BoxesTypeOK'
  BY DEF BoxesInv, BoxesTypeOK, setup, codes
<1>4. doc' = doc /\ minted' = minted /\ used' = used
  BY DEF codes
<1>5. Knows(r)'
  BY <1>1, <1>4 DEF Knows, HeldByOther
<1> QED
  BY <1>1, <1>2, <1>3, <1>4, <1>5, OneSteps DEF BoxesInv

LEMMA AtTypes ==
    ASSUME BoxesInv, NEW r \in Requests
    PROVE  /\ at[r] \in Points /\ arg[r] \in Args /\ snap[r] \in Doc /\ doc \in Doc
           /\ arg = [arg EXCEPT ![r] = arg[r]] /\ snap = [snap EXCEPT ![r] = snap[r]]
           /\ Knows(r) /\ at[r] \notin {"ip", "ip_write"}
  BY DEF BoxesInv, BoxesTypeOK

\* A request begins with arguments of its kind.
LEMMA Begun ==
    ASSUME BoxesInv, NEW r \in Requests, NEW b \in Boxes, EveryWriterLocks
    PROVE  /\ \A held \in SUBSET Inverters : Adopt(r, b, held) => BoxesInv'
           /\ Forget(r, b) => BoxesInv'
           /\ ~UpdateInverterIp(r, b)
           /\ \A a \in ApiKeys, c \in Codes : Contact(r, a, c) => BoxesInv'
<1>1. ASSUME NEW held \in SUBSET Inverters, Adopt(r, b, held) PROVE BoxesInv'
  <2> DEFINE e == [api |-> None, code |-> None, holds |-> held]
             a == [NoArg EXCEPT !.box = b, !.entry = e]
  <2>1. e \in BoxEntry /\ e.api = None /\ e.code = None
    BY DEF BoxEntry
  <2>2. a \in Args /\ a.box = b /\ a.entry = e
    BY <2>1 DEF NoArg, Args
  <2>3. /\ at' = [at EXCEPT ![r] = "adopt"] /\ arg' = [arg EXCEPT ![r] = a] /\ snap' = snap
        /\ UNCHANGED <<doc, lock, setup, codes, prepared>>
    BY <1>1 DEF Adopt, Begin
  <2> HIDE DEF a, e
  <2> QED
    BY <2>1, <2>2, <2>3, AtTypes, RequestGoesOn DEF Points, Locked, Writing, Adopting, Binding
<1>2. ASSUME Forget(r, b) PROVE BoxesInv'
  <2> DEFINE a == [NoArg EXCEPT !.box = b]
  <2>1. a \in Args /\ a.box = b
    BY DEF NoArg, Args
  <2>2. /\ at' = [at EXCEPT ![r] = "forget"] /\ arg' = [arg EXCEPT ![r] = a] /\ snap' = snap
        /\ UNCHANGED <<doc, lock, setup, codes, prepared>>
    BY <1>2 DEF Forget, Begin
  <2> HIDE DEF a
  <2> QED
    BY <2>1, <2>2, AtTypes, RequestGoesOn DEF Points, Locked, Writing, Adopting, Binding
<1>3. ASSUME NEW k \in ApiKeys, NEW c \in Codes, Contact(r, k, c) PROVE BoxesInv'
  <2> DEFINE a == [NoArg EXCEPT !.api = k, !.code = c]
  <2>1. a \in Args /\ a.api = k /\ a.code = c
    BY DEF NoArg, Args
  <2>2. /\ at' = [at EXCEPT ![r] = "bind"] /\ arg' = [arg EXCEPT ![r] = a] /\ snap' = snap
        /\ UNCHANGED <<doc, lock, setup, codes, prepared>> /\ c \in minted
    BY <1>3 DEF Contact, Begin
  <2> HIDE DEF a
  <2> QED
    BY <2>1, <2>2, AtTypes, RequestGoesOn DEF Points, Locked, Writing, Adopting, Binding
<1>4. ~UpdateInverterIp(r, b)
  BY DEF UpdateInverterIp, EveryWriterLocks
<1> QED
  BY <1>1, <1>2, <1>3, <1>4

\* A keystore operation that loads holds the lock.
LEMMA Loads ==
    ASSUME BoxesInv, NEW r \in Requests
    PROVE  /\ Load(r, "add", "add_write") => BoxesInv'
           /\ Load(r, "issue", "issue_write") => BoxesInv'
           /\ Load(r, "bind_load", "bind_write") => BoxesInv'
           /\ ~Load(r, "ip", "ip_write")
<1>1. PICK a \in Args : a = arg[r]
  BY AtTypes
<1>2. PICK d \in Doc : d = doc
  BY AtTypes
<1>3. ASSUME NEW from \in {"add", "issue", "bind_load"}, NEW to \in Points, Load(r, from, to)
      PROVE  /\ at[r] = from /\ at' = [at EXCEPT ![r] = to]
             /\ arg' = [arg EXCEPT ![r] = a] /\ snap' = [snap EXCEPT ![r] = d]
             /\ lock = r /\ lock' = lock /\ UNCHANGED <<doc, setup, codes, prepared>>
  BY <1>1, <1>2, <1>3, AtTypes DEF Load, Goto, Knows, Locked, Adopting, Binding
<1>4. {"add_write", "issue_write", "bind_write"} \subseteq Points
  BY DEF Points
<1>5. ASSUME Load(r, "add", "add_write") PROVE BoxesInv'
  <2>1. /\ a.box \in Boxes /\ a.entry \in BoxEntry
        /\ a.entry.api = None /\ a.entry.code = None /\ ~HeldByOther(a.box, a.entry.holds)
    BY <1>1, <1>3, <1>4, <1>5, AtTypes DEF Knows, Adopting, Binding
  <2> QED
    BY <2>1, <1>2, <1>3, <1>4, <1>5, RequestGoesOn DEF Writing, Adopting, Binding
<1>6. ASSUME Load(r, "issue", "issue_write") PROVE BoxesInv'
  <2>1. /\ a.box \in Boxes /\ a.entry \in BoxEntry
        /\ a.entry.api = None /\ a.entry.code = None
    BY <1>1, <1>3, <1>4, <1>6, AtTypes DEF Knows, Adopting, Binding
  <2> QED
    BY <2>1, <1>2, <1>3, <1>4, <1>6, RequestGoesOn DEF Writing, Adopting, Binding
<1>7. ASSUME Load(r, "bind_load", "bind_write") PROVE BoxesInv'
  <2>1. /\ a.api \in ApiKeys /\ a.code \in minted /\ a.box \in Boxes
        /\ BoxForApiKey(doc, a.api) = {} /\ a.box \in BoxForCode(doc, a.code)
    BY <1>1, <1>3, <1>4, <1>7, AtTypes DEF Knows, Adopting, Binding
  <2> QED
    BY <2>1, <1>2, <1>3, <1>4, <1>7, RequestGoesOn DEF Writing, Adopting, Binding
<1>8. ~Load(r, "ip", "ip_write")
  BY AtTypes DEF Load
<1> QED
  BY <1>5, <1>6, <1>7, <1>8

LEMMA Adopts ==
    ASSUME BoxesInv, NEW r \in Requests
    PROVE  /\ AdoptChecks(r) => BoxesInv'
           /\ AdoptWrites(r) => BoxesInv'
           /\ \A c \in Codes : AdoptIssues(r, c) => BoxesInv'
           /\ AdoptAnswers(r) => BoxesInv'
<1>1. PICK a \in Args : a = arg[r]
  BY AtTypes
<1>2. ASSUME at[r] \in Adopting
      PROVE  /\ a.box \in Boxes /\ a.entry \in BoxEntry
             /\ a.entry.api = None /\ a.entry.code = None
  BY <1>1, <1>2, AtTypes DEF Knows
<1>3. GoodDoc(doc, minted, used) /\ doc \in Doc
  BY AtTypes DEF BoxesInv
<1>4. ASSUME AdoptChecks(r) PROVE BoxesInv'
  <2>1. CASE HeldByOther(a.box, a.entry.holds)
    BY <1>1, <1>3, <1>4, <2>1, AnswerKeeps DEF AdoptChecks, BoxesInv, BoxesTypeOK, setup, codes
  <2>2. CASE ~HeldByOther(a.box, a.entry.holds)
    <3>1. PICK d \in Doc : d = snap[r]
      BY AtTypes
    <3>2. /\ at[r] \in Adopting /\ lock = None /\ lock' = r
          /\ at' = [at EXCEPT ![r] = "add"] /\ arg' = [arg EXCEPT ![r] = a]
          /\ snap' = [snap EXCEPT ![r] = d] /\ UNCHANGED <<doc, setup, codes, prepared>>
      BY <1>1, <1>4, <2>2, <3>1, AtTypes DEF AdoptChecks, LockFree, Goto, Adopting
    <3>3. "add" \in Points
      BY DEF Points
    <3> QED
      BY <1>2, <2>2, <3>2, <3>3, RequestGoesOn DEF Writing, Binding
  <2> QED
    BY <2>1, <2>2
<1>5. ASSUME AdoptWrites(r) PROVE BoxesInv'
  <2>1. /\ at[r] = "add_write" /\ lock = r /\ snap[r] = doc
        /\ ~HeldByOther(a.box, a.entry.holds) /\ at[r] \in Adopting
    BY <1>1, <1>5, AtTypes DEF AdoptWrites, Knows, Locked, Writing, Adopting
  <2>2. /\ doc' = Written(AddEdgeBox(doc, a.box, a.entry)) /\ at' = [at EXCEPT ![r] = "issue"]
        /\ UNCHANGED <<arg, lock, snap, setup, codes, prepared>>
    BY <1>1, <1>5, <2>1 DEF AdoptWrites, Goto
  <2>3. doc' \in Doc /\ doc'.boxes = [doc.boxes EXCEPT ![a.box] = a.entry]
    BY <1>2, <1>3, <2>1, <2>2, Puts DEF AddEdgeBox
  <2>4. minted' = minted /\ used' = used
    BY <2>2 DEF codes
  <2>5. \A c \in Adopted(doc) \ {a.box} :
           /\ a.entry.holds \cap doc.boxes[c].holds = {}
           /\ doc.boxes[c].code # None => doc.boxes[c].code \notin used
    BY <1>3, <2>1 DEF HeldByOther, GoodDoc
  <2>6. PICK d \in Doc : d = doc'
    BY <2>3
  <2>7. GoodDoc(d, minted, used)
    BY <1>2, <1>3, <2>1, <2>3, <2>5, <2>6, NoneApart, GoodPut
  <2>8. BoxesTypeOK'
    BY <2>2, <2>3 DEF BoxesInv, BoxesTypeOK, setup, codes, Points
  <2>9. at'[r] = "issue" /\ arg'[r] = a /\ lock' = r
    BY <1>1, <2>1, <2>2 DEF BoxesInv, BoxesTypeOK
  <2>10. Knows(r)'
    BY <1>2, <2>1, <2>9 DEF Knows, Writing, Binding
  <2>11. \A q \in Requests \ {r} : at'[q] = at[q] /\ arg'[q] = arg[q] /\ snap'[q] = snap[q]
    BY <2>2 DEF BoxesInv, BoxesTypeOK
  <2> QED
    BY <2>1, <2>4, <2>6, <2>7, <2>8, <2>9, <2>10, <2>11, OneSteps
<1>6. ASSUME NEW c \in Codes, AdoptIssues(r, c) PROVE BoxesInv'
  <2>1. /\ at[r] = "issue_write" /\ lock = r /\ snap[r] = doc /\ at[r] \in Adopting
        /\ c \notin minted /\ c # None
    BY <1>6, AtTypes, NoneApart DEF AdoptIssues, Knows, Locked, Writing, Adopting
  <2>2. CASE a.box \notin Adopted(doc)
    BY <1>1, <1>3, <1>6, <2>1, <2>2, AnswerKeeps
       DEF AdoptIssues, BoxesInv, BoxesTypeOK, setup, codes
  <2>3. CASE a.box \in Adopted(doc)
    <3>1. /\ doc' = Written(IssuePairCode(doc, a.box, c)) /\ minted' = minted \cup {c}
          /\ at' = [at EXCEPT ![r] = "answer"]
          /\ UNCHANGED <<arg, lock, snap, lapsed, used, setup, prepared>>
      BY <1>1, <1>6, <2>1, <2>3 DEF AdoptIssues, Goto
    <3>2. PICK e \in BoxEntry : /\ e.api = doc.boxes[a.box].api /\ e.code = c
                                /\ e.holds = doc.boxes[a.box].holds
                                /\ doc' \in Doc /\ doc'.boxes = [doc.boxes EXCEPT ![a.box] = e]
      <4>1. PICK old \in Doc : old = doc
        BY <1>3
      <4>2. a.box \in Adopted(old)
        BY <2>3, <4>1
      <4>3. PICK e \in BoxEntry :
               /\ e.api = old.boxes[a.box].api /\ e.code = c /\ e.holds = old.boxes[a.box].holds
               /\ Put(old, Written(IssuePairCode(old, a.box, c)), a.box, e)
        BY <4>2, IssuedEntry
      <4>4. /\ e.api = doc.boxes[a.box].api /\ e.code = c /\ e.holds = doc.boxes[a.box].holds
            /\ doc' \in Doc /\ doc'.boxes = [doc.boxes EXCEPT ![a.box] = e]
        BY <3>1, <4>1, <4>3 DEF Put
      <4> QED
        BY <4>4
    <3>3. \A x \in Adopted(doc) \ {a.box} :
             /\ e.api \in ApiKeys => e.api # doc.boxes[x].api
             /\ e.holds \cap doc.boxes[x].holds = {}
             /\ e.code # None => e.code # doc.boxes[x].code
             /\ doc.boxes[x].code # None => doc.boxes[x].code \notin used
      BY <1>3, <2>1, <2>3, <3>2 DEF GoodDoc
    <3>4. c \notin used
      BY <2>1 DEF BoxesInv, BoxesTypeOK
    <3>5. PICK d \in Doc, m \in SUBSET Codes : d = doc' /\ m = minted' /\ m = minted \cup {c}
      BY <3>1, <3>2 DEF BoxesInv, BoxesTypeOK
    <3>6. GoodDoc(d, m, used)
      BY <1>2, <1>3, <2>1, <3>2, <3>3, <3>4, <3>5, GoodPut
    <3>7. BoxesTypeOK'
      BY <3>1, <3>2 DEF BoxesInv, BoxesTypeOK, setup, Points
    <3>8. at'[r] = "answer" /\ arg'[r] = a /\ lock' = r
      BY <1>1, <2>1, <3>1 DEF BoxesInv, BoxesTypeOK
    <3>9. Knows(r)'
      BY <1>2, <2>1, <3>8 DEF Knows, Writing, Binding
    <3>10. \A q \in Requests \ {r} : at'[q] = at[q] /\ arg'[q] = arg[q] /\ snap'[q] = snap[q]
      BY <3>1 DEF BoxesInv, BoxesTypeOK
    <3> QED
      BY <2>1, <3>1, <3>5, <3>6, <3>7, <3>8, <3>9, <3>10, OneSteps
  <2> QED
    BY <2>2, <2>3
<1>7. ASSUME AdoptAnswers(r) PROVE BoxesInv'
  BY <1>3, <1>7, AnswerKeeps DEF AdoptAnswers, ScheduleReload, BoxesInv, BoxesTypeOK, codes
<1> QED
  BY <1>4, <1>5, <1>6, <1>7

LEMMA Forgets ==
    ASSUME BoxesInv, NEW r \in Requests
    PROVE  /\ ForgetLoads(r) => BoxesInv'
           /\ ForgetWrites(r) => BoxesInv'
<1>1. PICK a \in Args : a = arg[r]
  BY AtTypes
<1>2. PICK d \in Doc : d = doc
  BY AtTypes
<1>3. GoodDoc(d, minted, used)
  BY <1>2 DEF BoxesInv
<1>4. ASSUME ForgetLoads(r) PROVE BoxesInv'
  <2>1. a.box \in Boxes
    BY <1>1, <1>4, AtTypes DEF ForgetLoads, Knows
  <2>2. /\ lock = None /\ lock' = r /\ at' = [at EXCEPT ![r] = "remove_write"]
        /\ arg' = [arg EXCEPT ![r] = a] /\ snap' = [snap EXCEPT ![r] = d]
        /\ UNCHANGED <<doc, setup, codes, prepared>>
    BY <1>1, <1>2, <1>4, AtTypes DEF ForgetLoads, LockFree, Goto
  <2>3. "remove_write" \in Points
    BY DEF Points
  <2> QED
    BY <1>2, <2>1, <2>2, <2>3, RequestGoesOn DEF Adopting, Binding
<1>5. ASSUME ForgetWrites(r) PROVE BoxesInv'
  <2>1. at[r] = "remove_write" /\ lock = r /\ snap[r] = d /\ a.box \in Boxes
    BY <1>1, <1>2, <1>5, AtTypes DEF ForgetWrites, Knows, Locked, Writing
  <2>2. CASE RemoveEdgeBoxWrites(d, a.box)
    <3>1. doc' = Written(RemoveEdgeBox(d, a.box)) /\ ScheduleReload /\ Answer(r)
          /\ UNCHANGED <<codes, prepared>>
      BY <1>1, <1>5, <2>1, <2>2 DEF ForgetWrites
    <3>2. doc' \in Doc /\ doc'.boxes = [d.boxes EXCEPT ![a.box] = None]
      BY <2>1, <3>1, Puts DEF RemoveEdgeBox
    <3>3. PICK n \in Doc : n = doc'
      BY <3>2
    <3>4. \A c \in Adopted(d) \ {a.box} : d.boxes[c].code # None => d.boxes[c].code \notin used
      BY <1>3 DEF GoodDoc
    <3>5. GoodDoc(n, minted, used)
      <4>1. PICK e : e = None
        OBVIOUS
      <4>2. n.boxes = [d.boxes EXCEPT ![a.box] = e] /\ e \in BoxEntry \cup {None}
        BY <3>2, <3>3, <4>1
      <4> QED
        <5>1. minted \subseteq minted /\ a.box \in Boxes /\ n \in Doc /\ d \in Doc
          BY <2>1
        <5>2. \A c \in Adopted(d) \ {a.box} : d.boxes[c].code # None => d.boxes[c].code \notin used
          BY <3>4
        <5> QED
          BY <5>1, <5>2, <1>3, <4>1, <4>2, GoodPut, SMTT(30)
    <3> QED
      BY <2>1, <3>1, <3>3, <3>5, AnswerKeeps DEF ScheduleReload, BoxesInv, BoxesTypeOK
  <2>3. CASE ~RemoveEdgeBoxWrites(d, a.box)
    BY <1>1, <1>2, <1>3, <1>5, <2>1, <2>3, AnswerKeeps
       DEF ForgetWrites, BoxesInv, BoxesTypeOK, setup
  <2> QED
    BY <2>2, <2>3
<1> QED
  BY <1>4, <1>5

LEMMA BoxesBind ==
    ASSUME BoxesInv, NEW r \in Requests
    PROVE  /\ BindChecks(r) => BoxesInv'
           /\ BindWrites(r) => BoxesInv'
           /\ Prepare(r) => BoxesInv'
<1>1. PICK a \in Args : a = arg[r]
  BY AtTypes
<1>2. PICK d \in Doc : d = doc
  BY AtTypes
<1>3. GoodDoc(d, minted, used) /\ Knows(r)
  BY <1>2, AtTypes DEF BoxesInv
<1>4. ASSUME BindChecks(r) PROVE BoxesInv'
  <2>0. at[r] = "bind" /\ a.api \in ApiKeys /\ a.code \in minted
    BY <1>1, <1>3, <1>4 DEF BindChecks, Knows, Binding
  <2>1. CASE Answer(r) /\ UNCHANGED <<doc, setup, codes, prepared>>
    BY <1>2, <1>3, <2>1, AnswerKeeps DEF BoxesInv, BoxesTypeOK, setup
  <2>2. ASSUME NEW b \in BoxForCode(doc, arg[r].code), Binds(arg[r].api, arg[r].code),
               LockFree, TakeLock(r), at' = [at EXCEPT ![r] = "bind_load"],
               arg' = [arg EXCEPT ![r].box = b], UNCHANGED <<snap, doc, setup, codes, prepared>>
        PROVE  BoxesInv'
    <3>1. b \in Boxes /\ b \in BoxForCode(doc, a.code) /\ BoxForApiKey(doc, a.api) = {}
      BY <1>1, <2>2 DEF Binds, BoxForCode, Adopted
    <3> DEFINE z == [a EXCEPT !.box = b]
    <3>2. z \in Args /\ z.box = b /\ z.api = a.api /\ z.code = a.code
      BY <3>1 DEF Args
    <3>3. PICK s \in Doc : s = snap[r]
      BY AtTypes
    <3>4. /\ arg' = [arg EXCEPT ![r] = z] /\ snap' = [snap EXCEPT ![r] = s]
          /\ lock = None /\ lock' = r
      BY <1>1, <2>2, <3>2, <3>3, AtTypes DEF LockFree, TakeLock
    <3>5. "bind_load" \in Points
      BY DEF Points
    <3> HIDE DEF z
    <3>6. PICK y \in Args : y = z
      BY <3>2
    <3> QED
      <4>1. /\ at' = [at EXCEPT ![r] = "bind_load"] /\ arg' = [arg EXCEPT ![r] = y]
            /\ snap' = [snap EXCEPT ![r] = s] /\ lock = None /\ lock' = r /\ UNCHANGED <<doc, setup, codes, prepared>>
        BY <2>2, <3>4, <3>6
      <4>2. /\ y.box \in Boxes /\ y.api \in ApiKeys /\ y.code \in minted
            /\ BoxForApiKey(doc, y.api) = {} /\ y.box \in BoxForCode(doc, y.code)
        BY <2>0, <3>1, <3>2, <3>6
      <4>3. "bind_load" \notin Adopting \cup Writing
        BY DEF Adopting, Writing
      <4> QED
        BY <4>1, <4>2, <4>3, <3>5, RequestGoesOn
  <2> QED
    BY <1>4, <2>1, <2>2 DEF BindChecks
<1>5. ASSUME BindWrites(r) PROVE BoxesInv'
  <2>1. /\ at[r] = "bind_write" /\ lock = r /\ snap[r] = d /\ a.box \in Boxes
        /\ a.api \in ApiKeys /\ a.code \in minted
        /\ BoxForApiKey(d, a.api) = {} /\ a.box \in BoxForCode(d, a.code)
    BY <1>1, <1>2, <1>3, <1>5 DEF BindWrites, Knows, Locked, Writing, Binding
  <2>2. a.box \in Adopted(d) /\ d.boxes[a.box].code = a.code /\ a.code # None
    <3>1. minted \subseteq Codes
      BY DEF BoxesInv, BoxesTypeOK
    <3> QED
      BY <2>1, <3>1, NoneApart DEF BoxForCode
  <2>3. /\ doc' = Written(BindEdgeBox(d, a.box, a.api)) /\ used' = used \cup {a.code}
        /\ prepared' = prepared \ {a.box} /\ at' = [at EXCEPT ![r] = "prepare"]
        /\ UNCHANGED <<arg, lock, snap, minted, lapsed, setup>>
    BY <1>1, <1>5, <2>1, <2>2 DEF BindWrites, Goto
  <2>4. PICK e \in BoxEntry : /\ e.api = a.api /\ e.code = None /\ e.holds = d.boxes[a.box].holds
                              /\ Put(d, Written(BindEdgeBox(d, a.box, a.api)), a.box, e)
    BY <2>1, <2>2, BoundEntry
  <2>5. \A c \in Adopted(d) \ {a.box} :
           /\ e.api # d.boxes[c].api
           /\ e.holds \cap d.boxes[c].holds = {}
           /\ d.boxes[c].code # None => d.boxes[c].code \notin used \cup {a.code}
    <3>1. ASSUME NEW c \in Adopted(d) \ {a.box} PROVE d.boxes[c].api # a.api
      BY <2>1 DEF BoxForApiKey
    <3> QED
      BY <1>3, <2>2, <2>4, <3>1 DEF GoodDoc
  <2>6. PICK n \in Doc, u \in SUBSET Codes : n = doc' /\ u = used' /\ u = used \cup {a.code}
                            /\ n.boxes = [d.boxes EXCEPT ![a.box] = e]
    BY <2>1, <2>3, <2>4 DEF Put, BoxesInv, BoxesTypeOK
  <2>7. GoodDoc(n, minted, u)
    BY <1>3, <2>1, <2>4, <2>5, <2>6, NoneApart, GoodPut
  <2>8. BoxesTypeOK'
    BY <2>1, <2>3, <2>6 DEF BoxesInv, BoxesTypeOK, setup, Points
  <2>9. at'[r] = "prepare" /\ arg'[r] = a /\ lock' = r /\ minted' = minted
    BY <1>1, <2>1, <2>3 DEF BoxesInv, BoxesTypeOK
  <2>10. Knows(r)'
    BY <2>1, <2>9 DEF Knows, Writing, Adopting
  <2>11. \A q \in Requests \ {r} : at'[q] = at[q] /\ arg'[q] = arg[q] /\ snap'[q] = snap[q]
    BY <2>3 DEF BoxesInv, BoxesTypeOK
  <2> QED
    BY <2>1, <2>6, <2>7, <2>8, <2>9, <2>10, <2>11, OneSteps
<1>6. ASSUME Prepare(r) PROVE BoxesInv'
  <2>1. a.box \in Boxes
    BY <1>1, <1>3, <1>6 DEF Prepare, Knows
  <2>2. prepared' \subseteq Boxes
    BY <1>1, <1>6, <2>1 DEF Prepare, BoxesInv, BoxesTypeOK
  <2> QED
    BY <1>2, <1>3, <1>6, <2>2, AnswerKeeps DEF Prepare, BoxesInv, BoxesTypeOK, setup
<1> QED
  BY <1>4, <1>5, <1>6

\* Steps of no request: what the requests know does not depend on them.
LEMMA NoRequestSteps ==
    ASSUME BoxesInv
    PROVE  /\ \A c \in Codes : CodeLapses(c) => BoxesInv'
           /\ EntryUpdated \/ Reload \/ UNCHANGED boxesVars => BoxesInv'
<1>1. ASSUME BoxesTypeOK', UNCHANGED <<doc, lock, at, arg, snap, minted, used>> PROVE BoxesInv'
  <2>1. ASSUME NEW r \in Requests PROVE at'[r] \notin {"ip", "ip_write"} /\ Knows(r)'
    BY <1>1, AtTypes DEF Knows, HeldByOther
  <2> QED
    BY <1>1, <2>1 DEF BoxesInv
<1>2. ASSUME NEW c \in Codes, CodeLapses(c) PROVE BoxesInv'
  BY <1>1, <1>2 DEF CodeLapses, setup, BoxesInv, BoxesTypeOK
<1>3. ASSUME EntryUpdated \/ Reload \/ UNCHANGED boxesVars PROVE BoxesInv'
  <2>1. Adopted(doc) \subseteq Boxes
    BY DEF Adopted
  <2>2. UNCHANGED Requestless
    BY <1>3 DEF EntryUpdated, Reload, ReloadStarts, SetupReads, SetupEnds, boxesVars,
                Requestless, codes
  <2>3. entry' \in {"loaded", "setup", "read"} /\ reload' \in BOOLEAN /\ seen' \subseteq Boxes
    BY <1>3, <2>1 DEF EntryUpdated, ScheduleReload, Reload, ReloadStarts, SetupReads, SetupEnds,
                      boxesVars, BoxesInv, BoxesTypeOK
  <2> QED
    BY <1>1, <2>2, <2>3 DEF Requestless, codes, BoxesInv, BoxesTypeOK
<1> QED
  BY <1>2, <1>3

-----------------------------------------------------------------------------
(* The theorems. *)

LEMMA BoxesStart == BoxesInit => BoxesInv
<1> SUFFICES ASSUME BoxesInit PROVE BoxesInv
  OBVIOUS
<1>1. EmptyDoc \in Doc /\ NoArg \in Args
  BY DEF EmptyDoc, Doc, NoArg, Args
<1>2. Adopted(doc) = {}
  BY DEF BoxesInit, EmptyDoc, Adopted
<1>3. BoxesTypeOK
  BY <1>1 DEF BoxesInit, BoxesTypeOK, Points
<1>4. GoodDoc(doc, minted, used)
  BY <1>2 DEF GoodDoc
<1>5. \A r \in Requests : at[r] \notin {"ip", "ip_write"} /\ Knows(r)
  BY DEF BoxesInit, Knows, Locked, Writing, Adopting, Binding
<1> QED
  BY <1>3, <1>4, <1>5 DEF BoxesInv

LEMMA BoxesKeep == EveryWriterLocks /\ BoxesInv /\ [BoxesNext]_boxesVars => BoxesInv'
<1> SUFFICES ASSUME EveryWriterLocks, BoxesInv, [BoxesNext]_boxesVars PROVE BoxesInv'
  OBVIOUS
<1>1. CASE RequestBegins
  BY <1>1, Begun DEF RequestBegins
<1>2. ASSUME NEW r \in Requests, RequestStep(r) PROVE BoxesInv'
  <2>1. ~IpWrites(r)
    BY AtTypes DEF IpWrites
  <2> QED
    BY <1>2, <2>1, Adopts, Loads, Forgets, BoxesBind DEF RequestStep
<1> QED
  BY <1>1, <1>2, NoRequestSteps DEF BoxesNext

\* Every state of EdgeBoxes is well typed, and no api key, no live code and no
\* inverter is of two boxes (NothingShared): what a request checked under
\* EDGE_BOX_LOCK still holds when it writes (edge_api.py:347-381,
\* island_lan.py:840-876).
THEOREM NothingIsShared == EveryWriterLocks => (BoxesSpec => []NothingShared /\ []BoxesTypeOK)
<1> SUFFICES ASSUME EveryWriterLocks PROVE BoxesSpec => []NothingShared /\ []BoxesTypeOK
  OBVIOUS
<1>1. BoxesInv => NothingShared /\ BoxesTypeOK
  BY DEF BoxesInv, GoodDoc, NothingShared, BoxForApiKey
<1> QED
  BY <1>1, BoxesStart, BoxesKeep, PTL DEF BoxesSpec

\* What a write adds to the adopted boxes is the entry it puts in place.
LEMMA ContactKeeps ==
    ASSUME NEW d \in Doc, NEW n, NEW x \in Boxes, NEW e, n.boxes = [d.boxes EXCEPT ![x] = e],
           NEW b \in Adopted(n), b \notin Adopted(d)
    PROVE  b = x /\ e # None
<1>1. \A c \in Boxes : n.boxes[c] = IF c = x THEN e ELSE d.boxes[c]
  BY DEF Doc
<1> QED
  BY <1>1 DEF Adopted

\* A code binds once, and a box that is not adopted comes back by an adoption
\* alone (LockGuards; edge_api.py:264-267, keystore.py:497-507).
THEOREM LockIsEnough == EveryWriterLocks => (BoxesSpec => LockGuards)
<1> SUFFICES ASSUME EveryWriterLocks PROVE BoxesSpec => LockGuards
  OBVIOUS
<1> DEFINE Guards ==
      /\ \A r \in Requests :
            at[r] = "bind_write" /\ at'[r] = "prepare" => arg[r].code \notin used
      /\ \A b \in Adopted(doc)' \ Adopted(doc) :
            \E r \in Requests : at[r] = "add_write" /\ at'[r] = "issue" /\ arg[r].box = b
<1>1. ASSUME BoxesInv, [BoxesNext]_boxesVars PROVE [Guards]_<<at, doc>>
  <2>1. ASSUME NEW r \in Requests, at[r] = "bind_write" PROVE arg[r].code \notin used
    <3>1. arg[r].code \in minted /\ arg[r].box \in BoxForCode(doc, arg[r].code)
      BY <1>1, <2>1, AtTypes DEF Knows, Binding
    <3>2. arg[r].code # None
      BY <1>1, <3>1, NoneApart DEF BoxesInv, BoxesTypeOK
    <3> QED
      BY <1>1, <3>1, <3>2 DEF BoxesInv, GoodDoc, BoxForCode
  <2>2. ASSUME NEW b \in Adopted(doc)', b \notin Adopted(doc)
        PROVE  \E r \in Requests : at[r] = "add_write" /\ at'[r] = "issue" /\ arg[r].box = b
    <3>1. doc' # doc /\ b \in Boxes
      BY <2>2 DEF Adopted
    <3>2. PICK r \in Requests : \/ AdoptWrites(r) \/ (\E c \in Codes : AdoptIssues(r, c))
                                \/ ForgetWrites(r) \/ BindWrites(r)
      <4>1. ~ \E r \in Requests : IpWrites(r)
        BY <1>1, AtTypes DEF IpWrites
      <4> QED
        BY <1>1, <3>1, <4>1 DEF BoxesNext, boxesVars, RequestBegins, Adopt, Forget, Contact,
             UpdateInverterIp, RequestStep, Load, AdoptChecks, AdoptAnswers, ForgetLoads,
             BindChecks, Prepare, CodeLapses, EntryUpdated, Reload, ReloadStarts, SetupReads,
             SetupEnds, Requestless
    <3>3. PICK d \in Doc, a \in Args :
             d = doc /\ a = arg[r] /\ (at[r] \in Writing => snap[r] = d)
      BY <1>1, AtTypes DEF Knows
    <3>4. CASE AdoptWrites(r)
      <4>1. /\ at[r] = "add_write" /\ at'[r] = "issue" /\ snap[r] = d
            /\ doc' = Written(AddEdgeBox(d, a.box, a.entry))
            /\ a.box \in Boxes /\ a.entry \in BoxEntry
        BY <1>1, <3>3, <3>4, AtTypes
           DEF AdoptWrites, Goto, Knows, Writing, Adopting, BoxesInv, BoxesTypeOK
      <4>2. doc'.boxes = [d.boxes EXCEPT ![a.box] = a.entry]
        BY <4>1, Puts DEF AddEdgeBox
      <4>3. PICK n : n = doc' /\ b \in Adopted(n) /\ n.boxes = [d.boxes EXCEPT ![a.box] = a.entry]
        BY <2>2, <4>2
      <4>4. b = a.box
        BY <2>2, <3>3, <4>1, <4>3, ContactKeeps
      <4> QED
        BY <3>3, <4>1, <4>4
    <3>5. CASE \E c \in Codes : AdoptIssues(r, c)
      <4>1. PICK c \in Codes : AdoptIssues(r, c)
        BY <3>5
      <4>2. /\ snap[r] = d /\ a.box \in Adopted(d) /\ a.box \in Boxes
            /\ doc' = Written(IssuePairCode(d, a.box, c))
        BY <3>1, <3>3, <4>1 DEF AdoptIssues, Writing, Adopted
      <4>3. PICK e \in BoxEntry : Put(d, Written(IssuePairCode(d, a.box, c)), a.box, e)
        BY <4>2, IssuedEntry
      <4>4. PICK n : n = doc' /\ b \in Adopted(n) /\ n.boxes = [d.boxes EXCEPT ![a.box] = e]
        BY <2>2, <4>2, <4>3 DEF Put
      <4> QED
        BY <2>2, <3>3, <4>2, <4>4, ContactKeeps
    <3>6. CASE ForgetWrites(r)
      <4>1. /\ snap[r] = d /\ a.box \in Boxes /\ doc' = Written(RemoveEdgeBox(d, a.box))
        BY <1>1, <3>1, <3>3, <3>6, AtTypes DEF ForgetWrites, Writing, Knows
      <4>2. PICK e : e = None
        OBVIOUS
      <4>3. doc'.boxes = [d.boxes EXCEPT ![a.box] = e]
        BY <4>1, <4>2, Puts DEF RemoveEdgeBox
      <4>4. PICK n : n = doc' /\ b \in Adopted(n) /\ n.boxes = [d.boxes EXCEPT ![a.box] = e]
        BY <2>2, <4>3
      <4>5. b \notin Adopted(d)
        BY <2>2, <3>3
      <4>6. e # None
        BY <4>1, <4>4, <4>5, ContactKeeps
      <4> QED
        BY <4>2, <4>6
    <3>7. CASE BindWrites(r)
      <4>1. /\ snap[r] = d /\ a.box \in Adopted(d) /\ a.box \in Boxes /\ a.api \in ApiKeys
            /\ doc' = Written(BindEdgeBox(d, a.box, a.api))
        BY <1>1, <3>1, <3>3, <3>7, AtTypes DEF BindWrites, Knows, Writing, Binding, Adopted
      <4>2. PICK e \in BoxEntry : Put(d, Written(BindEdgeBox(d, a.box, a.api)), a.box, e)
        BY <4>1, BoundEntry
      <4>3. PICK n : n = doc' /\ b \in Adopted(n) /\ n.boxes = [d.boxes EXCEPT ![a.box] = e]
        BY <2>2, <4>1, <4>2 DEF Put
      <4> QED
        BY <2>2, <3>3, <4>1, <4>3, ContactKeeps
    <3> QED
      BY <3>2, <3>4, <3>5, <3>6, <3>7
  <2> QED
    BY <2>1, <2>2
<1> HIDE DEF Guards
<1> QED
  BY <1>1, BoxesStart, BoxesKeep, PTL DEF BoxesSpec, LockGuards, Guards
=============================================================================
