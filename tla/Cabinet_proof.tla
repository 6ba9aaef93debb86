---------------------------- MODULE Cabinet_proof ----------------------------
(***************************************************************************)
(* The three promises of the cabinet's pages, for any number of documents, *)
(* of functions running at once, of clicks and of upsets: nothing is left  *)
(* busy, what is shown is fresh, and a held button is not refused.         *)
(*                                                                         *)
(* The argument has two halves.  What the proofs need of a page is stated  *)
(* once (PageFits: what each button's sequel must come to, given what its  *)
(* handlers write) and shown of the pages one by one (PagesFit).  The      *)
(* steps are then treated for any page that fits.  Each invariant says     *)
(* that what is amiss on the screen has a chain under way that will put it *)
(* right: it gives a busy flag back (FlagsInv), or comes to a load or a    *)
(* reading of the document, or carries the answer that is written in its   *)
(* place (FreshInv).  On the pages whose buttons share one flag the chain  *)
(* that puts things right holds the flag (HeldInv), so that a button that  *)
(* is enabled is offered on what the server has.                           *)
(*                                                                         *)
(* A chain that is answered either puts things right with its answer or is *)
(* a stage nearer to what does (FollowsMends); an answer of the server     *)
(* makes a row untrue only for the chain it goes to (ServedDocs,           *)
(* ExecutedMends); a reading that marks a document leaves its row behind   *)
(* until the answer is shown (Marking).                                    *)
(***************************************************************************)
EXTENDS Cabinet, TLAPS

USE CabinetAssumption

(* The steps of a stage that send a request, and all of them.              *)
Sends == {"load", "detail", "reread", "wait", "first"}
Steps == Sends \cup {"free", "close", "patch", "leave"}

(* A chain goes on after the answer to a request of this stage, whatever   *)
(* the list shows; it comes to a stage with one of the steps S; it begins  *)
(* with step x.                                                            *)
Passes(stage) == stage \cap Sends # {} /\ "first" \notin stage
Comes(then, S) ==
  \E i \in 1..Len(then) :
    then[i] \cap S # {} /\ \A j \in 1..(i - 1) : Passes(then[j])
Begins(then, x) == then # << >> /\ x \in Head(then)

(* The list of a page shows every document it can read.                    *)
ShowsAll(q) == \A f \in q.filters : q.states \ {"absent", "gone"} \subseteq f

(* Stages that page q can have: one request at a time, and a document is   *)
(* changed on the screen by the answer to a button only.                   *)
StageFits(q, stage) ==
  /\ "load" \in stage => stage \cap Sends = {"load"} /\ ~q.guarded
  /\ "detail" \in stage => stage \cap Sends = {"detail"} /\ (q.layer = "none" => ShowsAll(q))
  /\ "first" \in stage => stage \cap Sends = {"first"} /\ q.layer # "none" /\ ~q.sticky
  /\ "reread" \in stage => q.sticky
  /\ ~({"patch", "leave"} \subseteq stage)

ThenFits(q, then) ==
  /\ \A i \in 1..Len(then) : StageFits(q, then[i])
  /\ \A i \in 2..Len(then) : then[i] \cap {"patch", "leave"} = {}

(* A flag is given back when the chain ends.                               *)
FreesLast(then) ==
  \A i \in 1..Len(then) : "free" \in then[i] => then[i] \cap Sends = {}

(* The steps that give flag b back.                                        *)
FreedBy(b) == IF b = "drawer" THEN {"free", "close"} ELSE {"free"}

(* What the server writes for an operation on a page, and whether it       *)
(* changes anything.                                                       *)
Writes(q, op) == {m \in Handlers : m[1] = op /\ m[3] \in q.states}
Idles(q, op) == \A m \in Writes(q, op) : m[2] = m[3]
Accepts(q, op, s) ==
  op \notin DeniedElsewhere /\ \E m \in Writes(q, op) : m[2] = s

ActFits(q, a) ==
  /\ a.held \in {"none", "page", "own", "row", "drawer"}
  /\ a.op \notin {"drawer", "page"} /\ (a.held = "drawer" => a.at = "drawer")
  /\ a.then \in Seq(SUBSET Steps) /\ ThenFits(q, a.then)
  /\ a.held # "none" => Comes(a.then, FreedBy(a.held))
  /\ \/ Comes(a.then, {"load"}) \/ Begins(a.then, "leave") \/ Idles(q, a.op)
     \/ Begins(a.then, "patch") /\ q.layer = "none"
  /\ q.row = "fetch" =>
       \/ Comes(a.then, {"close"}) \/ Idles(q, a.op)
       \/ Comes(a.then, {"detail"}) /\ ~q.sticky
       \/ Begins(a.then, "patch")
  /\ Begins(a.then, "patch") /\ q.layer = "none" =>
       \A m \in Writes(q, a.op), f \in q.filters : m[3] \in f
  /\ Begins(a.then, "leave") =>
       \A m \in Writes(q, a.op), f \in q.filters : m[3] \notin f

MarksFit(q) ==
  /\ ~q.sticky /\ {"generated", "sent", "viewed"} \subseteq q.states
  /\ \A f \in q.filters : {"generated", "sent", "viewed"} \subseteq f
  /\ \A a \in q.acts :
       /\ ~Begins(a.then, "patch") /\ ~Begins(a.then, "leave")
       /\ a.on \cap {"generated", "sent"} # {} => "viewed" \in a.on

(* The pages HeldButtonsAreAccepted is about.                              *)
IsCareful(q) ==
  /\ \A a \in q.acts : a.held = "page" /\ a.then # LoadAndFree
  /\ q.row \in {"none", "fetch"}

CarefulFits(q) ==
  \A a \in q.acts :
    /\ FreesLast(a.then) /\ "none" \notin a.on
    /\ \A s \in a.on : Accepts(q, a.op, s)
    /\ a.at = "form" => Accepts(q, a.op, "absent")
    /\ q.row = "none" => a.at # "drawer"

PageFits(q) ==
  /\ q.first \in q.filters /\ q.row \in {"none", "fetch", "row", "both"}
  /\ q.mount \in {<< >>, <<{"first"}>>}
  /\ q.mount # << >> \/ q.row \in {"fetch", "both"} => q.layer # "none"
  /\ \A a \in q.acts : ActFits(q, a)
  /\ q.marks => MarksFit(q)
  /\ q.sticky => /\ q.row = "fetch" /\ ~q.clears
                 /\ q.mount = << >> /\ \A a \in q.acts : ~Begins(a.then, "patch")
  /\ IsCareful(q) => CarefulFits(q)

-----------------------------------------------------------------------------
(* What a chain comes to is in its next stage or comes after it.           *)
LEMMA ComesNext ==
  ASSUME NEW S, NEW then \in Seq(SUBSET Steps), Comes(then, S)
  PROVE  /\ then # << >>
         /\ Head(then) \cap S = {} => Passes(Head(then)) /\ Comes(Tail(then), S)
<1>1. PICK i \in 1..Len(then) : /\ then[i] \cap S # {}
                                /\ \A j \in 1..(i - 1) : Passes(then[j])
  BY DEF Comes
<1>2. then # << >> /\ Head(then) = then[1]
  BY <1>1
<1>3. ASSUME then[1] \cap S = {}
      PROVE  Passes(then[1]) /\ Comes(Tail(then), S)
  <2>1. i # 1
    BY <1>1, <1>3
  <2>2. i - 1 \in 1..Len(Tail(then)) /\ Tail(then)[i - 1] \cap S # {}
    BY <1>1, <2>1
  <2>3. \A j \in 1..((i - 1) - 1) : Passes(Tail(then)[j])
    BY <1>1, <2>1
  <2>4. Passes(then[1])
    BY <1>1, <2>1
  <2>5. QED
    BY <2>2, <2>3, <2>4 DEF Comes
<1>4. QED
  BY <1>2, <1>3

(* The sequences of stages that follow a button: where they come to, with  *)
(* which step they begin, and what a page that uses them has to be.        *)
LEMMA SequelNothing ==
  /\ << >> \in Seq(SUBSET Steps)
  /\ ~Begins(<< >>, "patch")
  /\ ~Begins(<< >>, "leave")
  /\ FreesLast(<< >>)
  /\ \A q : ThenFits(q, << >>)
BY DEF Steps, Sends, Comes, Passes, Begins, FreesLast, ThenFits, StageFits

LEMMA SequelLoadOnly ==
  /\ LoadOnly \in Seq(SUBSET Steps)
  /\ Comes(LoadOnly, {"load"})
  /\ ~Begins(LoadOnly, "patch")
  /\ ~Begins(LoadOnly, "leave")
  /\ FreesLast(LoadOnly)
  /\ \A q : ~q.guarded => ThenFits(q, LoadOnly)
BY DEF LoadOnly, Steps, Sends, Comes, Passes, Begins, FreesLast, ThenFits, StageFits

LEMMA SequelJustFree ==
  /\ JustFree \in Seq(SUBSET Steps)
  /\ Comes(JustFree, {"free"})
  /\ Comes(JustFree, {"free", "close"})
  /\ ~Begins(JustFree, "patch")
  /\ ~Begins(JustFree, "leave")
  /\ FreesLast(JustFree)
  /\ \A q : ThenFits(q, JustFree)
BY DEF JustFree, Steps, Sends, Comes, Passes, Begins, FreesLast, ThenFits, StageFits

LEMMA SequelLoadAndFree ==
  /\ LoadAndFree \in Seq(SUBSET Steps)
  /\ Comes(LoadAndFree, {"free"})
  /\ Comes(LoadAndFree, {"free", "close"})
  /\ Comes(LoadAndFree, {"load"})
  /\ ~Begins(LoadAndFree, "patch")
  /\ ~Begins(LoadAndFree, "leave")
  /\ \A q : ~q.guarded => ThenFits(q, LoadAndFree)
BY DEF LoadAndFree, Steps, Sends, Comes, Passes, Begins, FreesLast, ThenFits, StageFits

LEMMA SequelLoadThenFree ==
  /\ LoadThenFree \in Seq(SUBSET Steps)
  /\ Comes(LoadThenFree, {"free"})
  /\ Comes(LoadThenFree, {"free", "close"})
  /\ Comes(LoadThenFree, {"load"})
  /\ ~Begins(LoadThenFree, "patch")
  /\ ~Begins(LoadThenFree, "leave")
  /\ FreesLast(LoadThenFree)
  /\ \A q : ~q.guarded => ThenFits(q, LoadThenFree)
BY DEF LoadThenFree, Steps, Sends, Comes, Passes, Begins, FreesLast, ThenFits, StageFits

LEMMA SequelPatchAndFree ==
  /\ PatchAndFree \in Seq(SUBSET Steps)
  /\ Comes(PatchAndFree, {"free"})
  /\ Comes(PatchAndFree, {"free", "close"})
  /\ Begins(PatchAndFree, "patch")
  /\ ~Begins(PatchAndFree, "leave")
  /\ FreesLast(PatchAndFree)
  /\ \A q : ThenFits(q, PatchAndFree)
BY DEF PatchAndFree, Steps, Sends, Comes, Passes, Begins, FreesLast, ThenFits, StageFits

LEMMA SequelCloseLoadFree ==
  /\ CloseLoadFree \in Seq(SUBSET Steps)
  /\ Comes(CloseLoadFree, {"free"})
  /\ Comes(CloseLoadFree, {"free", "close"})
  /\ Comes(CloseLoadFree, {"close"})
  /\ Comes(CloseLoadFree, {"load"})
  /\ ~Begins(CloseLoadFree, "patch")
  /\ ~Begins(CloseLoadFree, "leave")
  /\ FreesLast(CloseLoadFree)
  /\ \A q : ~q.guarded => ThenFits(q, CloseLoadFree)
BY DEF CloseLoadFree, Steps, Sends, Comes, Passes, Begins, FreesLast, ThenFits, StageFits

LEMMA SequelRereadLoadFree ==
  /\ RereadLoadFree \in Seq(SUBSET Steps)
  /\ Comes(RereadLoadFree, {"free"})
  /\ Comes(RereadLoadFree, {"free", "close"})
  /\ Comes(RereadLoadFree, {"load"})
  /\ Comes(RereadLoadFree, {"detail"})
  /\ ~Begins(RereadLoadFree, "patch")
  /\ ~Begins(RereadLoadFree, "leave")
  /\ FreesLast(RereadLoadFree)
  /\ \A q : ~q.guarded /\ (q.layer = "none" => ShowsAll(q)) => ThenFits(q, RereadLoadFree)
<1>1. /\ RereadLoadFree \in Seq(SUBSET Steps)
      /\ ~Begins(RereadLoadFree, "patch")
      /\ ~Begins(RereadLoadFree, "leave")
      /\ FreesLast(RereadLoadFree)
  BY DEF RereadLoadFree, Steps, Sends, Begins, FreesLast
<1>2. /\ Comes(RereadLoadFree, {"free"})
      /\ Comes(RereadLoadFree, {"free", "close"})
      /\ Comes(RereadLoadFree, {"load"})
      /\ Comes(RereadLoadFree, {"detail"})
  <2>1. Comes(RereadLoadFree, {"free"})
    BY DEF RereadLoadFree, Sends, Comes, Passes
  <2>2. Comes(RereadLoadFree, {"free", "close"})
    BY DEF RereadLoadFree, Sends, Comes, Passes
  <2>3. Comes(RereadLoadFree, {"load"})
    BY DEF RereadLoadFree, Sends, Comes, Passes
  <2>4. Comes(RereadLoadFree, {"detail"})
    BY DEF RereadLoadFree, Sends, Comes, Passes
  <2>5. QED
    BY <2>1, <2>2, <2>3, <2>4
<1>3. ASSUME NEW q, ~q.guarded, q.layer = "none" => ShowsAll(q)
      PROVE  ThenFits(q, RereadLoadFree)
  BY <1>3 DEF RereadLoadFree, Sends, ThenFits, StageFits
<1>4. QED
  BY <1>1, <1>2, <1>3

LEMMA SequelLoadRereadFree ==
  /\ LoadRereadFree \in Seq(SUBSET Steps)
  /\ Comes(LoadRereadFree, {"free"})
  /\ Comes(LoadRereadFree, {"free", "close"})
  /\ Comes(LoadRereadFree, {"load"})
  /\ Comes(LoadRereadFree, {"detail"})
  /\ ~Begins(LoadRereadFree, "patch")
  /\ ~Begins(LoadRereadFree, "leave")
  /\ FreesLast(LoadRereadFree)
  /\ \A q : ~q.guarded /\ (q.layer = "none" => ShowsAll(q)) => ThenFits(q, LoadRereadFree)
BY DEF LoadRereadFree, Steps, Sends, Comes, Passes, Begins, FreesLast, ThenFits, StageFits

LEMMA SequelLoadThenClose ==
  /\ <<{"load"}, {"close"}>> \in Seq(SUBSET Steps)
  /\ Comes(<<{"load"}, {"close"}>>, {"free", "close"})
  /\ Comes(<<{"load"}, {"close"}>>, {"close"})
  /\ Comes(<<{"load"}, {"close"}>>, {"load"})
  /\ ~Begins(<<{"load"}, {"close"}>>, "patch")
  /\ ~Begins(<<{"load"}, {"close"}>>, "leave")
  /\ FreesLast(<<{"load"}, {"close"}>>)
  /\ \A q : ~q.guarded => ThenFits(q, <<{"load"}, {"close"}>>)
BY DEF Steps, Sends, Comes, Passes, Begins, FreesLast, ThenFits, StageFits

LEMMA SequelPatchLoadThenFree ==
  /\ <<{"patch", "load"}, {"free"}>> \in Seq(SUBSET Steps)
  /\ Comes(<<{"patch", "load"}, {"free"}>>, {"free"})
  /\ Comes(<<{"patch", "load"}, {"free"}>>, {"free", "close"})
  /\ Comes(<<{"patch", "load"}, {"free"}>>, {"load"})
  /\ Begins(<<{"patch", "load"}, {"free"}>>, "patch")
  /\ ~Begins(<<{"patch", "load"}, {"free"}>>, "leave")
  /\ FreesLast(<<{"patch", "load"}, {"free"}>>)
  /\ \A q : ~q.guarded => ThenFits(q, <<{"patch", "load"}, {"free"}>>)
BY DEF Steps, Sends, Comes, Passes, Begins, FreesLast, ThenFits, StageFits

LEMMA SequelCloseAndLoad ==
  /\ <<{"close", "load"}>> \in Seq(SUBSET Steps)
  /\ Comes(<<{"close", "load"}>>, {"free", "close"})
  /\ Comes(<<{"close", "load"}>>, {"close"})
  /\ Comes(<<{"close", "load"}>>, {"load"})
  /\ ~Begins(<<{"close", "load"}>>, "patch")
  /\ ~Begins(<<{"close", "load"}>>, "leave")
  /\ FreesLast(<<{"close", "load"}>>)
  /\ \A q : ~q.guarded => ThenFits(q, <<{"close", "load"}>>)
BY DEF Steps, Sends, Comes, Passes, Begins, FreesLast, ThenFits, StageFits

LEMMA SequelLoadFreeThenClose ==
  /\ <<{"load", "free"}, {"close"}>> \in Seq(SUBSET Steps)
  /\ Comes(<<{"load", "free"}, {"close"}>>, {"free"})
  /\ Comes(<<{"load", "free"}, {"close"}>>, {"free", "close"})
  /\ Comes(<<{"load", "free"}, {"close"}>>, {"close"})
  /\ Comes(<<{"load", "free"}, {"close"}>>, {"load"})
  /\ ~Begins(<<{"load", "free"}, {"close"}>>, "patch")
  /\ ~Begins(<<{"load", "free"}, {"close"}>>, "leave")
  /\ \A q : ~q.guarded => ThenFits(q, <<{"load", "free"}, {"close"}>>)
BY DEF Steps, Sends, Comes, Passes, Begins, FreesLast, ThenFits, StageFits

LEMMA SequelPatchLoadFree ==
  /\ <<{"patch", "load", "free"}>> \in Seq(SUBSET Steps)
  /\ Comes(<<{"patch", "load", "free"}>>, {"free"})
  /\ Comes(<<{"patch", "load", "free"}>>, {"free", "close"})
  /\ Comes(<<{"patch", "load", "free"}>>, {"load"})
  /\ Begins(<<{"patch", "load", "free"}>>, "patch")
  /\ ~Begins(<<{"patch", "load", "free"}>>, "leave")
  /\ \A q : ~q.guarded => ThenFits(q, <<{"patch", "load", "free"}>>)
BY DEF Steps, Sends, Comes, Passes, Begins, FreesLast, ThenFits, StageFits

LEMMA SequelPatchLoad ==
  /\ <<{"patch", "load"}>> \in Seq(SUBSET Steps)
  /\ Comes(<<{"patch", "load"}>>, {"load"})
  /\ Begins(<<{"patch", "load"}>>, "patch")
  /\ ~Begins(<<{"patch", "load"}>>, "leave")
  /\ FreesLast(<<{"patch", "load"}>>)
  /\ \A q : ~q.guarded => ThenFits(q, <<{"patch", "load"}>>)
BY DEF Steps, Sends, Comes, Passes, Begins, FreesLast, ThenFits, StageFits

LEMMA SequelLeave ==
  /\ <<{"leave"}>> \in Seq(SUBSET Steps)
  /\ ~Begins(<<{"leave"}>>, "patch")
  /\ Begins(<<{"leave"}>>, "leave")
  /\ FreesLast(<<{"leave"}>>)
  /\ \A q : ThenFits(q, <<{"leave"}>>)
BY DEF Steps, Sends, Comes, Passes, Begins, FreesLast, ThenFits, StageFits

LEMMA SequelRereadThenFree ==
  /\ <<{"reread"}, {"free"}>> \in Seq(SUBSET Steps)
  /\ Comes(<<{"reread"}, {"free"}>>, {"free"})
  /\ Comes(<<{"reread"}, {"free"}>>, {"free", "close"})
  /\ ~Begins(<<{"reread"}, {"free"}>>, "patch")
  /\ ~Begins(<<{"reread"}, {"free"}>>, "leave")
  /\ FreesLast(<<{"reread"}, {"free"}>>)
  /\ \A q : q.sticky => ThenFits(q, <<{"reread"}, {"free"}>>)
BY DEF Steps, Sends, Comes, Passes, Begins, FreesLast, ThenFits, StageFits

LEMMA SequelRereadWaitClose ==
  /\ <<{"reread"}, {"free", "wait"}, {"close", "load"}>> \in Seq(SUBSET Steps)
  /\ Comes(<<{"reread"}, {"free", "wait"}, {"close", "load"}>>, {"free"})
  /\ Comes(<<{"reread"}, {"free", "wait"}, {"close", "load"}>>, {"free", "close"})
  /\ Comes(<<{"reread"}, {"free", "wait"}, {"close", "load"}>>, {"close"})
  /\ Comes(<<{"reread"}, {"free", "wait"}, {"close", "load"}>>, {"load"})
  /\ ~Begins(<<{"reread"}, {"free", "wait"}, {"close", "load"}>>, "patch")
  /\ ~Begins(<<{"reread"}, {"free", "wait"}, {"close", "load"}>>, "leave")
  /\ \A q : ~q.guarded /\ q.sticky => ThenFits(q, <<{"reread"}, {"free", "wait"}, {"close", "load"}>>)
<1>1. /\ <<{"reread"}, {"free", "wait"}, {"close", "load"}>> \in Seq(SUBSET Steps)
      /\ ~Begins(<<{"reread"}, {"free", "wait"}, {"close", "load"}>>, "patch")
      /\ ~Begins(<<{"reread"}, {"free", "wait"}, {"close", "load"}>>, "leave")
  BY DEF Steps, Sends, Begins, FreesLast
<1>2. /\ Comes(<<{"reread"}, {"free", "wait"}, {"close", "load"}>>, {"free"})
      /\ Comes(<<{"reread"}, {"free", "wait"}, {"close", "load"}>>, {"free", "close"})
      /\ Comes(<<{"reread"}, {"free", "wait"}, {"close", "load"}>>, {"close"})
      /\ Comes(<<{"reread"}, {"free", "wait"}, {"close", "load"}>>, {"load"})
  <2>1. Comes(<<{"reread"}, {"free", "wait"}, {"close", "load"}>>, {"free"})
    BY DEF Sends, Comes, Passes
  <2>2. Comes(<<{"reread"}, {"free", "wait"}, {"close", "load"}>>, {"free", "close"})
    BY DEF Sends, Comes, Passes
  <2>3. Comes(<<{"reread"}, {"free", "wait"}, {"close", "load"}>>, {"close"})
    BY DEF Sends, Comes, Passes
  <2>4. Comes(<<{"reread"}, {"free", "wait"}, {"close", "load"}>>, {"load"})
    BY DEF Sends, Comes, Passes
  <2>5. QED
    BY <2>1, <2>2, <2>3, <2>4
<1>3. ASSUME NEW q, ~q.guarded, q.sticky
      PROVE  ThenFits(q, <<{"reread"}, {"free", "wait"}, {"close", "load"}>>)
  BY <1>3 DEF Sends, ThenFits, StageFits
<1>4. QED
  BY <1>1, <1>2, <1>3

LEMMA SequelPatch ==
  /\ <<{"patch"}>> \in Seq(SUBSET Steps)
  /\ Begins(<<{"patch"}>>, "patch")
  /\ ~Begins(<<{"patch"}>>, "leave")
  /\ FreesLast(<<{"patch"}>>)
  /\ \A q : ThenFits(q, <<{"patch"}>>)
BY DEF Steps, Sends, Comes, Passes, Begins, FreesLast, ThenFits, StageFits

LEMMA SequelDetailThenLoad ==
  /\ <<{"detail"}, {"load"}>> \in Seq(SUBSET Steps)
  /\ Comes(<<{"detail"}, {"load"}>>, {"load"})
  /\ Comes(<<{"detail"}, {"load"}>>, {"detail"})
  /\ ~Begins(<<{"detail"}, {"load"}>>, "patch")
  /\ ~Begins(<<{"detail"}, {"load"}>>, "leave")
  /\ FreesLast(<<{"detail"}, {"load"}>>)
  /\ \A q : ~q.guarded /\ (q.layer = "none" => ShowsAll(q)) => ThenFits(q, <<{"detail"}, {"load"}>>)
BY DEF Steps, Sends, Comes, Passes, Begins, FreesLast, ThenFits, StageFits

LEMMA SequelFirst ==
  /\ <<{"first"}>> \in Seq(SUBSET Steps)
  /\ ~Begins(<<{"first"}>>, "patch")
  /\ ~Begins(<<{"first"}>>, "leave")
  /\ FreesLast(<<{"first"}>>)
  /\ \A q : q.layer # "none" /\ ~q.sticky => ThenFits(q, <<{"first"}>>)
BY DEF Steps, Sends, Comes, Passes, Begins, FreesLast, ThenFits, StageFits

-----------------------------------------------------------------------------
(* The inductive invariants.                                               *)
Kinds == {"list", "detail", "reread", "timer", "op"}

Ops == {a.op : a \in P.acts}
Flags == {"none", "drawer", "page"} \cup Ops \cup Docs
Statuses == P.states \cup {"none"}

ChainType ==
  [kind : Kinds, op : Ops \cup {"none"}, doc : Docs \cup {NoDoc}, hold : Flags,
   filter : P.filters, then : Seq(SUBSET Steps), state : {"sent", "done", "refused"},
   got : [Docs -> P.states]]

CardType == [doc : Docs, status : Statuses] \cup {Closed}

ScreenType ==
  [list : [Docs -> Statuses], card : CardType, busy : SUBSET Flags,
   loading : BOOLEAN, reading : BOOLEAN]

CabinetType ==
  /\ page \in DOMAIN Pages
  /\ docs \in [Docs -> P.states]
  /\ filter \in P.filters
  /\ screen \in ScreenType
  /\ chains \in [Chains -> ChainType \cup {Idle}]
  /\ calm \in BOOLEAN

(* A chain on its way: only that of a button is about to change a document *)
(* on the screen; only a load is about no document.                        *)
Quiet(then) == \A i \in 1..Len(then) : then[i] \cap {"patch", "leave"} = {}

ChainFits(c) ==
  /\ ThenFits(P, c.then)
  /\ c.kind # "op" => Quiet(c.then)
  /\ c.doc = NoDoc => c.kind = "list" /\ c.then \in {<< >>, <<{"first"}>>}
  /\ c.kind = "timer" => c.state = "sent"
  /\ c.kind = "reread" => P.sticky
  /\ c.kind = "detail" /\ P.layer = "none" => ShowsAll(P)
  /\ c.kind = "op" => \E a \in P.acts : c.op = a.op /\ c.then = a.then

ChainsFit == \A k \in Running : ChainFits(chains[k])

(* What is set on the screen will be taken back by a chain that runs.      *)
GivesBack(c, b) == c.hold = b /\ Comes(c.then, FreedBy(b))

BusyHeld == \A b \in screen.busy : \E k \in Running : GivesBack(chains[k], b)
LoadsShown ==
  screen.loading => \E k \in Running : /\ chains[k].kind = "list"
                                       /\ P.guarded => chains[k].filter = filter
ReadsShown == screen.reading => \E k \in Running : chains[k].kind = "detail"

(* What an answer says of its document.                                    *)
AnswerFits(q, c) ==
  c.state = "done" =>
    /\ c.kind = "detail" => /\ c.got[c.doc] \notin {"absent", "gone"}
                            /\ q.marks => c.got[c.doc] \notin {"generated", "sent"}
    /\ c.kind = "op" /\ Begins(c.then, "patch") /\ q.layer = "none" =>
         \A f \in q.filters : c.got[c.doc] \in f
    /\ c.kind = "op" /\ Begins(c.then, "leave") =>
         \A f \in q.filters : c.got[c.doc] \notin f

AnswersFit == \A k \in Running : AnswerFits(P, chains[k])

(* The answer to a button is out, and is what the server has (statuses).   *)
Carries(c, d, statuses) ==
  c.kind = "op" /\ c.state = "done" /\ c.doc = d /\ c.got[d] = statuses[d]

(* A read has marked document d viewed, and its row will show it.          *)
Marking(q, c, d, statuses, list) ==
  /\ q.marks /\ c.kind = "detail" /\ c.state = "done" /\ c.doc = d
  /\ c.got[d] = "viewed" /\ statuses[d] = "viewed" /\ list[d] \in {"generated", "sent"}

(* The chain will put the row of document d right, or the card.            *)
MendsRow(q, c, d, statuses) ==
  \/ c.kind = "list"
  \/ Comes(c.then, {"load"})
  \/ Carries(c, d, statuses) /\ Begins(c.then, "leave")
  \/ Carries(c, d, statuses) /\ Begins(c.then, "patch") /\ q.layer = "none"

MendsCard(q, c, card, statuses) ==
  \/ Comes(c.then, {"close"})
  \/ /\ ~q.sticky /\ c.doc = card.doc
     /\ c.kind = "detail" \/ Comes(c.then, {"detail"})
  \/ Carries(c, card.doc, statuses) /\ Begins(c.then, "patch")

RowsMended ==
  \A d \in Docs :
    screen.list[d] # Through(docs, filter)[d] =>
      \E k \in Running : \/ MendsRow(P, chains[k], d, docs)
                         \/ Marking(P, chains[k], d, docs, screen.list)

CardMended ==
  P.row = "fetch" /\ screen.card # Closed /\ screen.card.status # docs[screen.card.doc] =>
    \E k \in Running : MendsCard(P, chains[k], screen.card, docs)

(* A button of a drawer that keeps its document is about that document.    *)
DrawerHolds ==
  P.sticky => \A k \in Running : chains[k].hold = "drawer" =>
                screen.card # Closed /\ screen.card.doc = chains[k].doc

AnswersInv == AnswersFit /\ DrawerHolds
FreshInv == calm => RowsMended /\ CardMended

(* The pages whose buttons share a flag: one chain holds it.               *)
Holds(c, busy) ==
  /\ c.kind = "op" => c.hold = "page"
  /\ c.hold = "page" => "page" \in busy /\ FreesLast(c.then)

FlagHeld ==
  /\ \A k \in Running : Holds(chains[k], screen.busy)
  /\ \A j, k \in Running : chains[j].hold = "page" /\ chains[k].hold = "page" => j = k

(* What is shown is what the server has; it may have marked it viewed.     *)
TrueOf(q, s, status) ==
  \/ s = status
  \/ q.marks /\ s \in {"generated", "sent"} /\ status = "viewed"

Fitting(a, status) ==
  \/ status \in a.on
  \/ a.at = "form" /\ status = "absent"

RowsHeld ==
  \A d \in Docs :
    screen.list[d] # "none" /\ ~TrueOf(P, screen.list[d], docs[d]) =>
      \E k \in Running : chains[k].hold = "page" /\ MendsRow(P, chains[k], d, docs)

CardHeld ==
  /\ P.row = "fetch" /\ screen.card # Closed
  /\ ~TrueOf(P, screen.card.status, docs[screen.card.doc])
  => \E k \in Running : chains[k].hold = "page" /\ MendsCard(P, chains[k], screen.card, docs)

OpFits(q, c, statuses) ==
  c.kind = "op" =>
    /\ c.state # "refused"
    /\ c.state = "sent" => \E a \in q.acts : c.op = a.op /\ Fitting(a, statuses[c.doc])

OpsFit == \A k \in Running : OpFits(P, chains[k], docs)

HeldInv == IsCareful(P) => FlagHeld /\ (calm => RowsHeld /\ CardHeld /\ OpsFit)
-----------------------------------------------------------------------------
(* What the definitions say of records.                                    *)
LEMMA ChainIsNotIdle == \A c \in ChainType : c # Idle
BY DEF ChainType, Idle, Kinds

LEMMA RunningChain ==
  ASSUME CabinetType, NEW k \in Running
  PROVE  k \in Chains /\ chains[k] \in ChainType
BY DEF CabinetType, Running

LEMMA KindsOfSends ==
  /\ DOMAIN KindOf = Sends
  /\ KindOf["load"] = "list" /\ KindOf["detail"] = "detail" /\ KindOf["reread"] = "reread"
  /\ KindOf["wait"] = "timer" /\ KindOf["first"] = "detail"
BY DEF KindOf, Sends

(* A sequence of stages without its first.                                 *)
LEMMA ThenTail ==
  ASSUME NEW q, NEW then \in Seq(SUBSET Steps), then # << >>
  PROVE  /\ Head(then) \in SUBSET Steps /\ Tail(then) \in Seq(SUBSET Steps)
         /\ ThenFits(q, then) =>
              StageFits(q, Head(then)) /\ ThenFits(q, Tail(then)) /\ Quiet(Tail(then))
         /\ Quiet(then) => Quiet(Tail(then)) /\ Head(then) \cap {"patch", "leave"} = {}
<1>1. /\ Head(then) = then[1] /\ Tail(then) \in Seq(SUBSET Steps)
      /\ Head(then) \in SUBSET Steps /\ 1 \in 1..Len(then)
      /\ \A i \in 1..Len(Tail(then)) : /\ i + 1 \in 2..Len(then)
                                       /\ Tail(then)[i] = then[i + 1]
  OBVIOUS
<1>2. ASSUME ThenFits(q, then)
      PROVE  StageFits(q, Head(then)) /\ ThenFits(q, Tail(then)) /\ Quiet(Tail(then))
  <2>1. \A i \in 1..Len(then) : StageFits(q, then[i])
    BY <1>2 DEF ThenFits
  <2>2. \A i \in 2..Len(then) : then[i] \cap {"patch", "leave"} = {} /\ i \in 1..Len(then)
    BY <1>2 DEF ThenFits
  <2>3. \A i \in 1..Len(Tail(then)) : /\ StageFits(q, Tail(then)[i])
                                      /\ Tail(then)[i] \cap {"patch", "leave"} = {}
    BY <1>1, <2>1, <2>2
  <2>4. \A i \in 2..Len(Tail(then)) : i \in 1..Len(Tail(then))
    BY <1>1
  <2>5. QED
    BY <1>1, <2>1, <2>3, <2>4 DEF ThenFits, Quiet
<1>3. ASSUME Quiet(then)
      PROVE  Quiet(Tail(then)) /\ Head(then) \cap {"patch", "leave"} = {}
  <2>1. \A i \in 2..Len(then) : i \in 1..Len(then)
    BY <1>1
  <2>2. QED
    BY <1>1, <1>3, <2>1 DEF Quiet
<1>4. QED
  BY <1>1, <1>2, <1>3

-----------------------------------------------------------------------------
(* What the steps of a stage do to the screen.                             *)
WithRow(s, d, v) == [s EXCEPT !.list[d] = v]
WithFlags(s, l, r) == [s EXCEPT !.loading = l, !.reading = r]

LEMMA ScreenWithRow ==
  ASSUME NEW s \in ScreenType, NEW d \in Docs, NEW v \in Statuses
  PROVE  /\ WithRow(s, d, v) \in ScreenType
         /\ WithRow(s, d, v).list = [s.list EXCEPT ![d] = v]
         /\ WithRow(s, d, v).card = s.card /\ WithRow(s, d, v).busy = s.busy
         /\ WithRow(s, d, v).loading = s.loading /\ WithRow(s, d, v).reading = s.reading
BY DEF ScreenType, WithRow

LEMMA ScreenWithFlags ==
  ASSUME NEW s \in ScreenType, NEW l \in BOOLEAN, NEW r \in BOOLEAN
  PROVE  /\ WithFlags(s, l, r) \in ScreenType
         /\ WithFlags(s, l, r).list = s.list /\ WithFlags(s, l, r).card = s.card
         /\ WithFlags(s, l, r).busy = s.busy
         /\ WithFlags(s, l, r).loading = l /\ WithFlags(s, l, r).reading = r
BY DEF ScreenType, WithFlags

LEMMA PatchedScreen ==
  ASSUME CabinetType, NEW s \in ScreenType, NEW c \in ChainType, c.doc \in Docs
  PROVE  /\ Patched(s, c) \in ScreenType
         /\ Patched(s, c).busy = s.busy
         /\ Patched(s, c).loading = s.loading /\ Patched(s, c).reading = s.reading
         /\ P.layer = "none" =>
              /\ Patched(s, c).card = s.card
              /\ Patched(s, c).list = [s.list EXCEPT ![c.doc] = c.got[c.doc]]
         /\ P.layer # "none" =>
              /\ Patched(s, c).list = s.list
              /\ Patched(s, c).card = [doc |-> c.doc, status |-> c.got[c.doc]]
<1>1. c.got[c.doc] \in Statuses
  BY DEF ChainType, Statuses
<1>2. [doc |-> c.doc, status |-> c.got[c.doc]] \in CardType
  BY <1>1 DEF CardType
<1>3. [s.list EXCEPT ![c.doc] = c.got[c.doc]] \in [Docs -> Statuses]
  BY <1>1 DEF ScreenType
<1>4. QED
  BY <1>2, <1>3 DEF Patched, ScreenType

LEMMA FreedScreen ==
  ASSUME NEW s \in ScreenType, NEW hold
  PROVE  /\ Freed(s, hold) \in ScreenType
         /\ Freed(s, hold).list = s.list /\ Freed(s, hold).card = s.card
         /\ Freed(s, hold).loading = s.loading /\ Freed(s, hold).reading = s.reading
         /\ Freed(s, hold).busy \subseteq s.busy /\ hold \notin Freed(s, hold).busy
         /\ "page" \in s.busy /\ hold # "page" => "page" \in Freed(s, hold).busy
BY DEF Freed, ScreenType

LEMMA ShutScreen ==
  ASSUME NEW s \in ScreenType
  PROVE  /\ Shut(s) \in ScreenType
         /\ Shut(s).list = s.list /\ Shut(s).card = Closed
         /\ Shut(s).loading = s.loading /\ Shut(s).reading = s.reading
         /\ Shut(s).busy = s.busy \ {"drawer"}
BY DEF Shut, ScreenType, CardType

(* What the steps of a stage of chain c make of screen s, reading apart.   *)
StepShows(c, stage, s, t) ==
  /\ t.loading = (s.loading \/ "load" \in stage)
  /\ t.busy \subseteq s.busy
  /\ "free" \in stage => c.hold \notin t.busy
  /\ "close" \in stage => "drawer" \notin t.busy /\ t.card = Closed
  /\ "page" \in s.busy /\ ~("free" \in stage /\ c.hold = "page") => "page" \in t.busy
  /\ t.list =
       IF "leave" \in stage THEN [s.list EXCEPT ![c.doc] = "none"]
       ELSE IF "patch" \in stage /\ P.layer = "none"
       THEN [s.list EXCEPT ![c.doc] = c.got[c.doc]] ELSE s.list
  /\ "close" \notin stage =>
       t.card = IF "patch" \in stage /\ P.layer # "none"
                THEN [doc |-> c.doc, status |-> c.got[c.doc]] ELSE s.card

LEMMA SteppedScreen ==
  ASSUME CabinetType, NEW s \in ScreenType, NEW c \in ChainType,
         NEW stage, "patch" \in stage \/ "leave" \in stage => c.doc \in Docs,
         ~({"patch", "leave"} \subseteq stage)
  PROVE  /\ Stepped(s, c, stage) \in ScreenType
         /\ StepShows(c, stage, s, Stepped(s, c, stage))
         /\ Stepped(s, c, stage).reading = (s.reading \/ stage \cap {"detail", "first"} # {})
<1> DEFINE s1 == IF "patch" \in stage THEN Patched(s, c) ELSE s
           s2 == IF "leave" \in stage THEN [s1 EXCEPT !.list[c.doc] = "none"] ELSE s1
           s3 == IF "free" \in stage THEN Freed(s2, c.hold) ELSE s2
           s4 == IF "close" \in stage THEN Shut(s3) ELSE s3
<1>1. /\ s1 \in ScreenType /\ s1.busy = s.busy
      /\ s1.loading = s.loading /\ s1.reading = s.reading
      /\ s1.list = IF "patch" \in stage /\ P.layer = "none"
                   THEN [s.list EXCEPT ![c.doc] = c.got[c.doc]] ELSE s.list
      /\ s1.card = IF "patch" \in stage /\ P.layer # "none"
                   THEN [doc |-> c.doc, status |-> c.got[c.doc]] ELSE s.card
  BY PatchedScreen
<1> HIDE DEF s1
<1>2. /\ s2 \in ScreenType /\ s2.busy = s.busy
      /\ s2.loading = s.loading /\ s2.reading = s.reading /\ s2.card = s1.card
      /\ s2.list = IF "leave" \in stage THEN [s1.list EXCEPT ![c.doc] = "none"] ELSE s1.list
  <2>1. CASE "leave" \in stage
    <3>1. s1 \in ScreenType /\ c.doc \in Docs
      BY <1>1, <2>1, Zenon
    <3>2. s2 = WithRow(s1, c.doc, "none") /\ "none" \in Statuses
      BY <2>1 DEF Statuses, WithRow
    <3>3. /\ s2 \in ScreenType /\ s2.list = [s1.list EXCEPT ![c.doc] = "none"]
          /\ s2.card = s1.card /\ s2.busy = s1.busy
          /\ s2.loading = s1.loading /\ s2.reading = s1.reading
      BY <1>1, <3>1, <3>2, ScreenWithRow
    <3>4. QED
      BY <1>1, <2>1, <3>3, Zenon
  <2>2. CASE "leave" \notin stage
    BY <1>1, <2>2
  <2>3. QED
    BY <2>1, <2>2
<1> HIDE DEF s2
<1>3. /\ s3 \in ScreenType /\ s3.list = s2.list /\ s3.card = s2.card
      /\ s3.loading = s.loading /\ s3.reading = s.reading
      /\ s3.busy \subseteq s.busy
      /\ "free" \in stage => c.hold \notin s3.busy
      /\ "page" \in s.busy /\ ~("free" \in stage /\ c.hold = "page") => "page" \in s3.busy
  BY <1>2, FreedScreen
<1> HIDE DEF s3
<1>4. /\ s4 \in ScreenType /\ s4.list = s2.list
      /\ s4.loading = s.loading /\ s4.reading = s.reading
      /\ s4.busy \subseteq s.busy
      /\ "free" \in stage => c.hold \notin s4.busy
      /\ "page" \in s.busy /\ ~("free" \in stage /\ c.hold = "page") => "page" \in s4.busy
      /\ "close" \in stage => "drawer" \notin s4.busy /\ s4.card = Closed
      /\ "close" \notin stage => s4.card = s2.card
  BY <1>3, ShutScreen
<1> HIDE DEF s4
<1>5. Stepped(s, c, stage) =
        [s4 EXCEPT !.loading = @ \/ "load" \in stage,
                   !.reading = @ \/ stage \cap {"detail", "first"} # {}]
  BY DEF Stepped, s1, s2, s3, s4
<1>6. /\ Stepped(s, c, stage) \in ScreenType
      /\ Stepped(s, c, stage).list = s4.list /\ Stepped(s, c, stage).card = s4.card
      /\ Stepped(s, c, stage).busy = s4.busy
      /\ Stepped(s, c, stage).loading = (s.loading \/ "load" \in stage)
      /\ Stepped(s, c, stage).reading = (s.reading \/ stage \cap {"detail", "first"} # {})
  <2>1. s4.loading \in BOOLEAN /\ s4.reading \in BOOLEAN
    BY <1>4 DEF ScreenType
  <2>2. PICK l \in BOOLEAN, r \in BOOLEAN :
          /\ l = (s.loading \/ "load" \in stage)
          /\ r = (s.reading \/ stage \cap {"detail", "first"} # {})
    BY Zenon
  <2>3. Stepped(s, c, stage) = WithFlags(s4, l, r)
    BY <1>4, <1>5, <2>2, Zenon DEF WithFlags
  <2>4. /\ Stepped(s, c, stage) \in ScreenType
        /\ Stepped(s, c, stage).list = s4.list /\ Stepped(s, c, stage).card = s4.card
        /\ Stepped(s, c, stage).busy = s4.busy
        /\ Stepped(s, c, stage).loading = l /\ Stepped(s, c, stage).reading = r
    <3>1. s4 \in ScreenType
      BY <1>4, Zenon
    <3>2. QED
      BY <3>1, <2>3, ScreenWithFlags
  <2>5. QED
    BY <2>2, <2>4, Zenon
<1>7. s2.list = IF "leave" \in stage THEN [s.list EXCEPT ![c.doc] = "none"]
                ELSE IF "patch" \in stage /\ P.layer = "none"
                THEN [s.list EXCEPT ![c.doc] = c.got[c.doc]] ELSE s.list
  BY <1>1, <1>2
<1>8. "close" \notin stage =>
        s4.card = IF "patch" \in stage /\ P.layer # "none"
                  THEN [doc |-> c.doc, status |-> c.got[c.doc]] ELSE s.card
  BY <1>1, <1>2, <1>4
<1>9. StepShows(c, stage, s, Stepped(s, c, stage))
  BY <1>4, <1>6, <1>7, <1>8, Zenon DEF StepShows
<1>10. QED
  BY <1>6, <1>9, Zenon

-----------------------------------------------------------------------------
(* What GoOn does to the chains: chain k ends or goes one stage further,   *)
(* and a drawer that is closed releases the chains that hold it.           *)
WithHold(c, h) == [c EXCEPT !.hold = h]

Follows(c, e) ==
  /\ c.then # << >> /\ e \in ChainType
  /\ \E r \in Head(c.then) \cap Sends : e.kind = KindOf[r]
  /\ e.op = c.op /\ e.filter = c.filter /\ e.then = Tail(c.then) /\ e.state = "sent"
  /\ \/ e.hold = c.hold
     \/ e.hold = "none" /\ c.hold = "drawer" /\ "close" \in Head(c.then)
  /\ "first" \in Head(c.then) => e.doc \in Docs
  /\ "first" \notin Head(c.then) => e.doc = c.doc

Released(c, e) == c # Idle /\ c.hold = "drawer" /\ e = WithHold(c, "none")

Closes(c) == c.then # << >> /\ "close" \in Head(c.then)

LEMMA ChainWithHold ==
  ASSUME NEW c \in ChainType, NEW h \in Flags
  PROVE  LET e == WithHold(c, h) IN
         /\ e \in ChainType /\ e.hold = h
         /\ e.kind = c.kind /\ e.op = c.op /\ e.doc = c.doc /\ e.filter = c.filter
         /\ e.then = c.then /\ e.state = c.state /\ e.got = c.got
BY DEF ChainType, WithHold

LEMMA DroppedChain ==
  ASSUME CabinetType, NEW j \in Chains
  PROVE  /\ Drop(chains)[j] = chains[j] \/ Released(chains[j], Drop(chains)[j])
         /\ Drop(chains)[j] \in ChainType \cup {Idle}
         /\ Drop(chains)[j] # Idle => Drop(chains)[j].hold # "drawer"
<1>1. chains[j] \in ChainType \cup {Idle}
  BY DEF CabinetType
<1>2. CASE chains[j] # Idle /\ chains[j].hold = "drawer"
  <2>1. Drop(chains)[j] = WithHold(chains[j], "none") /\ chains[j] \in ChainType
    BY <1>1, <1>2 DEF Drop, WithHold
  <2>2. WithHold(chains[j], "none") \in ChainType
        /\ WithHold(chains[j], "none").hold = "none"
    <3>1. "none" \in Flags
      BY DEF Flags
    <3>2. QED
      BY <2>1, <3>1, ChainWithHold
  <2>3. QED
    BY <1>2, <2>1, <2>2 DEF Released
<1>3. CASE ~(chains[j] # Idle /\ chains[j].hold = "drawer")
  BY <1>1, <1>3 DEF Drop, WithHold
<1>4. QED
  BY <1>2, <1>3

LEMMA GoOnChains ==
  ASSUME CabinetType, NEW k \in Running, NEW s, GoOn(k, s)
  PROVE  /\ chains' \in [Chains -> ChainType \cup {Idle}]
         /\ \A j \in Chains \ {k} :
              \/ chains'[j] = chains[j]
              \/ Closes(chains[k]) /\ Released(chains[j], chains'[j])
         /\ chains'[k] = Idle \/ Follows(chains[k], chains'[k])
         /\ chains[k].then # << >> /\ Passes(Head(chains[k].then)) => chains'[k] # Idle
         /\ Closes(chains[k]) => \A j \in Chains : chains'[j] # Idle => chains'[j].hold # "drawer"
         /\ chains[k].then # << >> =>
              LET t == Stepped(s, chains[k], Head(chains[k].then)) IN
              \/ screen' = [t EXCEPT !.reading = s.reading]
              \/ screen' = t /\ chains'[k] # Idle
<1> DEFINE c == chains[k]
           stage == Head(c.then)
           others == IF c.then # << >> /\ "close" \in stage THEN Drop(chains) ELSE chains
<1>1. k \in Chains /\ c \in ChainType
  BY RunningChain
<1>2. /\ others \in [Chains -> ChainType \cup {Idle}]
      /\ \A j \in Chains : \/ others[j] = chains[j]
                           \/ Closes(c) /\ Released(chains[j], others[j])
      /\ Closes(c) => \A j \in Chains : others[j] # Idle => others[j].hold # "drawer"
  <2>1. CASE Closes(c)
    <3>1. others = Drop(chains)
      BY <2>1 DEF Closes
    <3>2. Drop(chains) = [j \in Chains |-> Drop(chains)[j]]
      BY DEF Drop, WithHold
    <3>3. QED
      BY <2>1, <3>1, <3>2, DroppedChain
  <2>2. CASE ~Closes(c)
    BY <2>2 DEF Closes, CabinetType
  <2>3. QED
    BY <2>1, <2>2
<1> HIDE DEF others
<1>3. CASE c.then = << >>
  BY <1>1, <1>3 DEF GoOn, CabinetType, Closes
<1>4. CASE c.then # << >>
  <2> DEFINE sends == stage \cap DOMAIN KindOf
             opens == IF "first" \in stage THEN ToOpen(s) ELSE {c.doc}
             next(d, r) ==
               Waiting(KindOf[r], c.op, d, others[k].hold, c.filter, Tail(c.then))
  <2>1. \/ /\ sends = {} \/ opens = {}
           /\ chains' = [others EXCEPT ![k] = Idle]
           /\ screen' = [Stepped(s, c, stage) EXCEPT !.reading = s.reading]
        \/ \E d \in opens, r \in sends :
             /\ chains' = [others EXCEPT ![k] = next(d, r)]
             /\ screen' = Stepped(s, c, stage)
    BY <1>4, Zenon DEF GoOn, others
  <2>2. CASE /\ sends = {} \/ opens = {}
             /\ chains' = [others EXCEPT ![k] = Idle]
             /\ screen' = [Stepped(s, c, stage) EXCEPT !.reading = s.reading]
    <3>1. ~Passes(stage)
      BY <2>2, KindsOfSends DEF Passes
    <3>2. chains'[k] = Idle /\ \A j \in Chains \ {k} : chains'[j] = others[j]
      BY <1>1, <1>2, <2>2
    <3>3. chains' \in [Chains -> ChainType \cup {Idle}]
      BY <1>2, <2>2
    <3>4. QED
      BY <1>2, <1>4, <2>2, <3>1, <3>2, <3>3, Zenon
  <2>3. ASSUME NEW d \in opens, NEW r \in sends, chains' = [others EXCEPT ![k] = next(d, r)]
        PROVE  /\ chains' \in [Chains -> ChainType \cup {Idle}]
               /\ chains'[k] = next(d, r) /\ \A j \in Chains \ {k} : chains'[j] = others[j]
               /\ Follows(c, next(d, r)) /\ (Closes(c) => next(d, r).hold # "drawer")
    <3>1. d \in Docs \cup {NoDoc} /\ ("first" \in stage => d \in Docs)
          /\ ("first" \notin stage => d = c.doc)
      BY <1>1 DEF ToOpen, ChainType
    <3>2. KindOf[r] \in Kinds /\ r \in stage \cap Sends
      BY KindsOfSends DEF Kinds, Sends
    <3>3. /\ Tail(c.then) \in Seq(SUBSET Steps) /\ docs \in [Docs -> P.states]
          /\ c.then \in Seq(SUBSET Steps)
      BY <1>1, <1>4 DEF ChainType, CabinetType
    <3>4. /\ others[k].hold \in Flags
          /\ \/ others[k].hold = c.hold
             \/ others[k].hold = "none" /\ c.hold = "drawer" /\ Closes(c)
          /\ Closes(c) => others[k].hold # "drawer"
      <4>1. c.hold \in Flags /\ "none" \in Flags
        BY <1>1 DEF ChainType, Flags
      <4>2. CASE others[k] = c
        BY <1>1, <1>2, <4>1, <4>2, ChainIsNotIdle
      <4>3. CASE Closes(c) /\ Released(c, others[k])
        BY <1>1, <4>1, <4>3, ChainWithHold DEF Released
      <4>4. QED
        BY <1>1, <1>2, <4>2, <4>3
    <3>5. /\ next(d, r) \in ChainType
          /\ next(d, r).kind = KindOf[r] /\ next(d, r).doc = d /\ next(d, r).then = Tail(c.then)
          /\ next(d, r).state = "sent" /\ next(d, r).hold = others[k].hold
          /\ next(d, r).op = c.op /\ next(d, r).filter = c.filter
      <4>1. others[k].hold \in Flags /\ KindOf[r] \in Kinds
        BY <3>2, <3>4
      <4>2. d \in Docs \cup {NoDoc} /\ Tail(c.then) \in Seq(SUBSET Steps)
        BY <3>1, <3>3
      <4>3. c.op \in Ops \cup {"none"} /\ c.filter \in P.filters
        BY <1>1 DEF ChainType
      <4>4. QED
        BY <3>3, <4>1, <4>2, <4>3 DEF Waiting, ChainType
    <3>6. Follows(c, next(d, r))
      BY <1>4, <3>1, <3>2, <3>4, <3>5 DEF Follows, Closes
    <3>7. /\ chains' \in [Chains -> ChainType \cup {Idle}] /\ chains'[k] = next(d, r)
          /\ \A j \in Chains \ {k} : chains'[j] = others[j]
      BY <1>1, <1>2, <2>3, <3>5
    <3>8. QED
      BY <3>4, <3>5, <3>6, <3>7
  <2>4. QED
    <3>1. CASE \E d \in opens, r \in sends : /\ chains' = [others EXCEPT ![k] = next(d, r)]
                                              /\ screen' = Stepped(s, c, stage)
      <4>1. PICK d \in opens, r \in sends : /\ chains' = [others EXCEPT ![k] = next(d, r)]
                                            /\ screen' = Stepped(s, c, stage)
        BY <3>1
      <4>2. /\ chains' \in [Chains -> ChainType \cup {Idle}]
            /\ chains'[k] = next(d, r) /\ \A j \in Chains \ {k} : chains'[j] = others[j]
            /\ Follows(c, next(d, r)) /\ (Closes(c) => next(d, r).hold # "drawer")
        BY <4>1, <2>3
      <4>3. chains'[k] # Idle /\ (Closes(c) => chains'[k].hold # "drawer")
        BY <4>2, ChainIsNotIdle DEF Follows
      <4>4. QED
        BY <1>2, <4>1, <4>2, <4>3, Zenon
    <3>2. QED
      BY <2>1, <2>2, <3>1
<1>5. QED
  BY <1>3, <1>4

LEMMA GoOnScreen ==
  ASSUME CabinetType, ChainsFit, NEW k \in Running, NEW s \in ScreenType, GoOn(k, s)
  PROVE  /\ screen' \in ScreenType
         /\ chains[k].then = << >> => screen' = s /\ chains'[k] = Idle
         /\ chains[k].then # << >> =>
              /\ StepShows(chains[k], Head(chains[k].then), s, screen')
              /\ screen'.reading =>
                   \/ s.reading
                   \/ chains'[k] # Idle /\ Head(chains[k].then) \cap {"detail", "first"} # {}
              /\ Head(chains[k].then) \cap {"patch", "leave"} # {} =>
                   chains[k].kind = "op" /\ chains[k].doc \in Docs
<1> DEFINE c == chains[k]
           stage == Head(c.then)
<1>1. k \in Chains /\ c \in ChainType /\ ChainFits(c)
  BY RunningChain DEF ChainsFit
<1>2. CASE c.then = << >>
  BY <1>1, <1>2 DEF GoOn, CabinetType
<1>3. CASE c.then # << >>
  <2>1. /\ c.then \in Seq(SUBSET Steps) /\ ThenFits(P, c.then)
        /\ c.kind # "op" => Quiet(c.then)
        /\ c.doc = NoDoc => c.kind = "list"
        /\ c.doc \in Docs \cup {NoDoc}
    BY <1>1 DEF ChainFits, ChainType
  <2>2. StageFits(P, stage) /\ (c.kind # "op" => stage \cap {"patch", "leave"} = {})
    BY <1>3, <2>1, ThenTail
  <2>3. /\ stage \cap {"patch", "leave"} # {} => c.kind = "op" /\ c.doc \in Docs
        /\ "patch" \in stage \/ "leave" \in stage => c.doc \in Docs
        /\ ~({"patch", "leave"} \subseteq stage)
    BY <2>1, <2>2 DEF StageFits
  <2>4. /\ Stepped(s, c, stage) \in ScreenType
        /\ StepShows(c, stage, s, Stepped(s, c, stage))
        /\ Stepped(s, c, stage).reading = (s.reading \/ stage \cap {"detail", "first"} # {})
    BY <1>1, <2>3, SteppedScreen
  <2>5. CASE screen' = [Stepped(s, c, stage) EXCEPT !.reading = s.reading]
    <3>1. WithFlags(Stepped(s, c, stage), Stepped(s, c, stage).loading, s.reading) = screen'
      BY <2>4, <2>5 DEF WithFlags, ScreenType
    <3>2. s.reading \in BOOLEAN /\ Stepped(s, c, stage).loading \in BOOLEAN
      BY <2>4 DEF ScreenType
    <3>3. /\ screen' \in ScreenType /\ screen'.list = Stepped(s, c, stage).list
          /\ screen'.card = Stepped(s, c, stage).card /\ screen'.busy = Stepped(s, c, stage).busy
          /\ screen'.loading = Stepped(s, c, stage).loading /\ screen'.reading = s.reading
      BY <2>4, <3>1, <3>2, ScreenWithFlags
    <3>4. StepShows(c, stage, s, screen')
      BY <2>4, <3>3, Zenon DEF StepShows
    <3>5. QED
      BY <1>3, <2>3, <3>3, <3>4, Zenon
  <2>6. CASE screen' = Stepped(s, c, stage) /\ chains'[k] # Idle
    BY <1>3, <2>3, <2>4, <2>6, Zenon
  <2>7. QED
    BY <1>3, <2>5, <2>6, GoOnChains, Zenon
<1>4. QED
  BY <1>2, <1>3

-----------------------------------------------------------------------------
(* What an answer, or its absence, makes of the screen before the function *)
(* of the page goes on.                                                    *)
SeenList(c) ==
  IF P.marks /\ screen.list[c.doc] \in {"generated", "sent"}
  THEN [screen.list EXCEPT ![c.doc] = "viewed"] ELSE screen.list

ListIgnored(c) == P.guarded /\ c.filter # filter

ListShows(c, s) ==
  IF ListIgnored(c) THEN s = screen
  ELSE /\ s.list = Through(c.got, c.filter) /\ s.card = screen.card /\ s.busy = screen.busy
       /\ ~s.loading /\ s.reading = screen.reading

DetailShows(c, s) ==
  /\ s.busy = screen.busy /\ s.loading = screen.loading /\ ~s.reading
  /\ IF P.sticky /\ screen.card # Closed THEN s.list = screen.list /\ s.card = screen.card
     ELSE IF P.layer = "none"
     THEN s.list = [SeenList(c) EXCEPT ![c.doc] = c.got[c.doc]] /\ s.card = screen.card
     ELSE s.list = SeenList(c) /\ s.card = [doc |-> c.doc, status |-> c.got[c.doc]]

RereadShows(c, s) ==
  /\ s.list = screen.list /\ s.busy = screen.busy
  /\ s.loading = screen.loading /\ s.reading = screen.reading
  /\ IF c.hold = "drawer" /\ screen.card # Closed
     THEN s.card = [doc |-> screen.card.doc, status |-> c.got[screen.card.doc]]
     ELSE s.card = screen.card

LEMMA ThroughType ==
  ASSUME NEW statuses \in [Docs -> P.states], NEW f
  PROVE  Through(statuses, f) \in [Docs -> Statuses]
BY DEF Through, Statuses

LEMMA ShowListScreen ==
  ASSUME CabinetType, NEW c \in ChainType
  PROVE  ShowList(c) \in ScreenType /\ ListShows(c, ShowList(c))
<1>1. CASE ListIgnored(c)
  BY <1>1 DEF ListIgnored, ListShows, ShowList, CabinetType
<1>2. CASE ~ListIgnored(c)
  <2>1. screen \in ScreenType /\ c.got \in [Docs -> P.states]
    BY DEF CabinetType, ChainType
  <2>2. Through(c.got, c.filter) \in [Docs -> Statuses]
    BY <2>1, ThroughType
  <2>3. ShowList(c) = [screen EXCEPT !.list = Through(c.got, c.filter), !.loading = FALSE]
    BY <1>2 DEF ListIgnored, ShowList
  <2>4. /\ ShowList(c) \in ScreenType
        /\ ShowList(c).list = Through(c.got, c.filter) /\ ShowList(c).card = screen.card
        /\ ShowList(c).busy = screen.busy /\ ~ShowList(c).loading
        /\ ShowList(c).reading = screen.reading
    BY <2>1, <2>2, <2>3 DEF ScreenType
  <2>5. QED
    BY <1>2, <2>4, Zenon DEF ListShows
<1>3. QED
  BY <1>1, <1>2

LEMMA ShowDetailScreen ==
  ASSUME CabinetType, PageFits(P), NEW c \in ChainType, c.doc \in Docs
  PROVE  ShowDetail(c) \in ScreenType /\ DetailShows(c, ShowDetail(c))
<1> DEFINE s == [screen EXCEPT !.reading = FALSE]
           seen == IF P.marks /\ s.list[c.doc] \in {"generated", "sent"}
                   THEN [s EXCEPT !.list[c.doc] = "viewed"] ELSE s
<1>1. screen \in ScreenType
  BY DEF CabinetType
<1>2. /\ s \in ScreenType /\ s.list = screen.list /\ s.card = screen.card
      /\ s.busy = screen.busy /\ s.loading = screen.loading /\ s.reading = FALSE
  BY <1>1 DEF ScreenType
<1> HIDE DEF s
<1>3. /\ seen \in ScreenType /\ seen.list = SeenList(c) /\ seen.card = screen.card
      /\ seen.busy = screen.busy /\ seen.loading = screen.loading /\ seen.reading = FALSE
  <2>1. CASE P.marks /\ s.list[c.doc] \in {"generated", "sent"}
    <3>1. seen = WithRow(s, c.doc, "viewed") /\ "viewed" \in Statuses
      BY <2>1 DEF WithRow, PageFits, MarksFit, Statuses
    <3>2. SeenList(c) = [s.list EXCEPT ![c.doc] = "viewed"]
      BY <1>2, <2>1 DEF SeenList
    <3>3. QED
      BY <1>2, <3>1, <3>2, ScreenWithRow
  <2>2. CASE ~(P.marks /\ s.list[c.doc] \in {"generated", "sent"})
    BY <1>2, <2>2 DEF SeenList
  <2>3. QED
    BY <2>1, <2>2
<1> HIDE DEF seen
<1>4. ShowDetail(c) = IF P.sticky /\ s.card # Closed THEN s ELSE Patched(seen, c)
  BY Zenon DEF ShowDetail, s, seen
<1>5. CASE P.sticky /\ s.card # Closed
  BY <1>2, <1>4, <1>5, Zenon DEF DetailShows
<1>6. CASE ~(P.sticky /\ s.card # Closed)
  <2>1. ShowDetail(c) = Patched(seen, c) /\ ~(P.sticky /\ screen.card # Closed)
    BY <1>2, <1>4, <1>6, Zenon
  <2>2. /\ Patched(seen, c) \in ScreenType
        /\ Patched(seen, c).busy = screen.busy
        /\ Patched(seen, c).loading = screen.loading /\ ~Patched(seen, c).reading
        /\ P.layer = "none" =>
             /\ Patched(seen, c).card = screen.card
             /\ Patched(seen, c).list = [SeenList(c) EXCEPT ![c.doc] = c.got[c.doc]]
        /\ P.layer # "none" =>
             /\ Patched(seen, c).list = SeenList(c)
             /\ Patched(seen, c).card = [doc |-> c.doc, status |-> c.got[c.doc]]
    BY <1>3, PatchedScreen
  <2>3. QED
    BY <2>1, <2>2, Zenon DEF DetailShows
<1>7. QED
  BY <1>5, <1>6

LEMMA ShowRereadScreen ==
  ASSUME CabinetType, NEW c \in ChainType
  PROVE  ShowReread(c) \in ScreenType /\ RereadShows(c, ShowReread(c))
<1>1. CASE c.hold = "drawer" /\ screen.card # Closed
  <2>1. /\ screen \in ScreenType /\ screen.card \in [doc : Docs, status : Statuses]
        /\ c.got \in [Docs -> P.states]
    BY <1>1 DEF CabinetType, ScreenType, CardType, ChainType
  <2>2. ShowReread(c) = [screen EXCEPT !.card.status = c.got[screen.card.doc]]
    BY <1>1 DEF ShowReread
  <2>3. /\ c.got[screen.card.doc] \in Statuses
        /\ [screen.card EXCEPT !.status = c.got[screen.card.doc]]
             = [doc |-> screen.card.doc, status |-> c.got[screen.card.doc]]
    BY <2>1 DEF Statuses
  <2>4. /\ ShowReread(c) \in ScreenType
        /\ ShowReread(c).list = screen.list /\ ShowReread(c).busy = screen.busy
        /\ ShowReread(c).card = [doc |-> screen.card.doc, status |-> c.got[screen.card.doc]]
        /\ ShowReread(c).loading = screen.loading /\ ShowReread(c).reading = screen.reading
    BY <2>1, <2>2, <2>3 DEF ScreenType, CardType
  <2>5. QED
    BY <1>1, <2>4, Zenon DEF RereadShows
<1>2. CASE ~(c.hold = "drawer" /\ screen.card # Closed)
  BY <1>2 DEF RereadShows, ShowReread, CabinetType
<1>3. QED
  BY <1>1, <1>2

(* What is shown of the flags when chain c is answered or fails: a load    *)
(* that counts is over, and so is a reading.                               *)
FlagsShown(c, s) ==
  /\ s.busy = screen.busy
  /\ s.loading => screen.loading /\ (c.kind = "list" => ListIgnored(c))
  /\ s.reading => screen.reading /\ c.kind # "detail"

Showing(c, s) ==
  /\ c.kind = "list" => ListShows(c, s)
  /\ c.kind = "detail" => DetailShows(c, s)
  /\ c.kind = "reread" => RereadShows(c, s)
  /\ c.kind \in {"timer", "op"} => s = screen

LEMMA ShownScreen ==
  ASSUME CabinetType, PageFits(P), NEW c \in ChainType, ChainFits(c)
  PROVE  /\ Shown(c) \in ScreenType /\ Showing(c, Shown(c)) /\ FlagsShown(c, Shown(c))
<1>1. screen \in ScreenType
  BY DEF CabinetType
<1>2. CASE c.kind = "list"
  <2>1. Shown(c) = ShowList(c)
    BY <1>2 DEF Shown
  <2>2. ShowList(c) \in ScreenType /\ ListShows(c, ShowList(c))
    BY ShowListScreen
  <2>3. FlagsShown(c, ShowList(c))
    BY <1>2, <2>2 DEF ListShows, FlagsShown
  <2>4. QED
    BY <1>2, <2>1, <2>2, <2>3 DEF Showing
<1>3. CASE c.kind = "detail"
  <2>1. Shown(c) = ShowDetail(c) /\ c.doc \in Docs
    BY <1>3 DEF Shown, ChainFits, ChainType
  <2>2. ShowDetail(c) \in ScreenType /\ DetailShows(c, ShowDetail(c))
    BY <2>1, ShowDetailScreen
  <2>3. FlagsShown(c, ShowDetail(c))
    BY <1>3, <2>2 DEF DetailShows, FlagsShown
  <2>4. QED
    BY <1>3, <2>1, <2>2, <2>3 DEF Showing
<1>4. CASE c.kind = "reread"
  <2>1. Shown(c) = ShowReread(c)
    BY <1>4 DEF Shown
  <2>2. ShowReread(c) \in ScreenType /\ RereadShows(c, ShowReread(c))
    BY ShowRereadScreen
  <2>3. FlagsShown(c, ShowReread(c))
    BY <1>4, <2>2 DEF RereadShows, FlagsShown
  <2>4. QED
    BY <1>4, <2>1, <2>2, <2>3 DEF Showing
<1>5. CASE c.kind \in {"timer", "op"}
  <2>1. Shown(c) = screen
    BY <1>5 DEF Shown
  <2>2. QED
    BY <1>1, <1>5, <2>1 DEF Showing, FlagsShown
<1>6. QED
  BY <1>2, <1>3, <1>4, <1>5 DEF ChainType, Kinds

LEMMA FailedScreen ==
  ASSUME CabinetType, NEW k \in Running, Failed(k), chains[k].kind # "op"
  PROVE  \E s \in ScreenType :
           FlagsShown(chains[k], s) /\ s.card = screen.card /\ GoOn(k, s)
<1> DEFINE c == chains[k]
           gone == IF P.blanks /\ ~(P.guarded /\ c.filter # filter)
                   THEN [d \in Docs |-> "none"] ELSE screen.list
           t == [screen EXCEPT !.list = gone, !.loading = @ /\ P.guarded /\ c.filter # filter]
           u == [screen EXCEPT !.reading = FALSE]
<1>1. screen \in ScreenType /\ c \in ChainType
  BY RunningChain DEF CabinetType
<1>2. CASE c.kind = "list"
  <2>1. GoOn(k, t)
    BY <1>2, Zenon DEF Failed
  <2>2. gone \in [Docs -> Statuses]
    BY <1>1 DEF ScreenType, Statuses
  <2>3. PICK g \in [Docs -> Statuses], l \in BOOLEAN :
          g = gone /\ l = (screen.loading /\ P.guarded /\ c.filter # filter)
    BY <2>2, Zenon
  <2>4. t = [screen EXCEPT !.list = g, !.loading = l]
    BY <1>1, <2>3, Zenon
  <2>5. /\ t \in ScreenType /\ t.card = screen.card /\ t.busy = screen.busy
        /\ t.reading = screen.reading /\ t.loading = l
    BY <1>1, <2>4 DEF ScreenType
  <2>6. FlagsShown(c, t)
    BY <1>2, <2>3, <2>5, Zenon DEF FlagsShown, ListIgnored
  <2>7. QED
    BY <2>1, <2>5, <2>6
<1>3. CASE c.kind = "detail"
  <2>1. GoOn(k, u)
    BY <1>3, Zenon DEF Failed
  <2>2. /\ u \in ScreenType /\ u.card = screen.card /\ u.busy = screen.busy
        /\ u.loading = screen.loading /\ ~u.reading
    BY <1>1 DEF ScreenType
  <2>3. FlagsShown(c, u)
    BY <1>3, <2>2 DEF FlagsShown
  <2>4. QED
    BY <2>1, <2>2, <2>3
<1>4. CASE c.kind \in {"reread", "timer"}
  <2>1. GoOn(k, screen)
    BY <1>4, Zenon DEF Failed
  <2>2. FlagsShown(c, screen)
    BY <1>4 DEF FlagsShown
  <2>3. QED
    BY <1>1, <2>1, <2>2
<1>5. QED
  BY <1>1, <1>2, <1>3, <1>4 DEF ChainType, Kinds

LEMMA FailedButton ==
  ASSUME CabinetType, NEW k \in Running, Failed(k), chains[k].kind = "op"
  PROVE  /\ screen' \in ScreenType /\ screen'.list = screen.list /\ screen'.card = screen.card
         /\ screen'.loading = screen.loading /\ screen'.reading = screen.reading
         /\ screen'.busy \subseteq screen.busy /\ chains[k].hold \notin screen'.busy
         /\ "page" \in screen.busy /\ chains[k].hold # "page" => "page" \in screen'.busy
         /\ chains' = [chains EXCEPT ![k] = Idle]
<1>1. screen' = Freed(screen, chains[k].hold) /\ chains' = [chains EXCEPT ![k] = Idle]
  BY DEF Failed
<1>2. screen \in ScreenType
  BY DEF CabinetType
<1>3. QED
  BY <1>1, <1>2, FreedScreen

-----------------------------------------------------------------------------
(* Chains stay what ChainFits says.                                        *)
LEMMA FollowsFits ==
  ASSUME NEW c \in ChainType, ChainFits(c), NEW e, Follows(c, e)
  PROVE  ChainFits(e) /\ e.kind # "op" /\ e.state = "sent"
<1>1. /\ c.then \in Seq(SUBSET Steps) /\ c.then # << >> /\ ThenFits(P, c.then)
      /\ e.then = Tail(c.then) /\ e \in ChainType /\ e.state = "sent"
  BY DEF Follows, ChainFits, ChainType
<1>2. PICK r \in Head(c.then) \cap Sends : e.kind = KindOf[r]
  BY DEF Follows
<1>3. /\ StageFits(P, Head(c.then)) /\ ThenFits(P, e.then) /\ Quiet(e.then)
      /\ Head(c.then) \in SUBSET Steps
  BY <1>1, ThenTail
<1>4. /\ e.kind # "op"
      /\ e.kind = "reread" => "reread" \in Head(c.then)
      /\ e.kind = "detail" => "detail" \in Head(c.then) \/ "first" \in Head(c.then)
  BY <1>2, KindsOfSends DEF Sends
<1>5. e.doc # NoDoc
  <2>1. CASE c.doc = NoDoc
    <3>1. c.then = <<{"first"}>>
      BY <1>1, <2>1 DEF ChainFits
    <3>2. "first" \in Head(c.then)
      BY <3>1
    <3>3. QED
      BY <3>2 DEF Follows
  <2>2. CASE c.doc # NoDoc
    BY <2>2 DEF Follows
  <2>3. QED
    BY <2>1, <2>2
<1>6. /\ e.kind = "reread" => P.sticky
      /\ e.kind = "detail" /\ P.layer = "none" => ShowsAll(P)
  BY <1>3, <1>4 DEF StageFits
<1>7. QED
  BY <1>1, <1>3, <1>4, <1>5, <1>6 DEF ChainFits

LEMMA ReleasedFits ==
  ASSUME NEW c \in ChainType, ChainFits(c), NEW e, Released(c, e)
  PROVE  /\ ChainFits(e) /\ e \in ChainType /\ e # Idle /\ e.hold = "none"
         /\ e.kind = c.kind /\ e.op = c.op /\ e.doc = c.doc /\ e.filter = c.filter
         /\ e.then = c.then /\ e.state = c.state /\ e.got = c.got
<1>1. e = WithHold(c, "none") /\ "none" \in Flags
  BY DEF Released, Flags
<1>2. /\ e \in ChainType /\ e.hold = "none"
      /\ e.kind = c.kind /\ e.op = c.op /\ e.doc = c.doc /\ e.filter = c.filter
      /\ e.then = c.then /\ e.state = c.state /\ e.got = c.got
  BY <1>1, ChainWithHold
<1>3. QED
  BY <1>2, ChainIsNotIdle DEF ChainFits

(* A chain that a button, a row or a filter starts.                        *)
Started(c) ==
  \E k \in Chains : chains[k] = Idle /\ chains' = [chains EXCEPT ![k] = c]

LEMMA StartChains ==
  ASSUME CabinetType, NEW c \in ChainType, Start(c)
  PROVE  /\ Started(c) /\ chains' \in [Chains -> ChainType \cup {Idle}]
         /\ \E k \in Chains : chains[k] = Idle /\ chains'[k] = c
                              /\ \A j \in Chains \ {k} : chains'[j] = chains[j]
<1>1. PICK k \in Chains \ Running : chains' = [chains EXCEPT ![k] = c]
  BY DEF Start
<1>2. chains[k] = Idle /\ chains \in [Chains -> ChainType \cup {Idle}]
  BY <1>1 DEF Running, CabinetType
<1>3. QED
  BY <1>1, <1>2 DEF Started

LEMMA NothingQuiet == Quiet(<< >>) /\ << >> \in Seq(SUBSET Steps) /\ \A q : ThenFits(q, << >>)
BY SequelNothing DEF Quiet

LEMMA ListChain ==
  ASSUME CabinetType, NEW f \in P.filters
  PROVE  LET c == Waiting("list", "none", NoDoc, "none", f, << >>) IN
         c \in ChainType /\ ChainFits(c)
<1>1. Waiting("list", "none", NoDoc, "none", f, << >>) \in ChainType
  <2>1. docs \in [Docs -> P.states] /\ "none" \in Flags /\ "list" \in Kinds
    BY DEF CabinetType, Flags, Kinds
  <2>2. QED
    BY <2>1, NothingQuiet DEF ChainType, Waiting
<1>2. QED
  BY <1>1, NothingQuiet DEF ChainFits, Waiting

(* What each action of the user does, read off its definition.             *)
LEMMA ChooseFilterActs ==
  ASSUME CabinetType, NEW f \in P.filters, ChooseFilter(f)
  PROVE  LET c == Waiting("list", "none", NoDoc, "none", f, << >>) IN
         /\ page' = page /\ docs' = docs /\ calm' = calm /\ filter' = f
         /\ c \in ChainType /\ ChainFits(c) /\ Start(c)
         /\ screen' \in ScreenType /\ screen'.list = screen.list /\ screen'.busy = screen.busy
         /\ screen'.loading /\ screen'.reading = screen.reading
         /\ screen'.card = screen.card \/ (screen'.card = Closed /\ P.clears)
<1>1. screen \in ScreenType
  BY DEF CabinetType
<1>2. PICK card \in CardType :
        /\ card = screen.card \/ (card = Closed /\ P.clears)
        /\ screen' = [screen EXCEPT !.loading = TRUE, !.card = card]
  <2>1. screen.card \in CardType /\ Closed \in CardType
    BY <1>1 DEF ScreenType, CardType
  <2>2. PICK card \in CardType :
          /\ card = IF P.clears THEN Closed ELSE screen.card
          /\ card = screen.card \/ (card = Closed /\ P.clears)
    BY <2>1, Zenon
  <2>3. screen' = [screen EXCEPT !.loading = TRUE, !.card = card]
    BY <2>2, Zenon DEF ChooseFilter
  <2>4. QED
    BY <2>2, <2>3, Zenon
<1>3. /\ screen' \in ScreenType /\ screen'.list = screen.list /\ screen'.busy = screen.busy
      /\ screen'.loading /\ screen'.reading = screen.reading /\ screen'.card = card
  BY <1>1, <1>2 DEF ScreenType
<1>4. QED
  BY <1>2, <1>3, ListChain DEF ChooseFilter, Click

LEMMA RefreshActs ==
  ASSUME CabinetType, Refresh
  PROVE  LET c == Waiting("list", "none", NoDoc, "none", filter, << >>) IN
         /\ page' = page /\ docs' = docs /\ calm' = calm /\ filter' = filter
         /\ c \in ChainType /\ ChainFits(c) /\ Start(c)
         /\ screen' \in ScreenType /\ screen'.list = screen.list /\ screen'.busy = screen.busy
         /\ screen'.loading /\ screen'.reading = screen.reading /\ screen'.card = screen.card
<1>1. screen \in ScreenType /\ filter \in P.filters
  BY DEF CabinetType
<1>2. screen' = [screen EXCEPT !.loading = TRUE]
  BY DEF Refresh
<1>3. /\ screen' \in ScreenType /\ screen'.list = screen.list /\ screen'.busy = screen.busy
      /\ screen'.loading /\ screen'.reading = screen.reading /\ screen'.card = screen.card
  BY <1>1, <1>2 DEF ScreenType
<1>4. QED
  BY <1>1, <1>3, ListChain DEF Refresh, Click

LEMMA OpenActs ==
  ASSUME CabinetType, PageFits(P), NEW d \in Docs, Open(d)
  PROVE  LET c == Waiting("detail", "none", d, "none", filter, << >>) IN
         /\ page' = page /\ docs' = docs /\ calm' = calm /\ filter' = filter
         /\ screen' \in ScreenType /\ screen'.list = screen.list /\ screen'.busy = screen.busy
         /\ screen'.loading = screen.loading
         /\ P.row = "fetch" => screen'.card = screen.card
         /\ \/ P.row = "row" /\ chains' = chains /\ ~screen'.reading
            \/ P.row # "row" /\ c \in ChainType /\ ChainFits(c) /\ Start(c) /\ screen'.reading
<1> DEFINE c == Waiting("detail", "none", d, "none", filter, << >>)
<1>1. screen \in ScreenType /\ filter \in P.filters /\ docs \in [Docs -> P.states]
  BY DEF CabinetType
<1>2. screen.list[d] \in Statuses
  BY <1>1 DEF ScreenType
<1>3. PICK card \in CardType, r \in BOOLEAN :
        /\ P.row = "fetch" => card = screen.card
        /\ r = (P.row # "row")
        /\ screen' = [screen EXCEPT !.card = card, !.reading = r]
  <2>1. PICK r \in BOOLEAN : r = (P.row # "row")
    OBVIOUS
  <2>2. screen.card \in CardType /\ [doc |-> d, status |-> screen.list[d]] \in CardType
    BY <1>1, <1>2 DEF ScreenType, CardType
  <2>3. screen' = [screen EXCEPT !.card = IF P.row = "fetch" THEN screen.card
                                          ELSE [doc |-> d, status |-> screen.list[d]],
                                 !.reading = r]
    BY <2>1, Zenon DEF Open
  <2>4. QED
    BY <2>1, <2>2, <2>3, Zenon
<1>4. /\ screen' \in ScreenType /\ screen'.list = screen.list /\ screen'.busy = screen.busy
      /\ screen'.loading = screen.loading /\ screen'.reading = r /\ screen'.card = card
  BY <1>1, <1>3 DEF ScreenType
<1>5. c \in ChainType
  <2>1. "none" \in Flags /\ "detail" \in Kinds
    BY DEF Flags, Kinds
  <2>2. QED
    BY <1>1, <2>1, NothingQuiet DEF ChainType, Waiting
<1>6. P.row # "row" => ChainFits(c)
  <2>1. P.row # "none" /\ P.row \in {"none", "fetch", "row", "both"}
    BY DEF Open, PageFits
  <2>2. P.row \in {"fetch", "both"} => P.layer # "none"
    BY DEF PageFits
  <2>3. d # NoDoc
    OBVIOUS
  <2>4. QED
    BY <2>1, <2>2, <2>3, NothingQuiet DEF ChainFits, Waiting
<1>7. /\ page' = page /\ docs' = docs /\ calm' = calm /\ filter' = filter
      /\ IF P.row = "row" THEN chains' = chains ELSE Start(c)
  BY DEF Open, Click
<1>8. QED
  BY <1>3, <1>4, <1>5, <1>6, <1>7, Zenon

LEMMA CloseActs ==
  ASSUME CabinetType, Close
  PROVE  /\ page' = page /\ docs' = docs /\ calm' = calm /\ filter' = filter
         /\ screen' \in ScreenType /\ screen'.list = screen.list /\ screen'.card = Closed
         /\ screen'.busy = screen.busy \ {"drawer"}
         /\ screen'.loading = screen.loading /\ screen'.reading = screen.reading
         /\ chains' \in [Chains -> ChainType \cup {Idle}]
         /\ \A j \in Chains : /\ chains'[j] = chains[j] \/ Released(chains[j], chains'[j])
                              /\ chains'[j] # Idle => chains'[j].hold # "drawer"
<1>1. screen \in ScreenType /\ screen' = Shut(screen) /\ chains' = Drop(chains)
  BY DEF CabinetType, Close
<1>2. Drop(chains) = [k \in Chains |-> Drop(chains)[k]]
  BY DEF Drop
<1>3. QED
  BY <1>1, <1>2, ShutScreen, DroppedChain DEF Close

LEMMA PressActs ==
  ASSUME CabinetType, PageFits(P), NEW a \in P.acts, NEW d \in Docs, Press(a, d)
  PROVE  LET c == Waiting("op", a.op, d, Flag(a, d), filter, a.then) IN
         /\ page' = page /\ docs' = docs /\ calm' = calm /\ filter' = filter
         /\ c \in ChainType /\ ChainFits(c) /\ Start(c)
         /\ screen' \in ScreenType /\ screen'.list = screen.list /\ screen'.card = screen.card
         /\ screen'.loading = screen.loading /\ screen'.reading = screen.reading
         /\ Flag(a, d) \notin screen.busy
         /\ \A b \in screen'.busy : b \in screen.busy \/ (b = Flag(a, d) /\ a.held # "none")
         /\ "page" \in screen.busy => "page" \in screen'.busy
         /\ a.held = "page" => "page" \in screen'.busy
<1> DEFINE c == Waiting("op", a.op, d, Flag(a, d), filter, a.then)
<1>1. screen \in ScreenType /\ filter \in P.filters /\ docs \in [Docs -> P.states]
  BY DEF CabinetType
<1>2. /\ a.held \in {"none", "page", "own", "row", "drawer"}
      /\ a.then \in Seq(SUBSET Steps) /\ ThenFits(P, a.then)
  BY DEF PageFits, ActFits
<1>3. Flag(a, d) \in Flags /\ (a.held = "page" => Flag(a, d) = "page")
  BY <1>2 DEF Flag, Flags, Ops
<1>4. /\ page' = page /\ docs' = docs /\ calm' = calm /\ filter' = filter
      /\ Start(c) /\ Flag(a, d) \notin screen.busy
  BY DEF Press, Click, Offered
<1>5. c \in ChainType
  <2>1. "op" \in Kinds /\ a.op \in Ops
    BY DEF Kinds, Ops
  <2>2. QED
    BY <1>1, <1>2, <1>3, <2>1 DEF ChainType, Waiting
<1>6. ChainFits(c)
  BY <1>2, <1>5 DEF ChainFits, Waiting
<1>7. PICK busy \in SUBSET Flags :
        /\ busy = IF a.held = "none" THEN screen.busy
                  ELSE IF a.held = "row" THEN (screen.busy \ Docs) \cup {d}
                  ELSE screen.busy \cup {Flag(a, d)}
        /\ screen' = [screen EXCEPT !.busy = busy]
  BY <1>1, <1>3 DEF Press, ScreenType, Flags
<1>8. /\ screen' \in ScreenType /\ screen'.list = screen.list /\ screen'.card = screen.card
      /\ screen'.loading = screen.loading /\ screen'.reading = screen.reading
      /\ screen'.busy = busy
  BY <1>1, <1>7 DEF ScreenType
<1>9. /\ \A b \in busy : b \in screen.busy \/ (b = Flag(a, d) /\ a.held # "none")
      /\ "page" \in screen.busy => "page" \in busy
      /\ a.held = "page" => "page" \in busy
  BY <1>3, <1>7 DEF Flag
<1>10. QED
  BY <1>4, <1>5, <1>6, <1>8, <1>9

-----------------------------------------------------------------------------
(* What the server does, and what an answer does, read off the actions.    *)
WithAnswer(c, st, got) == [c EXCEPT !.state = st, !.got = got]

LEMMA ChainWithAnswer ==
  ASSUME NEW c \in ChainType, NEW st \in {"sent", "done", "refused"},
         NEW got \in [Docs -> P.states]
  PROVE  LET e == WithAnswer(c, st, got) IN
         /\ e \in ChainType /\ e.state = st /\ e.got = got
         /\ e.kind = c.kind /\ e.op = c.op /\ e.doc = c.doc /\ e.hold = c.hold
         /\ e.filter = c.filter /\ e.then = c.then
BY DEF ChainType, WithAnswer

Reads(c, e) ==
  /\ c.kind # "op" /\ e.got = docs'
  /\ \/ docs' = docs
     \/ /\ P.marks /\ c.kind = "detail" /\ docs[c.doc] \in {"generated", "sent"}
        /\ docs' = [docs EXCEPT ![c.doc] = "viewed"]
  /\ c.kind = "list" => e.state = "done"
  /\ c.kind # "list" => (e.state = "done" <=> docs[c.doc] \notin {"absent", "gone"})
  /\ P.marks /\ c.kind = "detail" => docs'[c.doc] \notin {"generated", "sent"}

Executes(c, e) ==
  /\ c.kind = "op"
  /\ \/ /\ e.state = "refused" /\ docs' = docs
        /\ ~Accepts(P, c.op, docs[c.doc])
     \/ /\ e.state = "done" /\ e.got = docs'
        /\ \E m \in Writes(P, c.op) :
             m[2] = docs[c.doc] /\ docs' = [docs EXCEPT ![c.doc] = m[3]]

Served(c, e) ==
  /\ e \in ChainType /\ c.state = "sent" /\ e.state \in {"done", "refused"}
  /\ e.kind = c.kind /\ e.op = c.op /\ e.doc = c.doc /\ e.hold = c.hold
  /\ e.filter = c.filter /\ e.then = c.then
  /\ c.kind # "timer"
  /\ Reads(c, e) \/ Executes(c, e)

LEMMA ServeActs ==
  ASSUME CabinetType, PageFits(P), ChainsFit, NEW k \in Chains, Serve(k)
  PROVE  /\ k \in Running
         /\ page' = page /\ filter' = filter /\ screen' = screen /\ calm' = calm
         /\ docs' \in [Docs -> P.states]
         /\ Served(chains[k], chains'[k])
         /\ \A j \in Chains \ {k} : chains'[j] = chains[j]
         /\ chains' \in [Chains -> ChainType \cup {Idle}]
<1> DEFINE c == chains[k]
<1>1. /\ k \in Running /\ c.kind # "timer" /\ c.state = "sent"
      /\ page' = page /\ filter' = filter /\ screen' = screen /\ calm' = calm
      /\ IF c.kind = "op" THEN ServeOp(k) ELSE ServeRead(k)
  BY DEF Serve
<1>2. /\ c \in ChainType /\ ChainFits(c) /\ docs \in [Docs -> P.states]
      /\ chains \in [Chains -> ChainType \cup {Idle}]
  BY <1>1, RunningChain DEF CabinetType, ChainsFit
<1>3. c.kind # "list" => c.doc \in Docs
  BY <1>2 DEF ChainFits, ChainType
<1>4. SUFFICES \E e \in ChainType :
                 /\ chains' = [chains EXCEPT ![k] = e]
                 /\ docs' \in [Docs -> P.states] /\ Served(c, e)
  BY <1>1, <1>2
<1>5. CASE c.kind # "op"
  <2> DEFINE marked == c.kind = "detail" /\ P.marks /\ docs[c.doc] \in {"generated", "sent"}
             missing == c.kind # "list" /\ docs[c.doc] \in {"absent", "gone"}
             st == IF missing THEN "refused" ELSE "done"
             e == WithAnswer(c, st, docs')
  <2>1. /\ docs' = IF marked THEN [docs EXCEPT ![c.doc] = "viewed"] ELSE docs
        /\ chains' = [chains EXCEPT ![k].state = st, ![k].got = docs']
    BY <1>1, <1>5, Zenon DEF ServeRead
  <2>2. marked => "viewed" \in P.states /\ c.doc \in Docs
    BY <1>3 DEF PageFits, MarksFit
  <2>3. docs' \in [Docs -> P.states]
    BY <1>2, <2>1, <2>2
  <2>4. chains' = [chains EXCEPT ![k] = e]
    BY <1>2, <2>1 DEF WithAnswer
  <2>5. st \in {"sent", "done", "refused"} /\ (st = "done" <=> ~missing)
    OBVIOUS
  <2>6. /\ e \in ChainType /\ e.state = st /\ e.got = docs'
        /\ e.kind = c.kind /\ e.op = c.op /\ e.doc = c.doc /\ e.hold = c.hold
        /\ e.filter = c.filter /\ e.then = c.then
    BY <1>2, <2>3, <2>5, ChainWithAnswer
  <2>7. P.marks /\ c.kind = "detail" => docs'[c.doc] \notin {"generated", "sent"}
    BY <1>2, <1>3, <2>1
  <2>8. Reads(c, e)
    BY <1>5, <2>1, <2>5, <2>6, <2>7, Zenon DEF Reads
  <2>9. QED
    BY <1>1, <2>3, <2>4, <2>5, <2>6, <2>8, Zenon DEF Served
<1>6. CASE c.kind = "op"
  <2> DEFINE moves == {m \in Handlers : m[1] = c.op /\ m[2] = docs[c.doc] /\ m[3] \in P.states}
  <2>1. \/ /\ moves = {} \/ c.op \in DeniedElsewhere
           /\ docs' = docs
           /\ chains' = [chains EXCEPT ![k].state = "refused"]
        \/ \E m \in moves : /\ docs' = [docs EXCEPT ![c.doc] = m[3]]
                            /\ chains' = [chains EXCEPT ![k].state = "done", ![k].got = docs']
    BY <1>1, <1>6, Zenon DEF ServeOp
  <2>2. CASE /\ moves = {} \/ c.op \in DeniedElsewhere
             /\ docs' = docs
             /\ chains' = [chains EXCEPT ![k].state = "refused"]
    <3> DEFINE e == WithAnswer(c, "refused", c.got)
    <3>1. chains' = [chains EXCEPT ![k] = e]
      BY <1>2, <2>2 DEF WithAnswer, ChainType
    <3>2. c.got \in [Docs -> P.states]
      BY <1>2 DEF ChainType
    <3>3. /\ e \in ChainType /\ e.state = "refused"
          /\ e.kind = c.kind /\ e.op = c.op /\ e.doc = c.doc /\ e.hold = c.hold
          /\ e.filter = c.filter /\ e.then = c.then
      BY <1>2, <3>2, ChainWithAnswer
    <3>4. ~Accepts(P, c.op, docs[c.doc])
      BY <2>2 DEF Accepts, Writes
    <3>5. Executes(c, e)
      BY <1>6, <2>2, <3>3, <3>4, Zenon DEF Executes
    <3>6. QED
      BY <1>1, <1>2, <2>2, <3>1, <3>3, <3>5, Zenon DEF Served
  <2>3. ASSUME NEW m \in moves, docs' = [docs EXCEPT ![c.doc] = m[3]],
               chains' = [chains EXCEPT ![k].state = "done", ![k].got = docs']
        PROVE  \E e \in ChainType :
                 /\ chains' = [chains EXCEPT ![k] = e]
                 /\ docs' \in [Docs -> P.states] /\ Served(c, e)
    <3> DEFINE e == WithAnswer(c, "done", docs')
    <3>1. chains' = [chains EXCEPT ![k] = e]
      BY <1>2, <2>3 DEF WithAnswer
    <3>2. docs' \in [Docs -> P.states]
      BY <1>2, <1>3, <1>6, <2>3
    <3>3. /\ e \in ChainType /\ e.state = "done" /\ e.got = docs'
          /\ e.kind = c.kind /\ e.op = c.op /\ e.doc = c.doc /\ e.hold = c.hold
          /\ e.filter = c.filter /\ e.then = c.then
      BY <1>2, <3>2, ChainWithAnswer
    <3>4. m \in Writes(P, c.op) /\ m[2] = docs[c.doc]
      BY DEF Writes
    <3>5. Executes(c, e)
      BY <1>6, <2>3, <3>3, <3>4, Zenon DEF Executes
    <3>6. QED
      BY <1>1, <3>1, <3>2, <3>3, <3>5, Zenon DEF Served
  <2>4. QED
    BY <2>1, <2>2, <2>3
<1>7. QED
  BY <1>5, <1>6

(* The three ways a chain ends its wait: an answer, a refusal, a loss.     *)
Fails(k) ==
  /\ k \in Running /\ Failed(k) /\ ~calm' /\ calm' \in BOOLEAN
  /\ page' = page /\ docs' = docs /\ filter' = filter

LEMMA FailsActs ==
  ASSUME NEW k \in Chains, Refused(k) \/ Lose(k)
  PROVE  Fails(k)
BY DEF Refused, Lose, Fails

LEMMA ForeignActs ==
  ASSUME CabinetType, NEW d \in Docs, Foreign(d)
  PROVE  /\ page' = page /\ filter' = filter /\ screen' = screen /\ chains' = chains
         /\ calm' = FALSE /\ docs' \in [Docs -> P.states]
BY DEF Foreign, CabinetType

LEMMA AnswerActs ==
  ASSUME CabinetType, PageFits(P), ChainsFit, NEW k \in Chains, Answer(k)
  PROVE  /\ k \in Running
         /\ page' = page /\ docs' = docs /\ filter' = filter
         /\ calm' \in BOOLEAN /\ (calm' => calm /\ ~Overtaken(chains[k]))
         /\ chains[k].kind = "timer" \/ chains[k].state = "done"
         /\ Shown(chains[k]) \in ScreenType /\ Showing(chains[k], Shown(chains[k]))
         /\ FlagsShown(chains[k], Shown(chains[k]))
         /\ GoOn(k, Shown(chains[k]))
<1>1. k \in Running /\ GoOn(k, Shown(chains[k]))
  BY DEF Answer
<1>2. /\ page' = page /\ docs' = docs /\ filter' = filter
      /\ chains[k].kind = "timer" \/ chains[k].state = "done"
  BY DEF Answer
<1>3. calm' = (calm /\ ~Overtaken(chains[k]))
  BY DEF Answer
<1>4. calm' \in BOOLEAN /\ (calm' => calm /\ ~Overtaken(chains[k]))
  BY <1>3, Zenon
<1>5. /\ Shown(chains[k]) \in ScreenType /\ Showing(chains[k], Shown(chains[k]))
      /\ FlagsShown(chains[k], Shown(chains[k]))
  BY <1>1, RunningChain, ShownScreen DEF ChainsFit
<1>6. QED
  BY <1>1, <1>2, <1>4, <1>5

-----------------------------------------------------------------------------
(* What a step makes of the chains: each chain of the next state was there *)
(* already, was released or served, follows one, or has just been started. *)
Same(c, e) ==
  /\ e.kind = c.kind /\ e.op = c.op /\ e.doc = c.doc /\ e.filter = c.filter
  /\ e.then = c.then

LEMMA SameFits ==
  ASSUME NEW c \in ChainType, ChainFits(c), NEW e \in ChainType, Same(c, e),
         e.kind = "timer" => e.state = "sent"
  PROVE  ChainFits(e)
BY DEF ChainFits, Same

TypesNext ==
  /\ page' = page
  /\ docs' \in [Docs -> P.states]
  /\ filter' \in P.filters
  /\ screen' \in ScreenType
  /\ chains' \in [Chains -> ChainType \cup {Idle}]
  /\ calm' \in BOOLEAN
  /\ \A j \in Chains : chains'[j] # Idle => ChainFits(chains'[j])

LEMMA TypesKept ==
  ASSUME TypesNext, CabinetType
  PROVE  CabinetType' /\ ChainsFit'
<1>1. P' = P
  BY DEF TypesNext, P
<1>2. /\ Statuses' = Statuses /\ Flags' = Flags /\ Ops' = Ops
  BY <1>1 DEF Statuses, Flags, Ops
<1>3. CardType' = CardType
  BY <1>2 DEF CardType
<1>4. ChainType' = ChainType /\ ScreenType' = ScreenType
  BY <1>1, <1>2, <1>3 DEF ChainType, ScreenType
<1>5. CabinetType'
  BY <1>1, <1>4 DEF CabinetType, TypesNext
<1>6. ChainsFit'
  BY <1>1 DEF ChainsFit, ChainFits, TypesNext, Running
<1>7. QED
  BY <1>5, <1>6

LEMMA StartedFits ==
  ASSUME CabinetType, ChainsFit, NEW c \in ChainType, ChainFits(c), Start(c)
  PROVE  /\ chains' \in [Chains -> ChainType \cup {Idle}]
         /\ \A j \in Chains : chains'[j] # Idle => ChainFits(chains'[j])
BY StartChains DEF ChainsFit, Running

LEMMA GoOnFits ==
  ASSUME CabinetType, ChainsFit, NEW k \in Running, NEW s, GoOn(k, s)
  PROVE  /\ chains' \in [Chains -> ChainType \cup {Idle}]
         /\ \A j \in Chains : chains'[j] # Idle => ChainFits(chains'[j])
<1>1. /\ chains' \in [Chains -> ChainType \cup {Idle}]
      /\ \A j \in Chains \ {k} : \/ chains'[j] = chains[j]
                                 \/ Released(chains[j], chains'[j])
      /\ chains'[k] = Idle \/ Follows(chains[k], chains'[k])
  BY GoOnChains
<1>2. ASSUME NEW j \in Chains, chains'[j] # Idle
      PROVE  ChainFits(chains'[j])
  <2>1. chains[j] # Idle => chains[j] \in ChainType /\ ChainFits(chains[j])
    BY RunningChain DEF ChainsFit, Running
  <2>2. k \in Chains /\ chains[k] # Idle
    BY DEF Running
  <2>3. CASE j = k
    BY <1>1, <1>2, <2>1, <2>2, <2>3, FollowsFits
  <2>4. CASE chains'[j] = chains[j]
    BY <1>2, <2>1, <2>4
  <2>5. CASE Released(chains[j], chains'[j])
    BY <2>1, <2>5, ReleasedFits DEF Released
  <2>6. QED
    BY <1>1, <2>3, <2>4, <2>5
<1>3. QED
  BY <1>1, <1>2

LEMMA TypesNextStep ==
  ASSUME PageFits(P), CabinetType, ChainsFit, CabinetNext
  PROVE  TypesNext
<1>1. /\ docs \in [Docs -> P.states] /\ filter \in P.filters /\ screen \in ScreenType
      /\ chains \in [Chains -> ChainType \cup {Idle}] /\ calm \in BOOLEAN
      /\ \A j \in Chains : chains[j] # Idle => ChainFits(chains[j])
  BY DEF CabinetType, ChainsFit, Running
<1>2. ASSUME NEW f \in P.filters, ChooseFilter(f)
      PROVE  TypesNext
  <2>1. \E c \in ChainType : ChainFits(c) /\ Start(c)
    BY <1>2, ChooseFilterActs
  <2>2. QED
    BY <1>1, <1>2, <2>1, ChooseFilterActs, StartedFits DEF TypesNext
<1>3. CASE Refresh
  <2>1. \E c \in ChainType : ChainFits(c) /\ Start(c)
    BY <1>3, RefreshActs
  <2>2. QED
    BY <1>1, <1>3, <2>1, RefreshActs, StartedFits DEF TypesNext
<1>4. ASSUME NEW d \in Docs, Open(d)
      PROVE  TypesNext
  <2>1. chains' = chains \/ \E c \in ChainType : ChainFits(c) /\ Start(c)
    BY <1>4, OpenActs
  <2>2. QED
    BY <1>1, <1>4, <2>1, OpenActs, StartedFits DEF TypesNext
<1>5. CASE Close
  <2>1. ASSUME NEW j \in Chains, chains'[j] # Idle
        PROVE  ChainFits(chains'[j])
    <3>1. chains'[j] = chains[j] \/ Released(chains[j], chains'[j])
      BY <1>5, CloseActs
    <3>2. chains[j] # Idle => chains[j] \in ChainType
      BY <1>1
    <3>3. QED
      BY <1>1, <2>1, <3>1, <3>2, ReleasedFits DEF Released
  <2>2. QED
    BY <1>1, <1>5, <2>1, CloseActs DEF TypesNext
<1>6. ASSUME NEW a \in P.acts, NEW d \in Docs, Press(a, d)
      PROVE  TypesNext
  <2>1. \E c \in ChainType : ChainFits(c) /\ Start(c)
    BY <1>6, PressActs
  <2>2. QED
    BY <1>1, <1>6, <2>1, PressActs, StartedFits DEF TypesNext
<1>7. ASSUME NEW k \in Chains, Serve(k)
      PROVE  TypesNext
  <2>1. k \in Running /\ Served(chains[k], chains'[k])
        /\ \A j \in Chains \ {k} : chains'[j] = chains[j]
    BY <1>7, ServeActs
  <2>2. ChainFits(chains'[k])
    BY <2>1, <1>1, RunningChain, SameFits DEF Served, Same, Running
  <2>3. QED
    BY <1>1, <1>7, <2>1, <2>2, ServeActs DEF TypesNext
<1>8. ASSUME NEW k \in Chains, Answer(k)
      PROVE  TypesNext
  <2>1. GoOn(k, Shown(chains[k])) /\ Shown(chains[k]) \in ScreenType /\ k \in Running
    BY <1>8, AnswerActs
  <2>2. screen' \in ScreenType
    BY <2>1, GoOnScreen
  <2>3. QED
    BY <1>1, <1>8, <2>1, <2>2, AnswerActs, GoOnFits DEF TypesNext
<1>9. ASSUME NEW k \in Chains, Fails(k)
      PROVE  TypesNext
  <2>1. k \in Running /\ Failed(k)
    BY <1>9 DEF Fails
  <2>2. CASE chains[k].kind = "op"
    <3>1. screen' \in ScreenType /\ chains' = [chains EXCEPT ![k] = Idle]
      BY <2>1, <2>2, FailedButton
    <3>2. /\ chains' \in [Chains -> ChainType \cup {Idle}]
          /\ \A j \in Chains : chains'[j] # Idle => ChainFits(chains'[j])
      BY <1>1, <3>1
    <3>3. QED
      BY <1>1, <1>9, <3>1, <3>2 DEF Fails, TypesNext
  <2>3. CASE chains[k].kind # "op"
    <3>1. PICK s \in ScreenType : GoOn(k, s)
      BY <2>1, <2>3, FailedScreen
    <3>2. screen' \in ScreenType
      BY <2>1, <3>1, GoOnScreen
    <3>3. QED
      BY <1>1, <1>9, <2>1, <3>1, <3>2, GoOnFits DEF Fails, TypesNext
  <2>4. QED
    BY <2>2, <2>3
<1>10. ASSUME NEW d \in Docs, Foreign(d)
       PROVE  TypesNext
  BY <1>1, <1>10, ForeignActs DEF TypesNext
<1>11. QED
  BY <1>2, <1>3, <1>4, <1>5, <1>6, <1>7, <1>8, <1>9, <1>10, FailsActs DEF CabinetNext

-----------------------------------------------------------------------------
(* Flags: what is set on the screen is held by a chain that gives it back. *)
FlagsInv == BusyHeld /\ LoadsShown /\ ReadsShown

(* The same of the next state, on the page that stays.                     *)
FlagsNext ==
  /\ \A b \in screen'.busy :
       \E j \in Chains : chains'[j] # Idle /\ GivesBack(chains'[j], b)
  /\ screen'.loading =>
       \E j \in Chains : /\ chains'[j] # Idle /\ chains'[j].kind = "list"
                         /\ P.guarded => chains'[j].filter = filter'
  /\ screen'.reading => \E j \in Chains : chains'[j] # Idle /\ chains'[j].kind = "detail"

LEMMA FlagsKept == FlagsNext /\ page' = page => FlagsInv'
<1>1. page' = page => P' = P
  BY DEF P
<1>2. QED
  BY <1>1 DEF FlagsNext, FlagsInv, BusyHeld, LoadsShown, ReadsShown, Running, GivesBack

LEMMA FlagsOfGoOn ==
  ASSUME CabinetType, ChainsFit, FlagsInv, NEW k \in Running, NEW s \in ScreenType,
         GoOn(k, s), FlagsShown(chains[k], s), filter' = filter
  PROVE  FlagsNext
<1> DEFINE c == chains[k]
           stage == Head(c.then)
<1>1. /\ k \in Chains /\ c \in ChainType /\ ChainFits(c) /\ c.then \in Seq(SUBSET Steps)
      /\ s.busy = screen.busy
      /\ s.loading => screen.loading /\ (c.kind = "list" => ListIgnored(c))
      /\ s.reading => screen.reading /\ c.kind # "detail"
  BY RunningChain DEF ChainsFit, ChainType, FlagsShown
<1>2. /\ \A j \in Chains \ {k} : \/ chains'[j] = chains[j]
                                 \/ Closes(c) /\ Released(chains[j], chains'[j])
      /\ chains'[k] = Idle \/ Follows(c, chains'[k])
      /\ c.then # << >> /\ Passes(stage) => chains'[k] # Idle
  BY GoOnChains
<1>3. /\ c.then = << >> => screen' = s /\ chains'[k] = Idle
      /\ c.then # << >> =>
           /\ StepShows(c, stage, s, screen')
           /\ screen'.reading =>
                \/ s.reading
                \/ chains'[k] # Idle /\ stage \cap {"detail", "first"} # {}
  BY GoOnScreen
<1>4. c.then # << >> => StageFits(P, stage) /\ stage \in SUBSET Steps
  BY <1>1, ThenTail DEF ChainFits
<1>5. ASSUME NEW j \in Chains \ {k}, chains[j] # Idle
      PROVE  /\ chains'[j] # Idle
             /\ chains'[j].kind = chains[j].kind /\ chains'[j].filter = chains[j].filter
             /\ chains'[j].then = chains[j].then
             /\ \/ chains'[j].hold = chains[j].hold
                \/ Closes(c) /\ chains[j].hold = "drawer"
  <2>1. chains[j] \in ChainType /\ ChainFits(chains[j])
    BY <1>5, RunningChain DEF Running, ChainsFit
  <2>2. QED
    BY <1>2, <1>5, <2>1, ReleasedFits DEF Released
<1>6. ASSUME NEW b \in screen'.busy
      PROVE  \E j \in Chains : chains'[j] # Idle /\ GivesBack(chains'[j], b)
  <2>1. b \in screen.busy
    BY <1>1, <1>3, <1>6 DEF StepShows
  <2>2. PICK j \in Running : chains[j].hold = b /\ Comes(chains[j].then, FreedBy(b))
    BY <2>1 DEF FlagsInv, BusyHeld, GivesBack
  <2>3. ~(Closes(c) /\ b = "drawer")
    BY <1>3, <1>6 DEF StepShows, Closes
  <2>4. CASE j # k
    BY <1>5, <2>2, <2>3, <2>4 DEF Running, GivesBack
  <2>5. CASE j = k
    <3>1. /\ c.then # << >>
          /\ stage \cap FreedBy(b) = {} => Passes(stage) /\ Comes(Tail(c.then), FreedBy(b))
      BY <1>1, <2>2, <2>5, ComesNext
    <3>2. stage \cap FreedBy(b) = {}
      BY <1>3, <1>6, <2>2, <2>5, <3>1 DEF StepShows, FreedBy
    <3>3. chains'[k] # Idle /\ Follows(c, chains'[k])
      BY <1>2, <3>1, <3>2
    <3>4. chains'[k].hold = b /\ chains'[k].then = Tail(c.then)
      BY <2>2, <2>3, <2>5, <3>1, <3>3 DEF Follows, Closes
    <3>5. QED
      BY <1>1, <3>1, <3>2, <3>3, <3>4 DEF GivesBack
  <2>6. QED
    BY <2>4, <2>5
<1>7. ASSUME screen'.loading
      PROVE  \E j \in Chains : /\ chains'[j] # Idle /\ chains'[j].kind = "list"
                               /\ P.guarded => chains'[j].filter = filter'
  <2>1. CASE s.loading
    <3>1. PICK j \in Running : /\ chains[j].kind = "list"
                               /\ P.guarded => chains[j].filter = filter
      BY <1>1, <2>1 DEF FlagsInv, LoadsShown
    <3>2. j # k
      BY <1>1, <2>1, <3>1 DEF ListIgnored
    <3>3. QED
      BY <1>5, <3>1, <3>2 DEF Running
  <2>2. CASE c.then # << >> /\ "load" \in stage
    <3>1. stage \cap Sends = {"load"} /\ ~P.guarded
      BY <1>4, <2>2 DEF StageFits
    <3>2. Passes(stage)
      BY <3>1 DEF Passes, Sends
    <3>3. chains'[k] # Idle /\ Follows(c, chains'[k])
      BY <1>2, <2>2, <3>2
    <3>4. chains'[k].kind = "list"
      BY <3>1, <3>3, KindsOfSends DEF Follows
    <3>5. QED
      BY <1>1, <3>1, <3>3, <3>4
  <2>3. QED
    BY <1>3, <1>7, <2>1, <2>2 DEF StepShows
<1>8. ASSUME screen'.reading
      PROVE  \E j \in Chains : chains'[j] # Idle /\ chains'[j].kind = "detail"
  <2>1. CASE s.reading
    <3>1. PICK j \in Running : chains[j].kind = "detail"
      BY <1>1, <2>1 DEF FlagsInv, ReadsShown
    <3>2. j # k
      BY <1>1, <2>1, <3>1
    <3>3. QED
      BY <1>5, <3>1, <3>2 DEF Running
  <2>2. CASE c.then # << >> /\ chains'[k] # Idle /\ stage \cap {"detail", "first"} # {}
    <3>1. stage \cap Sends \subseteq {"detail", "first"}
      BY <1>4, <2>2 DEF StageFits
    <3>2. Follows(c, chains'[k])
      BY <1>2, <2>2
    <3>3. chains'[k].kind = "detail"
      BY <3>1, <3>2, KindsOfSends DEF Follows
    <3>4. QED
      BY <1>1, <2>2, <3>3
  <2>3. QED
    BY <1>3, <1>8, <2>1, <2>2
<1>9. QED
  BY <1>6, <1>7, <1>8 DEF FlagsNext

(* A chain started on an idle place leaves the others where they are.      *)
LEMMA FlagsOfStart ==
  ASSUME CabinetType, FlagsInv, NEW c \in ChainType, Start(c),
         \A b \in screen'.busy : b \in screen.busy \/ GivesBack(c, b),
         screen'.loading => \/ screen.loading /\ filter' = filter
                            \/ c.kind = "list" /\ c.filter = filter',
         screen'.reading => screen.reading \/ c.kind = "detail"
  PROVE  FlagsNext
<1>1. PICK k \in Chains : /\ chains[k] = Idle /\ chains'[k] = c
                          /\ \A j \in Chains \ {k} : chains'[j] = chains[j]
  BY StartChains
<1>2. chains'[k] # Idle /\ \A j \in Running : chains'[j] = chains[j] /\ chains'[j] # Idle
                                              /\ j \in Chains
  BY <1>1, ChainIsNotIdle DEF Running
<1>3. ASSUME NEW b \in screen'.busy
      PROVE  \E j \in Chains : chains'[j] # Idle /\ GivesBack(chains'[j], b)
  BY <1>1, <1>2, <1>3 DEF FlagsInv, BusyHeld
<1>4. ASSUME screen'.loading
      PROVE  \E j \in Chains : /\ chains'[j] # Idle /\ chains'[j].kind = "list"
                               /\ P.guarded => chains'[j].filter = filter'
  BY <1>1, <1>2, <1>4 DEF FlagsInv, LoadsShown
<1>5. ASSUME screen'.reading
      PROVE  \E j \in Chains : chains'[j] # Idle /\ chains'[j].kind = "detail"
  BY <1>1, <1>2, <1>5 DEF FlagsInv, ReadsShown
<1>6. QED
  BY <1>3, <1>4, <1>5 DEF FlagsNext

LEMMA FlagsNextStep ==
  ASSUME PageFits(P), CabinetType, ChainsFit, FlagsInv, CabinetNext
  PROVE  FlagsNext
<1>1. \A j \in Running : j \in Chains /\ chains[j] # Idle
  BY DEF Running
<1>2. ASSUME NEW f \in P.filters, ChooseFilter(f)
      PROVE  FlagsNext
  <2> DEFINE c == Waiting("list", "none", NoDoc, "none", f, << >>)
  <2>1. /\ c \in ChainType /\ Start(c) /\ filter' = f
        /\ screen'.busy = screen.busy /\ screen'.reading = screen.reading
    BY <1>2, ChooseFilterActs
  <2>2. c.kind = "list" /\ c.filter = f
    BY DEF Waiting
  <2>3. QED
    BY <2>1, <2>2, FlagsOfStart
<1>3. CASE Refresh
  <2> DEFINE c == Waiting("list", "none", NoDoc, "none", filter, << >>)
  <2>1. /\ c \in ChainType /\ Start(c) /\ filter' = filter
        /\ screen'.busy = screen.busy /\ screen'.reading = screen.reading
    BY <1>3, RefreshActs
  <2>2. c.kind = "list" /\ c.filter = filter
    BY DEF Waiting
  <2>3. QED
    BY <2>1, <2>2, FlagsOfStart
<1>4. ASSUME NEW d \in Docs, Open(d)
      PROVE  FlagsNext
  <2> DEFINE c == Waiting("detail", "none", d, "none", filter, << >>)
  <2>1. /\ filter' = filter
        /\ screen'.busy = screen.busy /\ screen'.loading = screen.loading
        /\ \/ chains' = chains /\ ~screen'.reading
           \/ c \in ChainType /\ Start(c) /\ screen'.reading
    BY <1>4, OpenActs
  <2>2. c.kind = "detail"
    BY DEF Waiting
  <2>3. CASE c \in ChainType /\ Start(c)
    BY <2>1, <2>2, <2>3, FlagsOfStart
  <2>4. CASE chains' = chains /\ ~screen'.reading
    BY <1>1, <2>1, <2>4 DEF FlagsNext, FlagsInv, BusyHeld, LoadsShown
  <2>5. QED
    BY <2>1, <2>3, <2>4
<1>5. CASE Close
  <2>1. /\ filter' = filter /\ screen'.busy = screen.busy \ {"drawer"}
        /\ screen'.loading = screen.loading /\ screen'.reading = screen.reading
        /\ \A j \in Chains : chains'[j] = chains[j] \/ Released(chains[j], chains'[j])
    BY <1>5, CloseActs
  <2>2. ASSUME NEW j \in Running
        PROVE  /\ j \in Chains /\ chains'[j] # Idle
               /\ chains'[j].kind = chains[j].kind /\ chains'[j].filter = chains[j].filter
               /\ chains'[j].then = chains[j].then
               /\ chains[j].hold # "drawer" => chains'[j].hold = chains[j].hold
    <3>1. j \in Chains /\ chains[j] # Idle /\ chains[j] \in ChainType /\ ChainFits(chains[j])
      BY RunningChain DEF ChainsFit, Running
    <3>2. CASE chains'[j] = chains[j]
      BY <3>1, <3>2
    <3>3. CASE Released(chains[j], chains'[j])
      <4>1. chains[j].hold = "drawer"
        BY <3>3 DEF Released
      <4>2. /\ chains'[j] # Idle
            /\ chains'[j].kind = chains[j].kind /\ chains'[j].filter = chains[j].filter
            /\ chains'[j].then = chains[j].then
        BY <3>1, <3>3, ReleasedFits
      <4>3. QED
        BY <3>1, <4>1, <4>2
    <3>4. QED
      BY <2>1, <3>1, <3>2, <3>3
  <2>3. ASSUME NEW b \in screen'.busy
        PROVE  \E j \in Chains : chains'[j] # Idle /\ GivesBack(chains'[j], b)
    <3>1. b \in screen.busy /\ b # "drawer"
      BY <2>1, <2>3
    <3>2. PICK j \in Running : chains[j].hold = b /\ Comes(chains[j].then, FreedBy(b))
      BY <3>1 DEF FlagsInv, BusyHeld, GivesBack
    <3>3. QED
      BY <2>2, <3>1, <3>2 DEF GivesBack
  <2>4. QED
    BY <2>1, <2>2, <2>3 DEF FlagsNext, FlagsInv, LoadsShown, ReadsShown
<1>6. ASSUME NEW a \in P.acts, NEW d \in Docs, Press(a, d)
      PROVE  FlagsNext
  <2> DEFINE c == Waiting("op", a.op, d, Flag(a, d), filter, a.then)
  <2>1. /\ c \in ChainType /\ Start(c) /\ filter' = filter
        /\ screen'.loading = screen.loading /\ screen'.reading = screen.reading
        /\ \A b \in screen'.busy : b \in screen.busy \/ (b = Flag(a, d) /\ a.held # "none")
    BY <1>6, PressActs
  <2>2. a.held # "none" => GivesBack(c, Flag(a, d))
    <3>1. /\ a.held # "none" => Comes(a.then, FreedBy(a.held))
          /\ a.op # "drawer" /\ d # "drawer"
      BY DEF PageFits, ActFits
    <3>2. FreedBy(Flag(a, d)) = FreedBy(a.held)
      BY <3>1 DEF Flag, FreedBy
    <3>3. c.hold = Flag(a, d) /\ c.then = a.then
      BY DEF Waiting
    <3>4. QED
      BY <3>1, <3>2, <3>3 DEF GivesBack
  <2>3. QED
    BY <2>1, <2>2, FlagsOfStart
<1>7. ASSUME NEW k \in Chains, Serve(k)
      PROVE  FlagsNext
  <2>1. /\ filter' = filter /\ screen' = screen /\ Served(chains[k], chains'[k])
        /\ \A j \in Chains \ {k} : chains'[j] = chains[j]
    BY <1>7, ServeActs
  <2>2. ASSUME NEW j \in Running
        PROVE  /\ j \in Chains /\ chains'[j] # Idle
               /\ chains'[j].kind = chains[j].kind /\ chains'[j].filter = chains[j].filter
               /\ chains'[j].then = chains[j].then /\ chains'[j].hold = chains[j].hold
    BY <1>1, <2>1, ChainIsNotIdle DEF Served
  <2>3. ASSUME NEW b \in screen'.busy
        PROVE  \E j \in Chains : chains'[j] # Idle /\ GivesBack(chains'[j], b)
    <3>1. PICK j \in Running : chains[j].hold = b /\ Comes(chains[j].then, FreedBy(b))
      BY <2>1, <2>3 DEF FlagsInv, BusyHeld, GivesBack
    <3>2. QED
      BY <2>2, <3>1 DEF GivesBack
  <2>4. QED
    BY <2>1, <2>2, <2>3 DEF FlagsNext, FlagsInv, LoadsShown, ReadsShown
<1>8. ASSUME NEW k \in Chains, Answer(k)
      PROVE  FlagsNext
  BY <1>8, AnswerActs, FlagsOfGoOn
<1>9. ASSUME NEW k \in Chains, Fails(k)
      PROVE  FlagsNext
  <2>1. k \in Running /\ Failed(k) /\ filter' = filter
    BY <1>9 DEF Fails
  <2>2. CASE chains[k].kind # "op"
    <3>1. PICK s \in ScreenType : FlagsShown(chains[k], s) /\ GoOn(k, s)
      BY <2>1, <2>2, FailedScreen
    <3>2. QED
      BY <2>1, <3>1, FlagsOfGoOn
  <2>3. CASE chains[k].kind = "op"
    <3>1. /\ screen'.busy \subseteq screen.busy /\ chains[k].hold \notin screen'.busy
          /\ screen'.loading = screen.loading /\ screen'.reading = screen.reading
          /\ chains' = [chains EXCEPT ![k] = Idle]
      BY <2>1, <2>3, FailedButton
    <3>2. \A j \in Running \ {k} : chains'[j] = chains[j]
      BY <1>1, <3>1 DEF CabinetType
    <3>3. QED
      BY <1>1, <2>1, <2>3, <3>1, <3>2
      DEF FlagsNext, FlagsInv, BusyHeld, LoadsShown, ReadsShown, GivesBack
  <2>4. QED
    BY <2>2, <2>3
<1>10. ASSUME NEW d \in Docs, Foreign(d)
       PROVE  FlagsNext
  <2>1. screen' = screen /\ chains' = chains /\ filter' = filter
    BY <1>10, ForeignActs
  <2>2. QED
    BY <1>1, <2>1 DEF FlagsNext, FlagsInv, BusyHeld, LoadsShown, ReadsShown
<1>11. QED
  BY <1>2, <1>3, <1>4, <1>5, <1>6, <1>7, <1>8, <1>9, <1>10, FailsActs DEF CabinetNext

-----------------------------------------------------------------------------
(* What a step leaves of the chains that run: a drawer that is closed may  *)
(* have released them, nothing else of them has changed.                   *)
Kept(c, e) ==
  /\ e # Idle /\ Same(c, e) /\ e.state = c.state /\ e.got = c.got
  /\ e.hold = c.hold \/ (c.hold = "drawer" /\ e.hold = "none")

LEMMA SameIsKept ==
  ASSUME NEW c \in ChainType
  PROVE  Kept(c, c)
BY ChainIsNotIdle DEF Kept, Same

LEMMA ReleasedIsKept ==
  ASSUME NEW c \in ChainType, NEW e, Released(c, e)
  PROVE  Kept(c, e)
<1>1. e = WithHold(c, "none") /\ "none" \in Flags /\ c.hold = "drawer"
  BY DEF Released, Flags
<1>2. /\ e \in ChainType /\ e.hold = "none"
      /\ e.kind = c.kind /\ e.op = c.op /\ e.doc = c.doc /\ e.filter = c.filter
      /\ e.then = c.then /\ e.state = c.state /\ e.got = c.got
  BY <1>1, ChainWithHold
<1>3. QED
  BY <1>1, <1>2, ChainIsNotIdle DEF Kept, Same

(* The chain a button has started.                                         *)
Pressed(e) ==
  \E a \in P.acts, d \in Docs :
    /\ Press(a, d)
    /\ e.kind = "op" /\ e.op = a.op /\ e.doc = d /\ e.hold = Flag(a, d) /\ e.then = a.then

Begun(e) ==
  /\ e.state = "sent"
  /\ \/ e.kind # "op" /\ e.hold = "none"
     \/ Pressed(e)

(* What the five actions of the user have in common.                       *)
UserStep ==
  /\ page' = page /\ docs' = docs /\ calm' = calm /\ screen'.list = screen.list
  /\ "page" \in screen.busy => "page" \in screen'.busy
  /\ \A j \in Running : Kept(chains[j], chains'[j])
  /\ \A i, j \in Chains \ Running : chains'[i] # Idle /\ chains'[j] # Idle => i = j
  /\ \A j \in Chains \ Running : chains'[j] # Idle => Begun(chains'[j])
  /\ \/ filter' = filter
     \/ \E j \in Chains : chains'[j] # Idle /\ chains'[j].kind = "list"
  /\ P.row = "fetch" => screen'.card \in {screen.card, Closed}
  /\ P.sticky =>
       \/ screen'.card = screen.card
       \/ \A j \in Chains : chains'[j] # Idle => chains'[j].hold # "drawer"

LEMMA StartedStep ==
  ASSUME CabinetType, NEW c \in ChainType, Start(c), Begun(c)
  PROVE  /\ \A j \in Running : Kept(chains[j], chains'[j])
         /\ \A i, j \in Chains \ Running : chains'[i] # Idle /\ chains'[j] # Idle => i = j
         /\ \A j \in Chains \ Running : chains'[j] # Idle => Begun(chains'[j])
         /\ \E j \in Chains : chains'[j] # Idle /\ chains'[j] = c
<1>1. PICK k \in Chains : chains[k] = Idle /\ chains'[k] = c
                          /\ \A j \in Chains \ {k} : chains'[j] = chains[j]
  BY StartChains
<1>2. \A j \in Chains \ Running : chains[j] = Idle
  BY DEF Running
<1>3. k \notin Running /\ c # Idle
  BY <1>1, ChainIsNotIdle DEF Running
<1>4. \A j \in Running : Kept(chains[j], chains'[j])
  BY <1>1, <1>3, RunningChain, SameIsKept
<1>5. QED
  BY <1>1, <1>2, <1>3, <1>4

LEMMA UserSteps ==
  ASSUME PageFits(P), CabinetType, ChainsFit,
         \/ \E f \in P.filters : ChooseFilter(f)
         \/ Refresh
         \/ \E d \in Docs : Open(d)
         \/ Close
         \/ \E a \in P.acts, d \in Docs : Press(a, d)
  PROVE  UserStep
<1>1. ASSUME NEW f \in P.filters, ChooseFilter(f)
      PROVE  UserStep
  <2> DEFINE c == Waiting("list", "none", NoDoc, "none", f, << >>)
  <2>1. Begun(c) /\ c.kind = "list"
    BY DEF Waiting, Begun
  <2>2. c \in ChainType /\ Start(c)
    BY <1>1, ChooseFilterActs
  <2> HIDE DEF c
  <2>3. P.sticky => ~P.clears
    BY DEF PageFits
  <2>4. QED
    BY <1>1, <2>1, <2>2, <2>3, StartedStep, ChooseFilterActs DEF UserStep
<1>2. CASE Refresh
  <2> DEFINE c == Waiting("list", "none", NoDoc, "none", filter, << >>)
  <2>1. Begun(c)
    BY DEF Waiting, Begun
  <2>2. c \in ChainType /\ Start(c)
    BY <1>2, RefreshActs
  <2> HIDE DEF c
  <2>3. QED
    BY <1>2, <2>1, <2>2, StartedStep, RefreshActs DEF UserStep
<1>3. ASSUME NEW d \in Docs, Open(d)
      PROVE  UserStep
  <2> DEFINE c == Waiting("detail", "none", d, "none", filter, << >>)
  <2>1. Begun(c)
    BY DEF Waiting, Begun
  <2>2. chains' = chains \/ (c \in ChainType /\ Start(c))
    BY <1>3, OpenActs
  <2> HIDE DEF c
  <2>3. P.sticky => P.row = "fetch"
    BY DEF PageFits
  <2>4. CASE chains' = chains
    <3>1. /\ \A j \in Running : Kept(chains[j], chains'[j])
          /\ \A j \in Chains \ Running : chains'[j] = Idle
      BY <2>4, RunningChain, SameIsKept DEF Running
    <3>2. QED
      BY <1>3, <2>3, <3>1, OpenActs DEF UserStep
  <2>5. CASE c \in ChainType /\ Start(c)
    BY <1>3, <2>1, <2>3, <2>5, StartedStep, OpenActs DEF UserStep
  <2>6. QED
    BY <2>2, <2>4, <2>5
<1>4. CASE Close
  <2>1. \A j \in Running : Kept(chains[j], chains'[j])
    BY <1>4, CloseActs, RunningChain, SameIsKept, ReleasedIsKept
  <2>2. \A j \in Chains \ Running : chains'[j] = Idle
    BY <1>4, CloseActs DEF Running, Released
  <2>3. QED
    BY <1>4, <2>1, <2>2, CloseActs DEF UserStep
<1>5. ASSUME NEW a \in P.acts, NEW d \in Docs, Press(a, d)
      PROVE  UserStep
  <2> DEFINE c == Waiting("op", a.op, d, Flag(a, d), filter, a.then)
  <2>1. Begun(c)
    <3>1. /\ c.state = "sent" /\ c.kind = "op" /\ c.op = a.op /\ c.doc = d
          /\ c.hold = Flag(a, d) /\ c.then = a.then
      BY DEF Waiting
    <3>2. QED
      BY <1>5, <3>1 DEF Begun, Pressed
  <2>2. c \in ChainType /\ Start(c)
    BY <1>5, PressActs
  <2> HIDE DEF c
  <2>3. QED
    BY <1>5, <2>1, <2>2, StartedStep, PressActs DEF UserStep
<1>6. QED
  BY <1>1, <1>2, <1>3, <1>4, <1>5

(* When a chain goes on the others are kept; it ends or follows itself.    *)
LEMMA GoOnKeeps ==
  ASSUME CabinetType, ChainsFit, NEW k \in Running, NEW s, GoOn(k, s)
  PROVE  /\ \A j \in Running \ {k} : Kept(chains[j], chains'[j])
         /\ \A j \in Chains \ Running : chains'[j] = Idle
         /\ chains'[k] = Idle \/ Follows(chains[k], chains'[k])
         /\ chains[k].then # << >> /\ Passes(Head(chains[k].then)) => chains'[k] # Idle
         /\ Closes(chains[k]) =>
              \A j \in Chains : chains'[j] # Idle => chains'[j].hold # "drawer"
<1>1. \A j \in Chains \ {k} : chains'[j] = chains[j] \/ Released(chains[j], chains'[j])
  BY GoOnChains
<1>2. \A j \in Running \ {k} : Kept(chains[j], chains'[j])
  BY <1>1, RunningChain, SameIsKept, ReleasedIsKept
<1>3. \A j \in Chains \ Running : j # k /\ chains[j] = Idle
  BY DEF Running
<1>4. QED
  BY <1>1, <1>2, <1>3, GoOnChains DEF Released

-----------------------------------------------------------------------------
(* An answer says of its document what the list makes of it, and a button  *)
(* of a drawer that keeps its document is about that document.             *)
AnswersNext ==
  /\ \A j \in Chains : chains'[j] # Idle => AnswerFits(P, chains'[j])
  /\ P.sticky => \A j \in Chains : chains'[j] # Idle /\ chains'[j].hold = "drawer" =>
                   screen'.card # Closed /\ screen'.card.doc = chains'[j].doc

LEMMA AnswersKept == AnswersNext /\ page' = page => AnswersInv'
<1>1. page' = page => P' = P
  BY DEF P
<1>2. QED
  BY <1>1 DEF AnswersNext, AnswersInv, AnswersFit, DrawerHolds, Running

LEMMA KeptAnswerFits ==
  ASSUME NEW c, NEW e, AnswerFits(P, c), Kept(c, e)
  PROVE  AnswerFits(P, e)
BY DEF AnswerFits, Kept, Same

LEMMA SentAnswerFits ==
  ASSUME NEW e, e.state = "sent"
  PROVE  AnswerFits(P, e)
BY DEF AnswerFits

LEMMA ServedAnswerFits ==
  ASSUME PageFits(P), CabinetType, NEW c \in ChainType, ChainFits(c), NEW e, Served(c, e)
  PROVE  AnswerFits(P, e)
<1>1. /\ e \in ChainType /\ e.kind = c.kind /\ e.op = c.op /\ e.doc = c.doc /\ e.then = c.then
      /\ docs \in [Docs -> P.states]
  BY DEF Served, CabinetType
<1>2. c.kind # "list" => c.doc \in Docs
  BY DEF ChainFits, ChainType
<1>3. ASSUME e.state = "done", e.kind = "detail"
      PROVE  /\ e.got[e.doc] \notin {"absent", "gone"}
             /\ P.marks => e.got[e.doc] \notin {"generated", "sent"}
  <2>1. Reads(c, e)
    BY <1>1, <1>3 DEF Served, Executes
  <2>2. /\ e.got = docs' /\ docs[c.doc] \notin {"absent", "gone"}
        /\ docs' = docs \/ docs' = [docs EXCEPT ![c.doc] = "viewed"]
        /\ P.marks => docs'[c.doc] \notin {"generated", "sent"}
    BY <1>1, <1>3, <2>1 DEF Reads
  <2>3. docs'[c.doc] \notin {"absent", "gone"}
    BY <1>1, <1>2, <1>3, <2>2
  <2>4. QED
    BY <1>1, <2>2, <2>3
<1>4. ASSUME e.state = "done", e.kind = "op"
      PROVE  /\ Begins(e.then, "patch") /\ P.layer = "none" =>
                  \A f \in P.filters : e.got[e.doc] \in f
             /\ Begins(e.then, "leave") => \A f \in P.filters : e.got[e.doc] \notin f
  <2>1. Executes(c, e)
    BY <1>1, <1>4 DEF Served, Reads
  <2>2. PICK m \in Writes(P, c.op) :
          e.got = docs' /\ docs' = [docs EXCEPT ![c.doc] = m[3]]
    BY <1>4, <2>1 DEF Executes
  <2>3. e.got[e.doc] = m[3]
    BY <1>1, <1>2, <1>4, <2>2
  <2>4. PICK a \in P.acts : c.op = a.op /\ c.then = a.then
    BY <1>1, <1>4 DEF ChainFits
  <2>5. ActFits(P, a)
    BY DEF PageFits
  <2>6. /\ Begins(a.then, "patch") /\ P.layer = "none" => \A f \in P.filters : m[3] \in f
        /\ Begins(a.then, "leave") => \A f \in P.filters : m[3] \notin f
    BY <2>2, <2>4, <2>5 DEF ActFits
  <2>7. QED
    BY <1>1, <2>3, <2>4, <2>6
<1>5. QED
  BY <1>3, <1>4 DEF AnswerFits

LEMMA AnswersOfUser ==
  ASSUME PageFits(P), CabinetType, AnswersInv, UserStep
  PROVE  AnswersNext
<1>1. ASSUME NEW j \in Chains, chains'[j] # Idle
      PROVE  AnswerFits(P, chains'[j])
  <2>1. CASE j \in Running
    BY <2>1, KeptAnswerFits DEF UserStep, AnswersInv, AnswersFit
  <2>2. CASE j \notin Running
    BY <1>1, <2>2, SentAnswerFits DEF UserStep, Begun
  <2>3. QED
    BY <2>1, <2>2
<1>2. ASSUME P.sticky, NEW j \in Chains, chains'[j] # Idle, chains'[j].hold = "drawer"
      PROVE  screen'.card # Closed /\ screen'.card.doc = chains'[j].doc
  <2>1. screen'.card = screen.card
    BY <1>2 DEF UserStep
  <2>2. CASE j \in Running
    <3>1. chains[j].hold = "drawer" /\ chains'[j].doc = chains[j].doc
      BY <1>2, <2>2 DEF UserStep, Kept, Same
    <3>2. QED
      BY <1>2, <2>1, <2>2, <3>1 DEF AnswersInv, DrawerHolds
  <2>3. CASE j \notin Running
    <3>1. Pressed(chains'[j])
      BY <1>2, <2>3 DEF UserStep, Begun
    <3>2. PICK a \in P.acts, d \in Docs :
            Press(a, d) /\ chains'[j].doc = d /\ Flag(a, d) = "drawer"
      BY <1>2, <3>1 DEF Pressed
    <3>3. ActFits(P, a)
      BY DEF PageFits
    <3>4. a.held = "drawer" /\ a.at = "drawer"
      BY <3>2, <3>3 DEF Flag, ActFits
    <3>5. screen.card.doc = d
      BY <3>2, <3>4 DEF Press, Offered
    <3>6. screen.card # Closed
      BY <3>5 DEF Closed
    <3>7. QED
      BY <2>1, <3>2, <3>5, <3>6
  <2>4. QED
    BY <2>2, <2>3
<1>3. QED
  BY <1>1, <1>2 DEF AnswersNext

(* What is shown before the chain goes on keeps the drawer's document.     *)
KeepsDrawer(s) ==
  P.sticky /\ screen.card # Closed => s.card # Closed /\ s.card.doc = screen.card.doc

LEMMA ShownKeepsDrawer ==
  ASSUME CabinetType, NEW c \in ChainType, NEW s, Showing(c, s)
  PROVE  KeepsDrawer(s)
<1>1. CASE c.kind = "list"
  BY <1>1 DEF Showing, ListShows, KeepsDrawer
<1>2. CASE c.kind = "detail"
  BY <1>2 DEF Showing, DetailShows, KeepsDrawer
<1>3. CASE c.kind = "reread"
  <2>1. screen.card # Closed => screen.card.doc # NoDoc
    BY DEF CabinetType, ScreenType, CardType
  <2>2. QED
    BY <1>3, <2>1 DEF Showing, RereadShows, KeepsDrawer, Closed
<1>4. CASE c.kind \in {"timer", "op"}
  BY <1>4 DEF Showing, KeepsDrawer
<1>5. QED
  BY <1>1, <1>2, <1>3, <1>4 DEF ChainType, Kinds

LEMMA AnswersOfGoOn ==
  ASSUME PageFits(P), CabinetType, ChainsFit, AnswersInv,
         NEW k \in Running, NEW s \in ScreenType, GoOn(k, s), KeepsDrawer(s)
  PROVE  AnswersNext
<1> DEFINE c == chains[k]
<1>1. /\ \A j \in Running \ {k} : Kept(chains[j], chains'[j])
      /\ \A j \in Chains \ Running : chains'[j] = Idle
      /\ chains'[k] = Idle \/ Follows(c, chains'[k])
      /\ Closes(c) => \A j \in Chains : chains'[j] # Idle => chains'[j].hold # "drawer"
  BY GoOnKeeps
<1>2. ASSUME NEW j \in Chains, chains'[j] # Idle
      PROVE  AnswerFits(P, chains'[j])
  <2>1. CASE j \in Running \ {k}
    BY <1>1, <2>1, KeptAnswerFits DEF AnswersInv, AnswersFit
  <2>2. CASE j = k
    BY <1>1, <1>2, <2>2, SentAnswerFits DEF Follows
  <2>3. QED
    BY <1>1, <1>2, <2>1, <2>2
<1>3. ASSUME P.sticky, NEW j \in Chains, chains'[j] # Idle, chains'[j].hold = "drawer"
      PROVE  screen'.card # Closed /\ screen'.card.doc = chains'[j].doc
  <2>1. ~Closes(c) /\ j \in Running
    BY <1>1, <1>3
  <2>2. c \in ChainType /\ ChainFits(c) /\ c.then \in Seq(SUBSET Steps)
    BY RunningChain DEF ChainsFit, ChainType
  <2>3. c.then # << >> => "patch" \notin Head(c.then) /\ "first" \notin Head(c.then)
    <3>1. ASSUME c.then # << >>, "patch" \in Head(c.then)
          PROVE  FALSE
      <4>1. PICK a \in P.acts : c.then = a.then
        BY <2>2, <3>1, GoOnScreen DEF ChainFits
      <4>2. ~Begins(a.then, "patch")
        BY <1>3 DEF PageFits
      <4>3. QED
        BY <3>1, <4>1, <4>2 DEF Begins
    <3>2. c.then # << >> => StageFits(P, Head(c.then))
      BY <2>2, ThenTail DEF ChainFits
    <3>3. QED
      BY <1>3, <3>1, <3>2 DEF StageFits
  <2>4. screen'.card = s.card
    BY <2>1, <2>3, GoOnScreen DEF StepShows, Closes
  <2>5. chains[j].hold = "drawer" /\ chains'[j].doc = chains[j].doc
    <3>1. CASE j = k
      BY <1>1, <1>3, <2>3, <3>1 DEF Follows
    <3>2. CASE j # k
      BY <1>1, <1>3, <2>1, <3>2 DEF Kept, Same
    <3>3. QED
      BY <3>1, <3>2
  <2>6. screen.card # Closed /\ screen.card.doc = chains[j].doc
    BY <1>3, <2>1, <2>5 DEF AnswersInv, DrawerHolds
  <2>7. QED
    BY <1>3, <2>4, <2>5, <2>6 DEF KeepsDrawer
<1>4. QED
  BY <1>2, <1>3 DEF AnswersNext

LEMMA AnswersNextStep ==
  ASSUME PageFits(P), CabinetType, ChainsFit, AnswersInv, CabinetNext
  PROVE  AnswersNext
<1>1. CASE \/ \E f \in P.filters : ChooseFilter(f)
           \/ Refresh
           \/ \E d \in Docs : Open(d)
           \/ Close
           \/ \E a \in P.acts, d \in Docs : Press(a, d)
  BY <1>1, UserSteps, AnswersOfUser
<1>2. ASSUME NEW k \in Chains, Serve(k)
      PROVE  AnswersNext
  <2>1. /\ k \in Running /\ screen' = screen /\ Served(chains[k], chains'[k])
        /\ \A j \in Chains \ {k} : chains'[j] = chains[j]
    BY <1>2, ServeActs
  <2>2. AnswerFits(P, chains'[k])
    BY <2>1, RunningChain, ServedAnswerFits DEF ChainsFit
  <2>3. chains'[k].hold = chains[k].hold /\ chains'[k].doc = chains[k].doc
    BY <2>1 DEF Served
  <2>4. \A j \in Chains : chains'[j] # Idle => j \in Running
    BY <2>1 DEF Running
  <2>5. QED
    BY <2>1, <2>2, <2>3, <2>4 DEF AnswersNext, AnswersInv, AnswersFit, DrawerHolds
<1>3. ASSUME NEW k \in Chains, Answer(k)
      PROVE  AnswersNext
  <2>1. /\ k \in Running /\ Shown(chains[k]) \in ScreenType
        /\ Showing(chains[k], Shown(chains[k])) /\ GoOn(k, Shown(chains[k]))
    BY <1>3, AnswerActs
  <2>2. KeepsDrawer(Shown(chains[k]))
    BY <2>1, RunningChain, ShownKeepsDrawer
  <2>3. QED
    BY <2>1, <2>2, AnswersOfGoOn
<1>4. ASSUME NEW k \in Chains, Fails(k)
      PROVE  AnswersNext
  <2>1. k \in Running /\ Failed(k)
    BY <1>4 DEF Fails
  <2>2. CASE chains[k].kind = "op"
    <3>1. screen'.card = screen.card /\ chains' = [chains EXCEPT ![k] = Idle]
      BY <2>1, <2>2, FailedButton
    <3>2. \A j \in Chains : chains'[j] # Idle => j \in Running /\ chains'[j] = chains[j]
      BY <3>1 DEF CabinetType, Running
    <3>3. QED
      BY <3>1, <3>2 DEF AnswersNext, AnswersInv, AnswersFit, DrawerHolds
  <2>3. CASE chains[k].kind # "op"
    <3>1. PICK s \in ScreenType : s.card = screen.card /\ GoOn(k, s)
      BY <2>1, <2>3, FailedScreen
    <3>2. QED
      BY <2>1, <3>1, AnswersOfGoOn DEF KeepsDrawer
  <2>4. QED
    BY <2>2, <2>3
<1>5. ASSUME NEW d \in Docs, Foreign(d)
      PROVE  AnswersNext
  BY <1>5, ForeignActs DEF AnswersNext, AnswersInv, AnswersFit, DrawerHolds, Running
<1>6. QED
  BY <1>1, <1>2, <1>3, <1>4, <1>5, FailsActs DEF CabinetNext

-----------------------------------------------------------------------------
(* What puts the list and the card right goes on doing so.                 *)
LEMMA KeptMends ==
  ASSUME NEW c, NEW e, Kept(c, e), NEW d, NEW card, NEW list
  PROVE  /\ MendsRow(P, c, d, docs) => MendsRow(P, e, d, docs)
         /\ Marking(P, c, d, docs, list) => Marking(P, e, d, docs, list)
         /\ MendsCard(P, c, card, docs) => MendsCard(P, e, card, docs)
         /\ e.hold = "page" <=> c.hold = "page"
BY DEF Kept, Same, MendsRow, Marking, MendsCard, Carries

(* On a page whose reads mark, no button changes the list in place.        *)
LEMMA MarksReload ==
  ASSUME PageFits(P), P.marks, NEW c, ChainFits(c), NEW d, NEW card
  PROVE  /\ MendsRow(P, c, d, docs) => c.kind = "list" \/ Comes(c.then, {"load"})
         /\ MendsCard(P, c, card, docs) =>
              \/ Comes(c.then, {"close"})
              \/ /\ ~P.sticky /\ c.doc = card.doc
                 /\ c.kind = "detail" \/ Comes(c.then, {"detail"})
<1>1. c.kind = "op" => ~Begins(c.then, "patch") /\ ~Begins(c.then, "leave")
  BY DEF PageFits, MarksFit, ChainFits
<1>2. QED
  BY <1>1 DEF MendsRow, MendsCard, Carries

(* The chain that goes on is a stage nearer to what puts things right.     *)
LEMMA FollowsMends ==
  ASSUME CabinetType, ChainsFit, NEW k \in Running, NEW s, GoOn(k, s)
  PROVE  /\ Comes(chains[k].then, {"load"}) =>
              /\ chains'[k] # Idle
              /\ chains'[k].kind = "list" \/ Comes(chains'[k].then, {"load"})
         /\ Comes(chains[k].then, {"close"}) /\ ~Closes(chains[k]) =>
              chains'[k] # Idle /\ Comes(chains'[k].then, {"close"})
         /\ Comes(chains[k].then, {"detail"}) =>
              /\ chains'[k] # Idle /\ chains'[k].doc = chains[k].doc
              /\ chains'[k].kind = "detail" \/ Comes(chains'[k].then, {"detail"})
         /\ chains'[k] # Idle => (chains'[k].hold = "page" <=> chains[k].hold = "page")
<1> DEFINE c == chains[k]
           e == chains'[k]
<1>1. c \in ChainType /\ ChainFits(c) /\ c.then \in Seq(SUBSET Steps)
  BY RunningChain DEF ChainsFit, ChainType
<1>2. /\ e = Idle \/ Follows(c, e)
      /\ c.then # << >> /\ Passes(Head(c.then)) => e # Idle
  BY GoOnKeeps
<1>3. c.then # << >> => StageFits(P, Head(c.then))
  BY <1>1, ThenTail DEF ChainFits
<1>4. ASSUME Comes(c.then, {"load"})
      PROVE  e # Idle /\ (e.kind = "list" \/ Comes(e.then, {"load"}))
  <2>1. /\ c.then # << >>
        /\ Head(c.then) \cap {"load"} = {} =>
             Passes(Head(c.then)) /\ Comes(Tail(c.then), {"load"})
    BY <1>1, <1>4, ComesNext
  <2>2. CASE "load" \in Head(c.then)
    <3>1. Head(c.then) \cap Sends = {"load"}
      BY <1>3, <2>1, <2>2 DEF StageFits
    <3>2. e # Idle
      BY <1>2, <2>1, <3>1 DEF Passes, Sends
    <3>3. e.kind = KindOf["load"]
      BY <1>2, <3>1, <3>2 DEF Follows
    <3>4. QED
      BY <3>2, <3>3, KindsOfSends
  <2>3. CASE "load" \notin Head(c.then)
    BY <1>2, <2>1, <2>3 DEF Follows
  <2>4. QED
    BY <2>2, <2>3
<1>5. ASSUME Comes(c.then, {"close"}), ~Closes(c)
      PROVE  e # Idle /\ Comes(e.then, {"close"})
  <2>1. /\ c.then # << >>
        /\ Head(c.then) \cap {"close"} = {} =>
             Passes(Head(c.then)) /\ Comes(Tail(c.then), {"close"})
    BY <1>1, <1>5, ComesNext
  <2>2. QED
    BY <1>2, <1>5, <2>1 DEF Closes, Follows
<1>6. ASSUME Comes(c.then, {"detail"})
      PROVE  /\ e # Idle /\ e.doc = c.doc
             /\ e.kind = "detail" \/ Comes(e.then, {"detail"})
  <2>1. /\ c.then # << >>
        /\ Head(c.then) \cap {"detail"} = {} =>
             Passes(Head(c.then)) /\ Comes(Tail(c.then), {"detail"})
    BY <1>1, <1>6, ComesNext
  <2>2. CASE "detail" \in Head(c.then)
    <3>1. Head(c.then) \cap Sends = {"detail"} /\ "first" \notin Head(c.then)
      BY <1>3, <2>1, <2>2 DEF StageFits, Sends
    <3>2. e # Idle
      BY <1>2, <2>1, <3>1 DEF Passes
    <3>3. e.kind = KindOf["detail"] /\ e.doc = c.doc
      BY <1>2, <3>1, <3>2 DEF Follows
    <3>4. QED
      BY <3>2, <3>3, KindsOfSends
  <2>3. CASE "detail" \notin Head(c.then)
    <3>1. "first" \notin Head(c.then)
      BY <2>1, <2>3 DEF Passes
    <3>2. QED
      BY <1>2, <2>1, <2>3, <3>1 DEF Follows
  <2>4. QED
    BY <2>2, <2>3
<1>7. e # Idle => (e.hold = "page" <=> c.hold = "page")
  BY <1>2 DEF Follows
<1>8. QED
  BY <1>4, <1>5, <1>6, <1>7

-----------------------------------------------------------------------------
(* What the server does to the document of a chain, and to no other: it    *)
(* changes it for a button, which will put right what is shown, or marks   *)
(* it viewed for a read.                                                   *)
Marked(c) ==
  /\ P.marks /\ c.kind = "detail"
  /\ docs[c.doc] \in {"generated", "sent"} /\ docs'[c.doc] = "viewed"

LEMMA ServedDocs ==
  ASSUME CabinetType, ChainsFit, NEW k \in Chains, k \in Running,
         Served(chains[k], chains'[k]), NEW d \in Docs, docs'[d] # docs[d]
  PROVE  /\ chains[k].doc = d /\ chains'[k].state = "done" /\ chains'[k].got = docs'
         /\ Marked(chains[k]) \/ (Executes(chains[k], chains'[k]) /\ ~Idles(P, chains[k].op))
<1> DEFINE c == chains[k]
           e == chains'[k]
<1>1. /\ docs \in [Docs -> P.states] /\ c \in ChainType /\ ChainFits(c)
      /\ Reads(c, e) \/ Executes(c, e)
  BY RunningChain DEF CabinetType, ChainsFit, Served
<1>2. c.kind # "list" => c.doc \in Docs
  BY <1>1 DEF ChainFits, ChainType
<1>3. CASE Reads(c, e)
  <2>1. /\ P.marks /\ c.kind = "detail" /\ docs[c.doc] \in {"generated", "sent"}
        /\ docs' = [docs EXCEPT ![c.doc] = "viewed"] /\ e.got = docs'
    BY <1>3 DEF Reads
  <2>2. e.state = "done"
    BY <1>3, <2>1 DEF Reads
  <2>3. c.doc = d /\ docs'[c.doc] = "viewed"
    BY <1>1, <1>2, <2>1
  <2>4. QED
    BY <2>1, <2>2, <2>3 DEF Marked
<1>4. CASE Executes(c, e)
  <2>1. c.kind = "op" /\ e.state = "done" /\ e.got = docs'
    BY <1>4 DEF Executes
  <2>2. PICK m \in Writes(P, c.op) :
          m[2] = docs[c.doc] /\ docs' = [docs EXCEPT ![c.doc] = m[3]]
    BY <1>4 DEF Executes
  <2>3. c.doc = d /\ m[2] # m[3]
    BY <1>1, <1>2, <2>1, <2>2
  <2>4. ~Idles(P, c.op)
    BY <2>2, <2>3 DEF Idles
  <2>5. QED
    BY <1>4, <2>1, <2>3, <2>4
<1>5. QED
  BY <1>1, <1>3, <1>4

(* The button whose request changed a document will put it right.          *)
LEMMA ExecutedMends ==
  ASSUME PageFits(P), CabinetType, NEW c, ChainFits(c), NEW e, Served(c, e),
         Executes(c, e), ~Idles(P, c.op), e.state = "done", e.got = docs'
  PROVE  /\ MendsRow(P, e, c.doc, docs')
         /\ P.row = "fetch" => \A card : card.doc = c.doc => MendsCard(P, e, card, docs')
<1>1. c.kind = "op" /\ e.kind = "op" /\ e.then = c.then /\ e.doc = c.doc
  BY DEF Executes, Served
<1>2. PICK a \in P.acts : c.op = a.op /\ c.then = a.then
  BY <1>1 DEF ChainFits
<1>3. ActFits(P, a)
  BY DEF PageFits
<1>4. Carries(e, c.doc, docs')
  BY <1>1 DEF Carries
<1>5. MendsRow(P, e, c.doc, docs')
  <2>1. \/ Comes(a.then, {"load"}) \/ Begins(a.then, "leave")
        \/ Begins(a.then, "patch") /\ P.layer = "none"
    BY <1>2, <1>3 DEF ActFits
  <2>2. QED
    BY <1>1, <1>2, <1>4, <2>1 DEF MendsRow
<1>6. ASSUME P.row = "fetch", NEW card, card.doc = c.doc
      PROVE  MendsCard(P, e, card, docs')
  <2>1. \/ Comes(a.then, {"close"})
        \/ Comes(a.then, {"detail"}) /\ ~P.sticky
        \/ Begins(a.then, "patch")
    BY <1>2, <1>3, <1>6 DEF ActFits
  <2>2. QED
    BY <1>1, <1>2, <1>4, <1>6, <2>1 DEF MendsCard
<1>7. QED
  BY <1>5, <1>6

(* What was putting a document right before an answer of the server still  *)
(* does, when that document was left alone, or was marked.                 *)
LEMMA ServedMends ==
  ASSUME PageFits(P), CabinetType, ChainsFit, NEW k \in Chains, Serve(k),
         NEW j \in Running, NEW d \in Docs, docs'[d] = docs[d] \/ P.marks
  PROVE  /\ chains'[j] # Idle
         /\ chains'[j].hold = chains[j].hold
         /\ MendsRow(P, chains[j], d, docs) => MendsRow(P, chains'[j], d, docs')
         /\ \A card : card.doc = d /\ MendsCard(P, chains[j], card, docs) =>
                      MendsCard(P, chains'[j], card, docs')
         /\ docs'[d] = docs[d] =>
              \A list : Marking(P, chains[j], d, docs, list) =>
                        Marking(P, chains'[j], d, docs', list)
<1>1. /\ k \in Running /\ Served(chains[k], chains'[k])
      /\ \A i \in Chains \ {k} : chains'[i] = chains[i]
  BY ServeActs
<1>2. /\ chains'[j] # Idle /\ chains'[j].hold = chains[j].hold
      /\ chains'[j].kind = chains[j].kind /\ chains'[j].doc = chains[j].doc
      /\ chains'[j].then = chains[j].then
      /\ chains'[j] = chains[j] \/ chains[j].state = "sent"
  BY <1>1, RunningChain, ChainIsNotIdle DEF Served
<1>3. ChainFits(chains[j])
  BY DEF ChainsFit
<1>4. CASE docs'[d] = docs[d]
  BY <1>2, <1>4 DEF MendsRow, MendsCard, Marking, Carries
<1>5. CASE docs'[d] # docs[d]
  <2>1. P.marks
    BY <1>5
  <2>2. /\ MendsRow(P, chains[j], d, docs) =>
             chains[j].kind = "list" \/ Comes(chains[j].then, {"load"})
        /\ \A card : MendsCard(P, chains[j], card, docs) =>
             \/ Comes(chains[j].then, {"close"})
             \/ /\ ~P.sticky /\ chains[j].doc = card.doc
                /\ chains[j].kind = "detail" \/ Comes(chains[j].then, {"detail"})
    BY <1>3, <2>1, MarksReload
  <2>3. QED
    BY <1>2, <1>5, <2>2 DEF MendsRow, MendsCard
<1>6. QED
  BY <1>4, <1>5

-----------------------------------------------------------------------------
(* What an answer makes of the row of a document, and of the card, when it *)
(* is not overtaken: the row is what the server has, or is as it was and   *)
(* the chain was none of those that put it right; or a read shows a mark   *)
(* that the server has left behind.                                        *)
PutsRow(c, d) ==
  \/ c.kind = "list"
  \/ /\ Carries(c, d, docs)
     /\ Begins(c.then, "leave") \/ (Begins(c.then, "patch") /\ P.layer = "none")
  \/ Marking(P, c, d, docs, screen.list)

PutsCard(c) ==
  \/ Closes(c)
  \/ c.kind = "detail" /\ ~P.sticky
  \/ c.kind = "op" /\ Begins(c.then, "patch")

LEMMA AnswerIsFresh ==
  ASSUME NEW c \in ChainType, ~Overtaken(c)
  PROVE  /\ c.kind = "list" => c.got = docs /\ c.filter = filter
         /\ c.kind \in {"detail", "reread", "op"} => c.got[c.doc] = docs[c.doc]
BY DEF Overtaken

LEMMA ThroughOf ==
  ASSUME NEW statuses, NEW f, NEW d \in Docs
  PROVE  /\ statuses[d] \in f => Through(statuses, f)[d] = statuses[d]
         /\ statuses[d] \notin f => Through(statuses, f)[d] = "none"
BY DEF Through

LEMMA AnswerRow ==
  ASSUME PageFits(P), CabinetType, ChainsFit, AnswersInv,
         NEW k \in Chains, Answer(k), calm', NEW d \in Docs
  PROVE  \/ screen'.list[d] = Through(docs, filter)[d]
         \/ screen'.list[d] = screen.list[d] /\ ~PutsRow(chains[k], d)
         \/ /\ P.marks /\ chains[k].kind = "detail" /\ screen.list[d] \in {"generated", "sent"}
            /\ screen'.list[d] = "viewed" /\ docs[d] \notin {"generated", "sent"}
<1> DEFINE c == chains[k]
           s == Shown(c)
<1>1. /\ k \in Running /\ Showing(c, s) /\ GoOn(k, s) /\ s \in ScreenType /\ ~Overtaken(c)
      /\ c.kind = "timer" \/ c.state = "done"
  BY AnswerActs
<1>2. /\ c \in ChainType /\ ChainFits(c) /\ AnswerFits(P, c)
      /\ docs \in [Docs -> P.states] /\ filter \in P.filters
      /\ screen.list \in [Docs -> Statuses]
  BY <1>1, RunningChain DEF ChainsFit, AnswersInv, AnswersFit, CabinetType, ScreenType
<1>3. /\ c.kind = "list" => c.got = docs /\ c.filter = filter
      /\ c.kind \in {"detail", "reread", "op"} => c.got[c.doc] = docs[c.doc]
  BY <1>1, <1>2, AnswerIsFresh
<1>4. /\ c.then = << >> => screen' = s
      /\ c.then # << >> =>
           /\ StepShows(c, Head(c.then), s, screen')
           /\ Head(c.then) \cap {"patch", "leave"} # {} => c.kind = "op" /\ c.doc \in Docs
  BY <1>1, GoOnScreen
<1> HIDE DEF s
<1>5. c.kind # "op" => screen'.list = s.list
  BY <1>4 DEF StepShows
<1>6. CASE c.kind = "list"
  BY <1>1, <1>3, <1>5, <1>6 DEF Showing, ListShows, ListIgnored
<1>7. CASE c.kind = "detail"
  <2>1. c.doc \in Docs /\ (P.layer = "none" => ShowsAll(P)) /\ c.state = "done"
    BY <1>1, <1>2, <1>7 DEF ChainFits, ChainType
  <2>2. /\ docs[c.doc] \notin {"absent", "gone"}
        /\ P.marks => docs[c.doc] \notin {"generated", "sent"}
    BY <1>2, <1>3, <1>7, <2>1 DEF AnswerFits
  <2>3. screen'.list = s.list /\ DetailShows(c, s)
    BY <1>1, <1>5, <1>7 DEF Showing
  <2>4. P.marks => ~P.sticky
    BY DEF PageFits, MarksFit
  <2>5. CASE P.sticky /\ screen.card # Closed
    BY <1>7, <2>3, <2>4, <2>5 DEF DetailShows, PutsRow, Carries, Marking
  <2>6. CASE ~(P.sticky /\ screen.card # Closed)
    <3>1. SeenList(c) \in [Docs -> Statuses]
      <4>1. P.marks => "viewed" \in Statuses
        BY DEF PageFits, MarksFit, Statuses
      <4>2. QED
        BY <1>2, <4>1 DEF SeenList
    <3>2. CASE d # c.doc
      <4>1. SeenList(c)[d] = screen.list[d]
        BY <1>2, <2>1, <3>2 DEF SeenList
      <4>2. s.list[d] = screen.list[d]
        BY <2>1, <2>3, <2>6, <3>1, <3>2, <4>1 DEF DetailShows
      <4>3. QED
        BY <1>7, <2>3, <3>2, <4>2 DEF PutsRow, Carries, Marking
    <3>3. CASE d = c.doc /\ P.layer = "none"
      <4>1. s.list[d] = docs[d]
        BY <1>3, <1>7, <2>3, <2>6, <3>1, <3>3 DEF DetailShows
      <4>2. docs[d] \in filter
        BY <1>2, <2>1, <2>2, <3>3 DEF ShowsAll
      <4>3. QED
        BY <2>3, <4>1, <4>2, ThroughOf
    <3>4. CASE d = c.doc /\ P.layer # "none"
      <4>1. s.list = SeenList(c)
        BY <2>3, <2>6, <3>4 DEF DetailShows
      <4>2. CASE P.marks /\ screen.list[d] \in {"generated", "sent"}
        <5>1. SeenList(c)[d] = "viewed"
          BY <1>2, <3>4, <4>2 DEF SeenList
        <5>2. QED
          BY <1>7, <2>2, <2>3, <3>4, <4>1, <4>2, <5>1
      <4>3. CASE ~(P.marks /\ screen.list[d] \in {"generated", "sent"})
        <5>1. SeenList(c)[d] = screen.list[d]
          BY <3>4, <4>3 DEF SeenList
        <5>2. QED
          BY <1>7, <2>3, <4>1, <4>3, <5>1 DEF PutsRow, Carries, Marking
      <4>4. QED
        BY <4>2, <4>3
    <3>5. QED
      BY <3>2, <3>3, <3>4
  <2>7. QED
    BY <2>5, <2>6
<1>8. CASE c.kind \in {"reread", "timer"}
  BY <1>1, <1>5, <1>8 DEF Showing, RereadShows, PutsRow, Carries, Marking
<1>9. CASE c.kind = "op"
  <2>1. s = screen /\ c.state = "done"
    BY <1>1, <1>9 DEF Showing
  <2>2. /\ Begins(c.then, "patch") /\ P.layer = "none" => docs[c.doc] \in filter
        /\ Begins(c.then, "leave") => docs[c.doc] \notin filter
    BY <1>2, <1>3, <1>9, <2>1 DEF AnswerFits
  <2>3. CASE Begins(c.then, "leave")
    <3>1. c.doc \in Docs /\ screen'.list = [screen.list EXCEPT ![c.doc] = "none"]
      BY <1>4, <2>1, <2>3 DEF Begins, StepShows
    <3>2. CASE d = c.doc
      BY <1>2, <2>2, <2>3, <3>1, <3>2, ThroughOf
    <3>3. CASE d # c.doc
      BY <1>2, <1>9, <3>1, <3>3 DEF PutsRow, Carries, Marking
    <3>4. QED
      BY <3>2, <3>3
  <2>4. CASE ~Begins(c.then, "leave") /\ Begins(c.then, "patch") /\ P.layer = "none"
    <3>1. c.doc \in Docs /\ screen'.list = [screen.list EXCEPT ![c.doc] = c.got[c.doc]]
      BY <1>4, <2>1, <2>4 DEF Begins, StepShows
    <3>2. CASE d = c.doc
      BY <1>2, <1>3, <1>9, <2>2, <2>4, <3>1, <3>2, ThroughOf
    <3>3. CASE d # c.doc
      BY <1>2, <1>9, <3>1, <3>3 DEF PutsRow, Carries, Marking
    <3>4. QED
      BY <3>2, <3>3
  <2>5. CASE ~Begins(c.then, "leave") /\ ~(Begins(c.then, "patch") /\ P.layer = "none")
    <3>1. screen'.list = screen.list
      BY <1>4, <2>1, <2>5 DEF Begins, StepShows
    <3>2. QED
      BY <1>9, <2>5, <3>1 DEF PutsRow, Carries, Marking
  <2>6. QED
    BY <2>3, <2>4, <2>5
<1>10. QED
  BY <1>2, <1>6, <1>7, <1>8, <1>9 DEF ChainType, Kinds

LEMMA AnswerCard ==
  ASSUME PageFits(P), CabinetType, ChainsFit, AnswersInv, P.row = "fetch",
         NEW k \in Chains, Answer(k), calm'
  PROVE  \/ screen'.card = Closed
         \/ screen'.card.status = docs[screen'.card.doc]
         \/ screen'.card = screen.card /\ ~PutsCard(chains[k])
<1> DEFINE c == chains[k]
           s == Shown(c)
<1>1. /\ k \in Running /\ Showing(c, s) /\ GoOn(k, s) /\ s \in ScreenType /\ ~Overtaken(c)
  BY AnswerActs
<1>2. /\ c \in ChainType /\ ChainFits(c)
      /\ c.kind = "list" => c.got = docs /\ c.filter = filter
      /\ c.kind \in {"detail", "reread", "op"} => c.got[c.doc] = docs[c.doc]
  BY <1>1, RunningChain, AnswerIsFresh DEF ChainsFit
<1>3. /\ c.then = << >> => screen' = s
      /\ c.then # << >> =>
           /\ StepShows(c, Head(c.then), s, screen')
           /\ Head(c.then) \cap {"patch", "leave"} # {} => c.kind = "op" /\ c.doc \in Docs
  BY <1>1, GoOnScreen
<1>4. P.layer # "none"
  BY DEF PageFits
<1> HIDE DEF s
<1>5. CASE Closes(c)
  BY <1>3, <1>5 DEF Closes, StepShows
<1>6. CASE ~Closes(c) /\ Begins(c.then, "patch")
  <2>1. c.kind = "op" /\ screen'.card = [doc |-> c.doc, status |-> c.got[c.doc]]
    BY <1>3, <1>4, <1>6 DEF Closes, Begins, StepShows
  <2>2. QED
    BY <1>2, <2>1
<1>7. CASE ~Closes(c) /\ ~Begins(c.then, "patch")
  <2>1. screen'.card = s.card
    BY <1>3, <1>7 DEF Closes, Begins, StepShows
  <2>2. CASE c.kind = "list"
    BY <1>1, <1>2, <1>7, <2>1, <2>2 DEF Showing, ListShows, PutsCard
  <2>3. CASE c.kind = "detail"
    <3>1. DetailShows(c, s) /\ c.got[c.doc] = docs[c.doc]
      BY <1>1, <1>2, <2>3 DEF Showing
    <3>2. CASE P.sticky /\ screen.card # Closed
      BY <1>7, <2>1, <2>3, <3>1, <3>2 DEF DetailShows, PutsCard
    <3>3. CASE ~(P.sticky /\ screen.card # Closed)
      BY <1>4, <2>1, <3>1, <3>3 DEF DetailShows
    <3>4. QED
      BY <3>2, <3>3
  <2>4. CASE c.kind = "reread"
    <3>1. RereadShows(c, s) /\ c.got[c.doc] = docs[c.doc] /\ P.sticky
      BY <1>1, <1>2, <2>4 DEF Showing, ChainFits
    <3>2. CASE c.hold = "drawer" /\ screen.card # Closed
      <4>1. screen.card.doc = c.doc
        BY <1>1, <3>1, <3>2 DEF AnswersInv, DrawerHolds
      <4>2. QED
        BY <2>1, <3>1, <3>2, <4>1 DEF RereadShows
    <3>3. CASE ~(c.hold = "drawer" /\ screen.card # Closed)
      BY <1>7, <2>1, <2>4, <3>1, <3>3 DEF RereadShows, PutsCard
    <3>4. QED
      BY <3>2, <3>3
  <2>5. CASE c.kind \in {"timer", "op"}
    BY <1>1, <1>7, <2>1, <2>5 DEF Showing, PutsCard
  <2>6. QED
    BY <1>2, <2>2, <2>3, <2>4, <2>5 DEF ChainType, Kinds
<1>8. QED
  BY <1>5, <1>6, <1>7

(* After the answer, what was putting a row or the card right still does.  *)
LEMMA AnsweredRowMends ==
  ASSUME PageFits(P), CabinetType, ChainsFit, NEW k \in Chains, Answer(k),
         NEW j \in Running, NEW d, MendsRow(P, chains[j], d, docs),
         j = k => ~PutsRow(chains[k], d) \/ (P.marks /\ chains[k].kind = "detail")
  PROVE  /\ chains'[j] # Idle /\ MendsRow(P, chains'[j], d, docs)
         /\ chains[j].hold = "page" => chains'[j].hold = "page"
<1>1. /\ k \in Running /\ GoOn(k, Shown(chains[k])) /\ docs' = docs
  BY AnswerActs
<1>2. CASE j # k
  <2>1. Kept(chains[j], chains'[j])
    BY <1>1, <1>2, GoOnKeeps
  <2>2. QED
    BY <2>1, KeptMends DEF Kept
<1>3. CASE j = k
  <2>1. Comes(chains[k].then, {"load"})
    <3>1. chains[k].kind # "list"
      BY <1>3 DEF PutsRow
    <3>2. chains[k].kind = "detail" => ~Carries(chains[k], d, docs)
      BY DEF Carries
    <3>3. QED
      BY <1>3, <3>1, <3>2 DEF PutsRow, MendsRow
  <2>2. /\ chains'[k] # Idle
        /\ chains'[k].kind = "list" \/ Comes(chains'[k].then, {"load"})
        /\ chains'[k].hold = "page" <=> chains[k].hold = "page"
    BY <1>1, <2>1, FollowsMends
  <2>3. QED
    BY <1>3, <2>2 DEF MendsRow
<1>4. QED
  BY <1>2, <1>3

LEMMA AnsweredCardMends ==
  ASSUME PageFits(P), CabinetType, ChainsFit, NEW k \in Chains, Answer(k),
         NEW j \in Running, NEW card, MendsCard(P, chains[j], card, docs),
         j = k => ~PutsCard(chains[k])
  PROVE  /\ chains'[j] # Idle /\ MendsCard(P, chains'[j], card, docs)
         /\ chains[j].hold = "page" => chains'[j].hold = "page"
<1>1. /\ k \in Running /\ GoOn(k, Shown(chains[k])) /\ docs' = docs
  BY AnswerActs
<1>2. CASE j # k
  <2>1. Kept(chains[j], chains'[j])
    BY <1>1, <1>2, GoOnKeeps
  <2>2. QED
    BY <2>1, KeptMends DEF Kept
<1>3. CASE j = k
  <2>1. \/ Comes(chains[k].then, {"close"}) /\ ~Closes(chains[k])
        \/ /\ ~P.sticky /\ chains[k].doc = card.doc
           /\ Comes(chains[k].then, {"detail"})
    BY <1>3 DEF PutsCard, MendsCard, Carries
  <2>2. /\ Comes(chains[k].then, {"close"}) /\ ~Closes(chains[k]) =>
             chains'[k] # Idle /\ Comes(chains'[k].then, {"close"})
        /\ Comes(chains[k].then, {"detail"}) =>
             /\ chains'[k] # Idle /\ chains'[k].doc = chains[k].doc
             /\ chains'[k].kind = "detail" \/ Comes(chains'[k].then, {"detail"})
        /\ chains'[k] # Idle => (chains'[k].hold = "page" <=> chains[k].hold = "page")
    BY <1>1, FollowsMends
  <2>3. QED
    BY <1>3, <2>1, <2>2 DEF MendsCard
<1>4. QED
  BY <1>2, <1>3

-----------------------------------------------------------------------------
(* The rows and the card: what differs from the server is being put right. *)
RowsNext ==
  \A d \in Docs :
    screen'.list[d] # Through(docs', filter')[d] =>
      \E j \in Chains : /\ chains'[j] # Idle
                        /\ \/ MendsRow(P, chains'[j], d, docs')
                           \/ Marking(P, chains'[j], d, docs', screen'.list)

CardNext ==
  P.row = "fetch" /\ screen'.card # Closed /\ screen'.card.status # docs'[screen'.card.doc] =>
    \E j \in Chains : chains'[j] # Idle /\ MendsCard(P, chains'[j], screen'.card, docs')

LEMMA FreshKept == (calm' => RowsNext /\ CardNext) /\ page' = page => FreshInv'
<1>1. page' = page => P' = P
  BY DEF P
<1>2. QED
  BY <1>1 DEF RowsNext, CardNext, FreshInv, RowsMended, CardMended, Running

LEMMA FreshOfUser ==
  ASSUME PageFits(P), CabinetType, FreshInv, UserStep, calm'
  PROVE  RowsNext /\ CardNext
<1>1. /\ RowsMended /\ CardMended /\ docs' = docs /\ screen'.list = screen.list
      /\ \A j \in Running : j \in Chains /\ Kept(chains[j], chains'[j])
  BY DEF FreshInv, UserStep, Running
<1>2. ASSUME NEW d \in Docs, screen'.list[d] # Through(docs', filter')[d]
      PROVE  \E j \in Chains : /\ chains'[j] # Idle
                               /\ \/ MendsRow(P, chains'[j], d, docs')
                                  \/ Marking(P, chains'[j], d, docs', screen'.list)
  <2>1. CASE filter' = filter
    <3>1. PICK j \in Running : \/ MendsRow(P, chains[j], d, docs)
                               \/ Marking(P, chains[j], d, docs, screen.list)
      BY <1>1, <1>2, <2>1 DEF RowsMended
    <3>2. Kept(chains[j], chains'[j]) /\ chains'[j] # Idle
      BY <1>1 DEF Kept
    <3>3. \/ MendsRow(P, chains'[j], d, docs)
          \/ Marking(P, chains'[j], d, docs, screen.list)
      BY <3>1, <3>2, KeptMends
    <3>4. QED
      BY <1>1, <3>2, <3>3
  <2>2. CASE \E j \in Chains : chains'[j] # Idle /\ chains'[j].kind = "list"
    BY <2>2 DEF MendsRow
  <2>3. QED
    BY <2>1, <2>2 DEF UserStep
<1>3. ASSUME P.row = "fetch", screen'.card # Closed,
             screen'.card.status # docs'[screen'.card.doc]
      PROVE  \E j \in Chains : chains'[j] # Idle /\ MendsCard(P, chains'[j], screen'.card, docs')
  <2>1. screen'.card = screen.card
    BY <1>3 DEF UserStep
  <2>2. PICK j \in Running : MendsCard(P, chains[j], screen.card, docs)
    BY <1>1, <1>3, <2>1 DEF CardMended
  <2>3. Kept(chains[j], chains'[j]) /\ chains'[j] # Idle
    BY <1>1 DEF Kept
  <2>4. MendsCard(P, chains'[j], screen.card, docs)
    BY <2>2, <2>3, KeptMends
  <2>5. QED
    BY <1>1, <2>1, <2>3, <2>4
<1>4. QED
  BY <1>2, <1>3 DEF RowsNext, CardNext

(* Where the server changes a document whose row was true, the chain it    *)
(* answers puts the row right; where it was not true, another does.        *)
LEMMA FreshOfServe ==
  ASSUME PageFits(P), CabinetType, ChainsFit, FreshInv, NEW k \in Chains, Serve(k), calm'
  PROVE  RowsNext /\ CardNext
<1> DEFINE c == chains[k]
           e == chains'[k]
<1>1. /\ RowsMended /\ CardMended /\ screen' = screen /\ filter' = filter
      /\ k \in Running /\ Served(c, e) /\ ChainFits(c) /\ e # Idle /\ e.doc = c.doc
      /\ e.kind = c.kind
  BY ServeActs, ChainIsNotIdle DEF FreshInv, Served, ChainsFit
<1>2. filter \in P.filters /\ \A j \in Running : j \in Chains
  BY DEF CabinetType, Running
<1>3. ASSUME NEW d \in Docs, screen.list[d] # Through(docs', filter)[d]
      PROVE  \E j \in Chains : /\ chains'[j] # Idle
                               /\ \/ MendsRow(P, chains'[j], d, docs')
                                  \/ Marking(P, chains'[j], d, docs', screen.list)
  <2>1. CASE docs'[d] = docs[d]
    <3>1. screen.list[d] # Through(docs, filter)[d]
      BY <1>3, <2>1 DEF Through
    <3>2. PICK j \in Running : \/ MendsRow(P, chains[j], d, docs)
                               \/ Marking(P, chains[j], d, docs, screen.list)
      BY <1>1, <3>1 DEF RowsMended
    <3>3. QED
      BY <1>2, <2>1, <3>2, ServedMends
  <2>2. CASE docs'[d] # docs[d] /\ Executes(c, e) /\ ~Idles(P, c.op)
    <3>1. c.doc = d /\ e.state = "done" /\ e.got = docs'
      BY <1>1, <2>2, ServedDocs
    <3>2. MendsRow(P, e, d, docs')
      BY <1>1, <2>2, <3>1, ExecutedMends
    <3>3. QED
      BY <1>1, <3>2
  <2>3. CASE docs'[d] # docs[d] /\ Marked(c)
    <3>1. c.doc = d /\ e.state = "done" /\ e.got = docs'
      BY <1>1, <2>3, ServedDocs
    <3>2. /\ P.marks /\ c.kind = "detail"
          /\ docs[d] \in {"generated", "sent"} /\ docs'[d] = "viewed"
      BY <2>3, <3>1 DEF Marked
    <3>3. {"generated", "sent", "viewed"} \subseteq filter
      BY <1>2, <3>2 DEF PageFits, MarksFit
    <3>4. Through(docs, filter)[d] = docs[d]
      BY <3>2, <3>3, ThroughOf
    <3>5. CASE screen.list[d] = docs[d]
      <4>1. Marking(P, e, d, docs', screen.list)
        BY <1>1, <3>1, <3>2, <3>5 DEF Marking
      <4>2. QED
        BY <1>1, <4>1
    <3>6. CASE screen.list[d] # docs[d]
      <4>1. PICK j \in Running : \/ MendsRow(P, chains[j], d, docs)
                                 \/ Marking(P, chains[j], d, docs, screen.list)
        BY <1>1, <3>4, <3>6 DEF RowsMended
      <4>2. MendsRow(P, chains[j], d, docs)
        BY <3>2, <4>1 DEF Marking
      <4>3. QED
        BY <1>2, <3>2, <4>2, ServedMends
    <3>7. QED
      BY <3>5, <3>6
  <2>4. QED
    BY <1>1, <2>1, <2>2, <2>3, ServedDocs
<1>4. ASSUME P.row = "fetch", screen.card # Closed, screen.card.status # docs'[screen.card.doc]
      PROVE  \E j \in Chains : chains'[j] # Idle /\ MendsCard(P, chains'[j], screen.card, docs')
  <2> DEFINE d == screen.card.doc
  <2>1. d \in Docs
    BY <1>4 DEF CabinetType, ScreenType, CardType
  <2>2. CASE docs'[d] = docs[d]
    <3>1. PICK j \in Running : MendsCard(P, chains[j], screen.card, docs)
      BY <1>1, <1>4, <2>2 DEF CardMended
    <3>2. QED
      BY <1>2, <2>1, <2>2, <3>1, ServedMends
  <2>3. CASE docs'[d] # docs[d] /\ Executes(c, e) /\ ~Idles(P, c.op)
    <3>1. c.doc = d /\ e.state = "done" /\ e.got = docs'
      BY <1>1, <2>1, <2>3, ServedDocs
    <3>2. MendsCard(P, e, screen.card, docs')
      BY <1>1, <1>4, <2>3, <3>1, ExecutedMends
    <3>3. QED
      BY <1>1, <3>2
  <2>4. CASE docs'[d] # docs[d] /\ Marked(c)
    <3>1. c.doc = d /\ P.marks /\ c.kind = "detail"
      BY <1>1, <2>1, <2>4, ServedDocs DEF Marked
    <3>2. ~P.sticky
      BY <3>1 DEF PageFits, MarksFit
    <3>3. MendsCard(P, e, screen.card, docs')
      BY <1>1, <3>1, <3>2 DEF MendsCard
    <3>4. QED
      BY <1>1, <3>3
  <2>5. QED
    BY <1>1, <2>1, <2>2, <2>3, <2>4, ServedDocs
<1>5. QED
  BY <1>1, <1>3, <1>4 DEF RowsNext, CardNext

LEMMA FreshOfAnswer ==
  ASSUME PageFits(P), CabinetType, ChainsFit, AnswersInv, FreshInv,
         NEW k \in Chains, Answer(k), calm'
  PROVE  RowsNext /\ CardNext
<1> DEFINE c == chains[k]
<1>1. /\ RowsMended /\ CardMended /\ docs' = docs /\ filter' = filter /\ k \in Running
      /\ GoOn(k, Shown(c)) /\ \A j \in Running : j \in Chains
  BY AnswerActs DEF FreshInv, Running
<1>2. filter \in P.filters
  BY DEF CabinetType
<1>3. ASSUME NEW d \in Docs, screen'.list[d] # Through(docs, filter)[d]
      PROVE  \E j \in Chains : /\ chains'[j] # Idle
                               /\ \/ MendsRow(P, chains'[j], d, docs)
                                  \/ Marking(P, chains'[j], d, docs, screen'.list)
  <2>1. CASE screen'.list[d] = screen.list[d] /\ ~PutsRow(c, d)
    <3>1. PICK j \in Running : \/ MendsRow(P, chains[j], d, docs)
                               \/ Marking(P, chains[j], d, docs, screen.list)
      BY <1>1, <1>3, <2>1 DEF RowsMended
    <3>2. CASE MendsRow(P, chains[j], d, docs)
      BY <1>1, <2>1, <3>2, AnsweredRowMends
    <3>3. CASE Marking(P, chains[j], d, docs, screen.list)
      <4>1. j # k
        BY <2>1, <3>3 DEF PutsRow
      <4>2. Kept(chains[j], chains'[j])
        BY <1>1, <4>1, GoOnKeeps
      <4>3. Marking(P, chains'[j], d, docs, screen'.list)
        BY <2>1, <3>3, <4>2 DEF Kept, Same, Marking
      <4>4. QED
        BY <1>1, <4>2, <4>3 DEF Kept
    <3>4. QED
      BY <3>1, <3>2, <3>3
  <2>2. CASE /\ P.marks /\ c.kind = "detail" /\ screen.list[d] \in {"generated", "sent"}
             /\ screen'.list[d] = "viewed" /\ docs[d] \notin {"generated", "sent"}
    <3>1. "viewed" \in filter
      BY <1>2, <2>2 DEF PageFits, MarksFit
    <3>2. docs[d] # "viewed"
      BY <1>3, <2>2, <3>1, ThroughOf
    <3>3. screen.list[d] # Through(docs, filter)[d]
      BY <2>2, ThroughOf
    <3>4. PICK j \in Running : \/ MendsRow(P, chains[j], d, docs)
                               \/ Marking(P, chains[j], d, docs, screen.list)
      BY <1>1, <3>3 DEF RowsMended
    <3>5. MendsRow(P, chains[j], d, docs)
      BY <3>2, <3>4 DEF Marking
    <3>6. QED
      BY <1>1, <2>2, <3>5, AnsweredRowMends
  <2>3. QED
    BY <1>3, <2>1, <2>2, AnswerRow
<1>4. ASSUME P.row = "fetch", screen'.card # Closed, screen'.card.status # docs[screen'.card.doc]
      PROVE  \E j \in Chains : chains'[j] # Idle /\ MendsCard(P, chains'[j], screen'.card, docs)
  <2>1. screen'.card = screen.card /\ ~PutsCard(c)
    BY <1>4, AnswerCard
  <2>2. PICK j \in Running : MendsCard(P, chains[j], screen.card, docs)
    BY <1>1, <1>4, <2>1 DEF CardMended
  <2>3. QED
    BY <1>1, <2>1, <2>2, AnsweredCardMends
<1>5. QED
  BY <1>1, <1>3, <1>4 DEF RowsNext, CardNext

LEMMA FreshNextStep ==
  ASSUME PageFits(P), CabinetType, ChainsFit, AnswersInv, FreshInv, CabinetNext
  PROVE  calm' => RowsNext /\ CardNext
<1>1. CASE \/ \E f \in P.filters : ChooseFilter(f)
           \/ Refresh
           \/ \E d \in Docs : Open(d)
           \/ Close
           \/ \E a \in P.acts, d \in Docs : Press(a, d)
  BY <1>1, UserSteps, FreshOfUser
<1>2. ASSUME NEW k \in Chains, Serve(k)
      PROVE  calm' => RowsNext /\ CardNext
  BY <1>2, FreshOfServe
<1>3. ASSUME NEW k \in Chains, Answer(k)
      PROVE  calm' => RowsNext /\ CardNext
  BY <1>3, FreshOfAnswer
<1>4. ASSUME NEW k \in Chains, Fails(k)
      PROVE  ~calm'
  BY <1>4 DEF Fails
<1>5. ASSUME NEW d \in Docs, Foreign(d)
      PROVE  ~calm'
  BY <1>5, ForeignActs
<1>6. QED
  BY <1>1, <1>2, <1>3, <1>4, <1>5, FailsActs DEF CabinetNext

-----------------------------------------------------------------------------
(* The pages whose buttons share one flag: one chain holds it, and what is *)
(* shown and not true is put right by the chain that holds it.             *)
FlagNext ==
  /\ \A j \in Chains : chains'[j] # Idle => Holds(chains'[j], screen'.busy)
  /\ \A i, j \in Chains :
       /\ chains'[i] # Idle /\ chains'[i].hold = "page"
       /\ chains'[j] # Idle /\ chains'[j].hold = "page"
       => i = j

RowsHeldNext ==
  \A d \in Docs :
    screen'.list[d] # "none" /\ ~TrueOf(P, screen'.list[d], docs'[d]) =>
      \E j \in Chains : /\ chains'[j] # Idle /\ chains'[j].hold = "page"
                        /\ MendsRow(P, chains'[j], d, docs')

CardHeldNext ==
  /\ P.row = "fetch" /\ screen'.card # Closed
  /\ ~TrueOf(P, screen'.card.status, docs'[screen'.card.doc])
  => \E j \in Chains : /\ chains'[j] # Idle /\ chains'[j].hold = "page"
                       /\ MendsCard(P, chains'[j], screen'.card, docs')

OpsNext == \A j \in Chains : chains'[j] # Idle => OpFits(P, chains'[j], docs')

HeldNext ==
  IsCareful(P) => FlagNext /\ (calm' => RowsHeldNext /\ CardHeldNext /\ OpsNext)

LEMMA HeldKept == HeldNext /\ page' = page => HeldInv'
<1> SUFFICES ASSUME HeldNext, page' = page PROVE HeldInv'
  OBVIOUS
<1>1. P' = P
  BY DEF P
<1>2. \A j : j \in Running' <=> j \in Chains /\ chains'[j] # Idle
  BY DEF Running
<1>3. FlagNext => FlagHeld'
  BY <1>2 DEF FlagNext, FlagHeld
<1>4. /\ RowsHeldNext => RowsHeld'
      /\ CardHeldNext => CardHeld'
      /\ OpsNext => OpsFit'
  BY <1>1, <1>2
  DEF RowsHeldNext, RowsHeld, CardHeldNext, CardHeld, OpsNext, OpsFit
<1>5. QED
  BY <1>1, <1>3, <1>4 DEF HeldNext, HeldInv

(* What a button is offered on is what the server has.                     *)
LEMMA TrueFits ==
  ASSUME PageFits(P), NEW a \in P.acts, NEW s, NEW status, s \in a.on, TrueOf(P, s, status)
  PROVE  Fitting(a, status)
BY DEF TrueOf, Fitting, PageFits, MarksFit

LEMMA PressedFits ==
  ASSUME PageFits(P), CabinetType, IsCareful(P), HeldInv,
         NEW a \in P.acts, NEW d \in Docs, Press(a, d)
  PROVE  /\ Flag(a, d) = "page" /\ FreesLast(a.then) /\ "page" \in screen'.busy
         /\ \A j \in Running : chains[j].hold # "page"
         /\ calm => Fitting(a, docs[d])
<1>1. /\ a.held = "page" /\ FreesLast(a.then) /\ "none" \notin a.on
      /\ P.row \in {"none", "fetch"} /\ (P.row = "none" => a.at # "drawer")
  BY DEF IsCareful, PageFits, CarefulFits
<1>2. Flag(a, d) = "page" /\ "page" \notin screen.busy /\ "page" \in screen'.busy
  BY <1>1, PressActs DEF Flag
<1>3. \A j \in Running : chains[j].hold # "page"
  BY <1>2 DEF HeldInv, FlagHeld, Holds
<1>4. ASSUME calm
      PROVE  Fitting(a, docs[d])
  <2>1. RowsHeld /\ CardHeld
    BY <1>4 DEF HeldInv
  <2>2. CASE a.at = "row" /\ screen.list[d] \in a.on
    <3>1. TrueOf(P, screen.list[d], docs[d])
      BY <1>1, <1>3, <2>1, <2>2 DEF RowsHeld
    <3>2. QED
      BY <2>2, <3>1, TrueFits
  <2>3. CASE a.at = "drawer" /\ screen.card.doc = d /\ screen.card.status \in a.on
    <3>1. screen.card # Closed
      BY <2>3 DEF Closed
    <3>2. TrueOf(P, screen.card.status, docs[d])
      BY <1>1, <1>3, <2>1, <2>3, <3>1 DEF CardHeld
    <3>3. QED
      BY <2>3, <3>2, TrueFits
  <2>4. CASE a.at = "form" /\ docs[d] = "absent"
    BY <2>4 DEF Fitting
  <2>5. QED
    BY <2>2, <2>3, <2>4 DEF Press, Offered
<1>5. QED
  BY <1>1, <1>2, <1>3, <1>4

LEMMA HeldOfUser ==
  ASSUME PageFits(P), CabinetType, HeldInv, UserStep
  PROVE  HeldNext
<1> SUFFICES ASSUME IsCareful(P)
             PROVE  FlagNext /\ (calm' => RowsHeldNext /\ CardHeldNext /\ OpsNext)
  BY DEF HeldNext
<1>1. /\ FlagHeld /\ docs' = docs /\ screen'.list = screen.list /\ calm' = calm
      /\ calm => RowsHeld /\ CardHeld /\ OpsFit
      /\ "page" \in screen.busy => "page" \in screen'.busy
  BY DEF HeldInv, UserStep
<1>2. ASSUME NEW j \in Running
      PROVE  /\ Kept(chains[j], chains'[j]) /\ j \in Chains /\ chains'[j] # Idle
             /\ chains'[j].hold = "page" <=> chains[j].hold = "page"
             /\ Holds(chains'[j], screen'.busy)
  <2>1. Kept(chains[j], chains'[j]) /\ j \in Chains
    BY DEF UserStep, Running
  <2>2. Holds(chains[j], screen.busy)
    BY <1>1 DEF FlagHeld
  <2>3. QED
    BY <1>1, <2>1, <2>2 DEF Kept, Same, Holds
<1>3. ASSUME NEW j \in Chains \ Running, chains'[j] # Idle
      PROVE  /\ Holds(chains'[j], screen'.busy)
             /\ calm => OpFits(P, chains'[j], docs)
             /\ chains'[j].hold = "page" => \A i \in Running : chains[i].hold # "page"
  <2>1. chains'[j].state = "sent" /\ Begun(chains'[j])
    BY <1>3 DEF UserStep, Begun
  <2>2. CASE chains'[j].kind # "op" /\ chains'[j].hold = "none"
    BY <2>2 DEF Holds, OpFits
  <2>3. CASE Pressed(chains'[j])
    <3>1. PICK a \in P.acts, d \in Docs :
            /\ Press(a, d)
            /\ chains'[j].kind = "op" /\ chains'[j].op = a.op /\ chains'[j].doc = d
            /\ chains'[j].hold = Flag(a, d) /\ chains'[j].then = a.then
      BY <2>3 DEF Pressed
    <3>2. /\ Flag(a, d) = "page" /\ FreesLast(a.then) /\ "page" \in screen'.busy
          /\ \A i \in Running : chains[i].hold # "page"
          /\ calm => Fitting(a, docs[d])
      BY <3>1, PressedFits
    <3>3. QED
      BY <2>1, <3>1, <3>2 DEF Holds, OpFits
  <2>4. QED
    BY <2>1, <2>2, <2>3 DEF Begun
<1>4. FlagNext
  <2>1. \A j \in Chains : chains'[j] # Idle => Holds(chains'[j], screen'.busy)
    BY <1>2, <1>3
  <2>2. ASSUME NEW i \in Chains, chains'[i] # Idle, chains'[i].hold = "page",
               NEW j \in Chains, chains'[j] # Idle, chains'[j].hold = "page"
        PROVE  i = j
    <3>1. CASE i \in Running /\ j \in Running
      BY <1>1, <1>2, <2>2, <3>1 DEF FlagHeld
    <3>2. CASE i \notin Running /\ j \notin Running
      BY <2>2, <3>2 DEF UserStep
    <3>3. CASE i \in Running /\ j \notin Running
      BY <1>2, <1>3, <2>2, <3>3
    <3>4. CASE i \notin Running /\ j \in Running
      BY <1>2, <1>3, <2>2, <3>4
    <3>5. QED
      BY <3>1, <3>2, <3>3, <3>4
  <2>3. QED
    BY <2>1, <2>2 DEF FlagNext
<1>5. ASSUME calm
      PROVE  RowsHeldNext
  <2> SUFFICES ASSUME NEW d \in Docs, screen.list[d] # "none",
                      ~TrueOf(P, screen.list[d], docs[d])
               PROVE  \E j \in Chains : /\ chains'[j] # Idle /\ chains'[j].hold = "page"
                                        /\ MendsRow(P, chains'[j], d, docs)
    BY <1>1 DEF RowsHeldNext
  <2>1. PICK j \in Running : chains[j].hold = "page" /\ MendsRow(P, chains[j], d, docs)
    BY <1>1, <1>5 DEF RowsHeld
  <2>2. MendsRow(P, chains'[j], d, docs)
    BY <1>2, <2>1, KeptMends
  <2>3. QED
    BY <1>2, <2>1, <2>2
<1>6. ASSUME calm
      PROVE  CardHeldNext
  <2> SUFFICES ASSUME P.row = "fetch", screen'.card # Closed,
                      ~TrueOf(P, screen'.card.status, docs[screen'.card.doc])
               PROVE  \E j \in Chains : /\ chains'[j] # Idle /\ chains'[j].hold = "page"
                                        /\ MendsCard(P, chains'[j], screen'.card, docs)
    BY <1>1 DEF CardHeldNext
  <2>1. screen'.card = screen.card
    BY DEF UserStep
  <2>2. PICK j \in Running : chains[j].hold = "page" /\ MendsCard(P, chains[j], screen.card, docs)
    BY <1>1, <1>6, <2>1 DEF CardHeld
  <2>3. MendsCard(P, chains'[j], screen.card, docs)
    BY <1>2, <2>2, KeptMends
  <2>4. QED
    BY <1>2, <2>1, <2>2, <2>3
<1>7. ASSUME calm
      PROVE  OpsNext
  <2>1. ASSUME NEW j \in Running
        PROVE  OpFits(P, chains'[j], docs)
    <3>1. OpFits(P, chains[j], docs)
      BY <1>1, <1>7 DEF OpsFit
    <3>2. Kept(chains[j], chains'[j])
      BY <1>2
    <3>3. QED
      BY <3>1, <3>2 DEF OpFits, Kept, Same
  <2>2. QED
    BY <1>1, <1>3, <1>7, <2>1 DEF OpsNext
<1>8. QED
  BY <1>1, <1>4, <1>5, <1>6, <1>7

LEMMA HeldOfServe ==
  ASSUME PageFits(P), CabinetType, ChainsFit, HeldInv, NEW k \in Chains, Serve(k)
  PROVE  HeldNext
<1> SUFFICES ASSUME IsCareful(P)
             PROVE  FlagNext /\ (calm' => RowsHeldNext /\ CardHeldNext /\ OpsNext)
  BY DEF HeldNext
<1> DEFINE c == chains[k]
           e == chains'[k]
<1>1. /\ k \in Running /\ screen' = screen /\ calm' = calm /\ Served(c, e)
      /\ \A j \in Chains \ {k} : chains'[j] = chains[j]
      /\ FlagHeld /\ (calm => RowsHeld /\ CardHeld /\ OpsFit)
  BY ServeActs DEF HeldInv
<1>2. /\ ChainFits(c) /\ e # Idle /\ e.kind = c.kind /\ e.op = c.op /\ e.doc = c.doc
      /\ e.hold = c.hold /\ e.then = c.then /\ c.state = "sent"
  BY <1>1, ChainIsNotIdle DEF Served, ChainsFit
<1>3. \A j \in Chains : chains'[j] # Idle =>
        /\ j \in Running /\ chains'[j].kind = chains[j].kind
        /\ chains'[j].hold = chains[j].hold /\ chains'[j].then = chains[j].then
  BY <1>1, <1>2 DEF Running
<1>4. FlagNext
  BY <1>1, <1>3 DEF FlagNext, FlagHeld, Holds
<1>5. \A j \in Running : j \in Chains
  BY DEF Running
<1>6. Executes(c, e) => c.hold = "page"
  BY <1>1 DEF Executes, FlagHeld, Holds
<1>7. ASSUME calm
      PROVE  RowsHeldNext
  <2> SUFFICES ASSUME NEW d \in Docs, screen.list[d] # "none",
                      ~TrueOf(P, screen.list[d], docs'[d])
               PROVE  \E j \in Chains : /\ chains'[j] # Idle /\ chains'[j].hold = "page"
                                        /\ MendsRow(P, chains'[j], d, docs')
    BY <1>1 DEF RowsHeldNext
  <2>1. CASE docs'[d] # docs[d] /\ Executes(c, e) /\ ~Idles(P, c.op)
    <3>1. c.doc = d /\ e.state = "done" /\ e.got = docs'
      BY <1>1, <2>1, ServedDocs
    <3>2. MendsRow(P, e, d, docs')
      BY <1>1, <1>2, <2>1, <3>1, ExecutedMends
    <3>3. QED
      BY <1>2, <1>6, <2>1, <3>2
  <2>2. CASE docs'[d] = docs[d] \/ (docs'[d] # docs[d] /\ Marked(c))
    <3>1. ~TrueOf(P, screen.list[d], docs[d]) /\ (docs'[d] = docs[d] \/ P.marks)
      <4>1. CASE docs'[d] = docs[d]
        BY <4>1
      <4>2. CASE docs'[d] # docs[d] /\ Marked(c)
        <5>1. /\ P.marks /\ docs[d] \in {"generated", "sent"} /\ docs'[d] = "viewed"
          BY <1>1, <4>2, ServedDocs DEF Marked
        <5>2. QED
          BY <5>1 DEF TrueOf
      <4>3. QED
        BY <2>2, <4>1, <4>2
    <3>2. PICK j \in Running : chains[j].hold = "page" /\ MendsRow(P, chains[j], d, docs)
      BY <1>1, <1>7, <3>1 DEF RowsHeld
    <3>3. QED
      BY <1>5, <3>1, <3>2, ServedMends
  <2>3. QED
    BY <1>1, <2>1, <2>2, ServedDocs
<1>8. ASSUME calm
      PROVE  CardHeldNext
  <2> DEFINE d == screen.card.doc
  <2> SUFFICES ASSUME P.row = "fetch", screen.card # Closed,
                      ~TrueOf(P, screen.card.status, docs'[d])
               PROVE  \E j \in Chains : /\ chains'[j] # Idle /\ chains'[j].hold = "page"
                                        /\ MendsCard(P, chains'[j], screen.card, docs')
    BY <1>1 DEF CardHeldNext
  <2>1. d \in Docs
    BY DEF CabinetType, ScreenType, CardType
  <2>2. CASE docs'[d] # docs[d] /\ Executes(c, e) /\ ~Idles(P, c.op)
    <3>1. c.doc = d /\ e.state = "done" /\ e.got = docs'
      BY <1>1, <2>1, <2>2, ServedDocs
    <3>2. MendsCard(P, e, screen.card, docs')
      BY <1>1, <1>2, <2>2, <3>1, ExecutedMends
    <3>3. QED
      BY <1>2, <1>6, <2>2, <3>2
  <2>3. CASE docs'[d] = docs[d] \/ (docs'[d] # docs[d] /\ Marked(c))
    <3>1. ~TrueOf(P, screen.card.status, docs[d]) /\ (docs'[d] = docs[d] \/ P.marks)
      <4>1. CASE docs'[d] = docs[d]
        BY <4>1
      <4>2. CASE docs'[d] # docs[d] /\ Marked(c)
        <5>1. /\ P.marks /\ docs[d] \in {"generated", "sent"} /\ docs'[d] = "viewed"
          BY <1>1, <2>1, <4>2, ServedDocs DEF Marked
        <5>2. QED
          BY <5>1 DEF TrueOf
      <4>3. QED
        BY <2>3, <4>1, <4>2
    <3>2. PICK j \in Running :
            chains[j].hold = "page" /\ MendsCard(P, chains[j], screen.card, docs)
      BY <1>1, <1>8, <3>1 DEF CardHeld
    <3>3. QED
      BY <1>5, <2>1, <3>1, <3>2, ServedMends
  <2>4. QED
    BY <1>1, <2>1, <2>2, <2>3, ServedDocs
<1>9. ASSUME calm
      PROVE  OpsNext
  <2> SUFFICES ASSUME NEW j \in Chains, chains'[j] # Idle, chains'[j].kind = "op"
               PROVE  /\ chains'[j].state # "refused"
                      /\ chains'[j].state = "sent" =>
                           \E a \in P.acts : /\ chains'[j].op = a.op
                                             /\ Fitting(a, docs'[chains'[j].doc])
    BY DEF OpsNext, OpFits
  <2>1. /\ j \in Running /\ chains[j].kind = "op" /\ OpFits(P, chains[j], docs)
        /\ chains[j].hold = "page"
    BY <1>1, <1>3, <1>9 DEF OpsFit, FlagHeld, Holds
  <2>2. CASE j = k
    <3>1. PICK a \in P.acts : c.op = a.op /\ Fitting(a, docs[c.doc])
      BY <1>2, <2>1, <2>2 DEF OpFits
    <3>2. CarefulFits(P)
      BY DEF PageFits
    <3>3. Accepts(P, c.op, docs[c.doc])
      BY <3>1, <3>2 DEF CarefulFits, Fitting
    <3>4. e.state = "done"
      BY <1>1, <2>1, <2>2, <3>3 DEF Served, Reads, Executes
    <3>5. QED
      BY <2>2, <3>4
  <2>3. CASE j # k
    <3>1. chains'[j] = chains[j] /\ chains[j].doc \in Docs
      BY <1>1, <2>1, <2>3, RunningChain DEF ChainsFit, ChainFits, ChainType
    <3>2. ~Executes(c, e)
      BY <1>1, <1>6, <2>1, <2>3 DEF FlagHeld
    <3>3. ASSUME NEW a \in P.acts, Fitting(a, docs[chains[j].doc])
          PROVE  Fitting(a, docs'[chains[j].doc])
      <4>1. CASE docs'[chains[j].doc] = docs[chains[j].doc]
        BY <3>3, <4>1
      <4>2. CASE docs'[chains[j].doc] # docs[chains[j].doc]
        <5>1. /\ P.marks /\ docs[chains[j].doc] \in {"generated", "sent"}
              /\ docs'[chains[j].doc] = "viewed"
          BY <1>1, <3>1, <3>2, <4>2, ServedDocs DEF Marked
        <5>2. QED
          BY <3>3, <5>1 DEF Fitting, PageFits, MarksFit
      <4>3. QED
        BY <4>1, <4>2
    <3>4. QED
      BY <2>1, <3>1, <3>3 DEF OpFits
  <2>4. QED
    BY <2>2, <2>3
<1>10. QED
  BY <1>1, <1>4, <1>7, <1>8, <1>9

(* A chain that goes on gives the flag back with its last step.            *)
LEMMA FlagOfGoOn ==
  ASSUME PageFits(P), CabinetType, ChainsFit, FlagHeld,
         NEW k \in Running, NEW s \in ScreenType, GoOn(k, s), s.busy = screen.busy
  PROVE  FlagNext
<1> DEFINE c == chains[k]
           e == chains'[k]
           stage == Head(c.then)
<1>1. /\ \A j \in Running \ {k} : Kept(chains[j], chains'[j])
      /\ \A j \in Chains \ Running : chains'[j] = Idle
      /\ e = Idle \/ Follows(c, e)
  BY GoOnKeeps
<1>2. /\ c \in ChainType /\ ChainFits(c) /\ c.then \in Seq(SUBSET Steps)
      /\ Holds(c, screen.busy)
  BY RunningChain DEF ChainsFit, ChainType, FlagHeld
<1>3. ASSUME c.hold = "page", e # Idle
      PROVE  "free" \notin stage /\ FreesLast(e.then)
  <2>1. /\ c.then # << >> /\ stage \cap Sends # {} /\ e.then = Tail(c.then)
        /\ FreesLast(c.then)
    BY <1>1, <1>2, <1>3 DEF Follows, Holds
  <2>2. /\ stage = c.then[1] /\ 1 \in 1..Len(c.then)
        /\ \A i \in 1..Len(Tail(c.then)) : /\ i + 1 \in 1..Len(c.then)
                                           /\ Tail(c.then)[i] = c.then[i + 1]
    BY <1>2, <2>1
  <2>3. QED
    BY <2>1, <2>2 DEF FreesLast
<1>4. /\ c.then = << >> => screen' = s /\ e = Idle
      /\ c.then # << >> => StepShows(c, stage, s, screen')
  BY GoOnScreen
<1>5. ASSUME NEW j \in Chains, chains'[j] # Idle
      PROVE  /\ j \in Running /\ (chains'[j].hold = "page" <=> chains[j].hold = "page")
             /\ Holds(chains'[j], screen'.busy)
  <2>1. CASE j = k
    <3>1. Follows(c, e) /\ e.kind # "op" /\ (e.hold = "page" <=> c.hold = "page")
      BY <1>1, <1>2, <1>5, <2>1, FollowsFits DEF Follows
    <3>2. e.hold = "page" => "page" \in screen'.busy
      BY <1>2, <1>3, <1>4, <1>5, <2>1, <3>1 DEF StepShows, Holds
    <3>3. QED
      BY <1>3, <1>5, <2>1, <3>1, <3>2 DEF Holds
  <2>2. CASE j # k
    <3>1. j \in Running /\ Kept(chains[j], chains'[j]) /\ Holds(chains[j], screen.busy)
      BY <1>1, <1>5, <2>2 DEF FlagHeld
    <3>2. chains[j].hold = "page" => c.hold # "page"
      BY <2>2, <3>1 DEF FlagHeld
    <3>3. chains[j].hold = "page" => "page" \in screen'.busy
      BY <1>4, <3>1, <3>2 DEF StepShows, Holds
    <3>4. QED
      BY <3>1, <3>3 DEF Kept, Same, Holds
  <2>3. QED
    BY <2>1, <2>2
<1>6. QED
  BY <1>5 DEF FlagNext, FlagHeld

LEMMA HeldOfAnswer ==
  ASSUME PageFits(P), CabinetType, ChainsFit, AnswersInv, HeldInv,
         NEW k \in Chains, Answer(k)
  PROVE  HeldNext
<1> SUFFICES ASSUME IsCareful(P)
             PROVE  FlagNext /\ (calm' => RowsHeldNext /\ CardHeldNext /\ OpsNext)
  BY DEF HeldNext
<1> DEFINE c == chains[k]
           s == Shown(c)
<1>1. /\ k \in Running /\ GoOn(k, s) /\ s \in ScreenType /\ FlagsShown(c, s)
      /\ docs' = docs /\ (calm' => calm)
      /\ FlagHeld /\ (calm => RowsHeld /\ CardHeld /\ OpsFit)
  BY AnswerActs DEF HeldInv
<1>2. FlagNext
  BY <1>1, FlagOfGoOn DEF FlagsShown
<1>3. \A j \in Running : j \in Chains
  BY DEF Running
<1>4. ASSUME calm'
      PROVE  RowsHeldNext
  <2> SUFFICES ASSUME NEW d \in Docs, screen'.list[d] # "none",
                      ~TrueOf(P, screen'.list[d], docs[d])
               PROVE  \E j \in Chains : /\ chains'[j] # Idle /\ chains'[j].hold = "page"
                                        /\ MendsRow(P, chains'[j], d, docs)
    BY <1>1 DEF RowsHeldNext
  <2>1. screen'.list[d] # Through(docs, filter)[d]
    BY DEF Through, TrueOf
  <2>2. /\ screen.list[d] # "none" /\ ~TrueOf(P, screen.list[d], docs[d])
        /\ ~PutsRow(c, d) \/ (P.marks /\ c.kind = "detail")
    BY <1>4, <2>1, AnswerRow DEF TrueOf
  <2>3. PICK j \in Running : chains[j].hold = "page" /\ MendsRow(P, chains[j], d, docs)
    BY <1>1, <1>4, <2>2 DEF RowsHeld
  <2>4. QED
    BY <1>3, <2>2, <2>3, AnsweredRowMends
<1>5. ASSUME calm'
      PROVE  CardHeldNext
  <2> SUFFICES ASSUME P.row = "fetch", screen'.card # Closed,
                      ~TrueOf(P, screen'.card.status, docs[screen'.card.doc])
               PROVE  \E j \in Chains : /\ chains'[j] # Idle /\ chains'[j].hold = "page"
                                        /\ MendsCard(P, chains'[j], screen'.card, docs)
    BY <1>1 DEF CardHeldNext
  <2>1. screen'.card.status # docs[screen'.card.doc]
    BY DEF TrueOf
  <2>2. screen'.card = screen.card /\ ~PutsCard(c)
    BY <1>5, <2>1, AnswerCard
  <2>3. PICK j \in Running :
          chains[j].hold = "page" /\ MendsCard(P, chains[j], screen.card, docs)
    BY <1>1, <1>5, <2>2 DEF CardHeld
  <2>4. QED
    BY <1>3, <2>2, <2>3, AnsweredCardMends
<1>6. ASSUME calm'
      PROVE  OpsNext
  <2> SUFFICES ASSUME NEW j \in Chains, chains'[j] # Idle
               PROVE  OpFits(P, chains'[j], docs)
    BY <1>1 DEF OpsNext
  <2>1. CASE j = k
    <3>1. chains'[k].kind # "op"
      BY <1>1, <2>1, GoOnKeeps, RunningChain, FollowsFits DEF ChainsFit
    <3>2. QED
      BY <2>1, <3>1 DEF OpFits
  <2>2. CASE j # k
    <3>1. j \in Running /\ Kept(chains[j], chains'[j])
      BY <1>1, <2>2, GoOnKeeps
    <3>2. OpFits(P, chains[j], docs)
      BY <1>1, <1>6, <3>1 DEF OpsFit
    <3>3. QED
      BY <3>1, <3>2 DEF OpFits, Kept, Same
  <2>3. QED
    BY <2>1, <2>2
<1>7. QED
  BY <1>2, <1>4, <1>5, <1>6

LEMMA HeldNextStep ==
  ASSUME PageFits(P), CabinetType, ChainsFit, AnswersInv, HeldInv, CabinetNext
  PROVE  HeldNext
<1>1. CASE \/ \E f \in P.filters : ChooseFilter(f)
           \/ Refresh
           \/ \E d \in Docs : Open(d)
           \/ Close
           \/ \E a \in P.acts, d \in Docs : Press(a, d)
  BY <1>1, UserSteps, HeldOfUser
<1>2. ASSUME NEW k \in Chains, Serve(k)
      PROVE  HeldNext
  BY <1>2, HeldOfServe
<1>3. ASSUME NEW k \in Chains, Answer(k)
      PROVE  HeldNext
  BY <1>3, HeldOfAnswer
<1>4. ASSUME NEW k \in Chains, Fails(k)
      PROVE  HeldNext
  <2> SUFFICES ASSUME IsCareful(P) PROVE FlagNext
    BY <1>4 DEF HeldNext, Fails
  <2>1. k \in Running /\ Failed(k) /\ FlagHeld
    BY <1>4 DEF Fails, HeldInv
  <2>2. CASE chains[k].kind = "op"
    <3>1. /\ chains' = [chains EXCEPT ![k] = Idle] /\ chains[k].hold = "page"
      BY <2>1, <2>2, FailedButton DEF FlagHeld, Holds
    <3>2. \A j \in Chains : chains'[j] # Idle =>
            j \in Running /\ j # k /\ chains'[j] = chains[j]
      BY <3>1 DEF CabinetType, Running
    <3>3. QED
      BY <2>1, <3>1, <3>2 DEF FlagNext, FlagHeld, Holds
  <2>3. CASE chains[k].kind # "op"
    <3>1. PICK s \in ScreenType : FlagsShown(chains[k], s) /\ GoOn(k, s)
      BY <2>1, <2>3, FailedScreen
    <3>2. QED
      BY <2>1, <3>1, FlagOfGoOn DEF FlagsShown
  <2>4. QED
    BY <2>2, <2>3
<1>5. ASSUME NEW d \in Docs, Foreign(d)
      PROVE  HeldNext
  <2> SUFFICES ASSUME IsCareful(P) PROVE FlagNext
    BY <1>5, ForeignActs DEF HeldNext
  <2>1. screen' = screen /\ chains' = chains /\ FlagHeld
    BY <1>5, ForeignActs DEF HeldInv
  <2>2. QED
    BY <2>1 DEF FlagNext, FlagHeld, Running
<1>6. QED
  BY <1>1, <1>2, <1>3, <1>4, <1>5, FailsActs DEF CabinetNext

-----------------------------------------------------------------------------
(* Every page fits.  What the handlers of the operations below write.      *)
LEMMA ContentWrites ==
  ASSUME NEW m \in Handlers
  PROVE  /\ m[1] = "edit" => m[2] \in Present /\ m[3] = "new"
         /\ m[1] = "create" => m[2] = "absent" /\ m[3] = "old"
         /\ m[1] = "reset" => m[2] \in Present /\ m[3] = "old"
         /\ m[1] = "remove" => m[2] \in Present /\ m[3] = "gone"
         /\ m[1] = "touch" => m[2] \in Present /\ m[2] = m[3]
         /\ m[1] = "notifications.readAll" => m[3] = "read"
         /\ m[1] \in {"plan.preview", "asset.intent", "payment.checkout", "payment.proof",
                      "payment.unproof"} => m[2] = m[3]
BY DEF Handlers, PlanHandlers, BatchHandlers, KycHandlers, ContractHandlers, CertificateHandlers,
       IntentHandlers, PaymentHandlers, AccountHandlers, WithdrawalHandlers, BankHandlers,
       QuestionHandlers, ListingHandlers, ContentHandlers, Moves, Keeps, Present

LEMMA IdlesWrites ==
  \A q, op : op \in {"plan.preview", "asset.intent", "payment.checkout", "payment.proof",
                     "payment.unproof", "touch"} => Idles(q, op)
BY ContentWrites DEF Idles, Writes

(* Pages without buttons.                                                  *)
LEMMA ShowingPage ==
  ASSUME NEW q, q.acts = {}, q.first \in q.filters, q.mount = << >>,
         q.row \in {"none", "fetch", "row", "both"},
         q.row \in {"fetch", "both"} => q.layer # "none",
         ~q.marks, ~q.sticky
  PROVE  PageFits(q)
BY DEF PageFits, CarefulFits

LEMMA ShowingPagesFit ==
  /\ PageFits(SecondaryMarketPage) /\ PageFits(FundIntelligencePage) /\ PageFits(AuditLogPage)
  /\ PageFits(OperationsPage) /\ PageFits(LedgerPage) /\ PageFits(DashboardPage)
  /\ PageFits(AssetsPage) /\ PageFits(InvestorsPage) /\ PageFits(ReportsPage)
  /\ PageFits(RoundsPage) /\ PageFits(DocumentsPage) /\ PageFits(SettingsPage)
  /\ PageFits(MyCertificatesPage) /\ PageFits(MyUnitsPage) /\ PageFits(TradesTab)
  /\ PageFits(Economics) /\ PageFits(AssetIntelligence) /\ PageFits(AssetScoreBadges)
  /\ PageFits(OpportunitiesPage) /\ PageFits(PortfolioPage) /\ PageFits(MyDocumentsPage)
  /\ PageFits(MyDashboardPage) /\ PageFits(IncomePage) /\ PageFits(JourneyPage)
  /\ PageFits(AnalyticsPage) /\ PageFits(PublicAssetPage) /\ PageFits(CertificateVerifyPage)
<1>1. PageFits(SecondaryMarketPage) /\ PageFits(FundIntelligencePage) /\ PageFits(OperationsPage)
  BY ShowingPage DEF SecondaryMarketPage, FundIntelligencePage, OperationsPage, AnyPage
<1>2. PageFits(AuditLogPage) /\ PageFits(LedgerPage)
  BY ShowingPage DEF AuditLogPage, LedgerPage, AnyPage, AllOr, One
<1>3. PageFits(DashboardPage) /\ PageFits(AssetsPage) /\ PageFits(InvestorsPage)
      /\ PageFits(ReportsPage) /\ PageFits(RoundsPage) /\ PageFits(DocumentsPage)
      /\ PageFits(SettingsPage)
  BY ShowingPage
  DEF DashboardPage, AssetsPage, InvestorsPage, ReportsPage, RoundsPage, DocumentsPage,
      SettingsPage, AnyPage
<1>4. PageFits(MyCertificatesPage) /\ PageFits(MyUnitsPage) /\ PageFits(TradesTab)
  BY ShowingPage DEF MyCertificatesPage, MyUnitsPage, TradesTab, AnyPage
<1>5. PageFits(Economics) /\ PageFits(CertificateVerifyPage)
  BY ShowingPage DEF Economics, CertificateVerifyPage, AnyPage, One
<1>6. PageFits(AssetIntelligence) /\ PageFits(AssetScoreBadges) /\ PageFits(OpportunitiesPage)
      /\ PageFits(PortfolioPage) /\ PageFits(MyDocumentsPage) /\ PageFits(MyDashboardPage)
  BY ShowingPage
  DEF AssetIntelligence, AssetScoreBadges, OpportunitiesPage, PortfolioPage, MyDocumentsPage,
      MyDashboardPage, AnyPage
<1>7. PageFits(IncomePage) /\ PageFits(JourneyPage) /\ PageFits(AnalyticsPage)
      /\ PageFits(PublicAssetPage)
  BY ShowingPage DEF IncomePage, JourneyPage, AnalyticsPage, PublicAssetPage, AnyPage
<1>8. QED
  BY <1>1, <1>2, <1>3, <1>4, <1>5, <1>6, <1>7

(* Pages whose buttons are all followed by a load of the list.             *)
Reloads(q, a) ==
  /\ a.op \notin {"drawer", "page"}
  /\ \/ a.held = "none" /\ a.then = LoadOnly /\ q.row # "fetch"
     \/ /\ a.held \in {"page", "own", "row"} /\ q.row # "fetch"
        /\ a.then \in {LoadThenFree, LoadAndFree, CloseLoadFree}
     \/ /\ a.held = "drawer" /\ a.at = "drawer"
        /\ a.then \in {<<{"load"}, {"close"}>>, <<{"close", "load"}>>,
                       <<{"load", "free"}, {"close"}>>}

LEMMA ReloadingActFits ==
  ASSUME NEW q, ~q.guarded, NEW a, Reloads(q, a)
  PROVE  ActFits(q, a)
<1>1. CASE a.held = "none" /\ a.then = LoadOnly /\ q.row # "fetch"
  BY <1>1, SequelLoadOnly DEF ActFits, Reloads
<1>2. CASE a.held \in {"page", "own", "row"} /\ q.row # "fetch" /\ a.then = LoadThenFree
  BY <1>2, SequelLoadThenFree DEF ActFits, Reloads, FreedBy
<1>3. CASE a.held \in {"page", "own", "row"} /\ q.row # "fetch" /\ a.then = LoadAndFree
  BY <1>3, SequelLoadAndFree DEF ActFits, Reloads, FreedBy
<1>4. CASE a.held \in {"page", "own", "row"} /\ q.row # "fetch" /\ a.then = CloseLoadFree
  BY <1>4, SequelCloseLoadFree DEF ActFits, Reloads, FreedBy
<1>5. CASE a.held = "drawer" /\ a.at = "drawer" /\ a.then = <<{"load"}, {"close"}>>
  BY <1>5, SequelLoadThenClose DEF ActFits, Reloads, FreedBy
<1>6. CASE a.held = "drawer" /\ a.at = "drawer" /\ a.then = <<{"close", "load"}>>
  BY <1>6, SequelCloseAndLoad DEF ActFits, Reloads, FreedBy
<1>7. CASE a.held = "drawer" /\ a.at = "drawer" /\ a.then = <<{"load", "free"}, {"close"}>>
  BY <1>7, SequelLoadFreeThenClose DEF ActFits, Reloads, FreedBy
<1>8. QED
  BY <1>1, <1>2, <1>3, <1>4, <1>5, <1>6, <1>7 DEF Reloads

(* What a page is whose first load is followed by nothing, and which       *)
(* neither keeps the document of its drawer nor marks what it reads.       *)
Plain(q) ==
  /\ q.first \in q.filters /\ q.mount = << >>
  /\ q.row \in {"none", "fetch", "row", "both"}
  /\ q.row \in {"fetch", "both"} => q.layer # "none"
  /\ ~q.guarded /\ ~q.marks /\ ~q.sticky

LEMMA ReloadingPage ==
  ASSUME NEW q, Plain(q), ~IsCareful(q), \A a \in q.acts : Reloads(q, a)
  PROVE  PageFits(q)
BY ReloadingActFits DEF PageFits, Plain

(* The pages of this kind, one by one.                                     *)
LEMMA PayoutExportPageFits == PageFits(PayoutExportPage)
<1>1. Plain(PayoutExportPage)
  BY DEF PayoutExportPage, AnyPage, Plain
<1>2. ASSUME NEW a \in PayoutExportPage.acts
      PROVE  Reloads(PayoutExportPage, a)
  BY DEF PayoutExportPage, AnyPage, Act, Reloads
<1>3. ~IsCareful(PayoutExportPage)
  BY DEF PayoutExportPage, AnyPage, Act, IsCareful
<1>4. QED
  BY <1>1, <1>2, <1>3, ReloadingPage

LEMMA BatchesTabFits == PageFits(BatchesTab)
<1>1. Plain(BatchesTab)
  BY DEF BatchesTab, BatchDrawer, AnyPage, AllOr, One, Plain
<1>2. ASSUME NEW a \in BatchesTab.acts
      PROVE  Reloads(BatchesTab, a)
  BY DEF BatchesTab, BatchDrawer, AnyPage, AllOr, One, Act, Reloads
<1>3. ~IsCareful(BatchesTab)
  BY DEF BatchesTab, BatchDrawer, AnyPage, AllOr, One, Act, IsCareful
<1>4. QED
  BY <1>1, <1>2, <1>3, ReloadingPage

LEMMA PaymentsPageFits == PageFits(PaymentsPage)
<1>1. Plain(PaymentsPage)
  BY DEF PaymentsPage, PaymentDrawer, AnyPage, AllOr, One, Plain
<1>2. ASSUME NEW a \in PaymentsPage.acts
      PROVE  Reloads(PaymentsPage, a)
  BY DEF PaymentsPage, PaymentDrawer, AnyPage, AllOr, One, Act, Reloads
<1>3. ~IsCareful(PaymentsPage)
  <2> DEFINE a == Act("payment.confirm", AdminActionable, "drawer", "drawer", <<{"load", "free"}, {"close"}>>)
  <2>1. a \in PaymentsPage.acts
    BY DEF PaymentsPage, PaymentDrawer, AnyPage, AllOr, One
  <2>2. a.held # "page"
    BY DEF Act
  <2>3. QED
    BY <2>1, <2>2 DEF IsCareful
<1>4. QED
  BY <1>1, <1>2, <1>3, ReloadingPage

LEMMA WithdrawalsPageFits == PageFits(WithdrawalsPage)
<1>1. Plain(WithdrawalsPage)
  BY DEF WithdrawalsPage, WithdrawalDrawer, AnyPage, AllOr, One, Plain
<1>2. ASSUME NEW a \in WithdrawalsPage.acts
      PROVE  Reloads(WithdrawalsPage, a)
  BY DEF WithdrawalsPage, WithdrawalDrawer, AnyPage, AllOr, One, Act, Reloads
<1>3. ~IsCareful(WithdrawalsPage)
  <2> DEFINE a == Act("withdrawal.paid", AllowedOn("withdrawal.paid"), "drawer", "drawer",
                      <<{"load", "free"}, {"close"}>>)
  <2>1. a \in WithdrawalsPage.acts
    BY DEF WithdrawalsPage, WithdrawalDrawer, AnyPage, AllOr, One
  <2>2. a.held # "page"
    BY DEF Act
  <2>3. QED
    BY <2>1, <2>2 DEF IsCareful
<1>4. QED
  BY <1>1, <1>2, <1>3, ReloadingPage

LEMMA CertificatesPageFits == PageFits(CertificatesPage)
<1>1. Plain(CertificatesPage)
  BY DEF CertificatesPage, CertificateDrawer, AnyPage, AllOr, One, Plain
<1>2. ASSUME NEW a \in CertificatesPage.acts
      PROVE  Reloads(CertificatesPage, a)
  BY DEF CertificatesPage, CertificateDrawer, AnyPage, AllOr, One, Act, Reloads
<1>3. ~IsCareful(CertificatesPage)
  BY DEF CertificatesPage, CertificateDrawer, AnyPage, AllOr, One, Act, IsCareful
<1>4. QED
  BY <1>1, <1>2, <1>3, ReloadingPage

LEMMA QuestionsPageFits == PageFits(QuestionsPage)
<1>1. Plain(QuestionsPage)
  BY DEF QuestionsPage, QuestionRow, AnyPage, AllOr, One, Plain
<1>2. ASSUME NEW a \in QuestionsPage.acts
      PROVE  Reloads(QuestionsPage, a)
  BY DEF QuestionsPage, QuestionRow, AnyPage, AllOr, One, Act, Reloads
<1>3. ~IsCareful(QuestionsPage)
  BY DEF QuestionsPage, QuestionRow, AnyPage, AllOr, One, Act, IsCareful
<1>4. QED
  BY <1>1, <1>2, <1>3, ReloadingPage

LEMMA QaTabFits == PageFits(QaTab)
<1>1. Plain(QaTab)
  BY DEF QaTab, QuestionRow, AnyPage, Plain
<1>2. ASSUME NEW a \in QaTab.acts
      PROVE  Reloads(QaTab, a)
  BY DEF QaTab, QuestionRow, AnyPage, Act, Reloads
<1>3. ~IsCareful(QaTab)
  BY DEF QaTab, QuestionRow, AnyPage, Act, IsCareful
<1>4. QED
  BY <1>1, <1>2, <1>3, ReloadingPage

LEMMA BankTransactionsPageFits == PageFits(BankTransactionsPage)
<1>1. Plain(BankTransactionsPage)
  BY DEF BankTransactionsPage, BankRow, BankForms, AnyPage, AllOr, One, Plain
<1>2. ASSUME NEW a \in BankTransactionsPage.acts
      PROVE  Reloads(BankTransactionsPage, a)
  BY DEF BankTransactionsPage, BankRow, BankForms, AnyPage, AllOr, One, Act, Reloads
<1>3. ~IsCareful(BankTransactionsPage)
  <2> DEFINE a == Act("bank.manual", {"absent"}, "form", "row", LoadThenFree)
  <2>1. a \in BankTransactionsPage.acts
    BY DEF BankTransactionsPage, BankRow, BankForms, AnyPage, AllOr, One
  <2>2. a.held # "page"
    BY DEF Act
  <2>3. QED
    BY <2>1, <2>2 DEF IsCareful
<1>4. QED
  BY <1>1, <1>2, <1>3, ReloadingPage

LEMMA FundingAccountsPageFits == PageFits(FundingAccountsPage)
<1>1. Plain(FundingAccountsPage)
  BY DEF FundingAccountsPage, AccountDrawer, AnyPage, Plain
<1>2. ASSUME NEW a \in FundingAccountsPage.acts
      PROVE  Reloads(FundingAccountsPage, a)
  BY DEF FundingAccountsPage, AccountDrawer, AnyPage, Act, Reloads
<1>3. ~IsCareful(FundingAccountsPage)
  BY DEF FundingAccountsPage, AccountDrawer, AnyPage, Act, IsCareful
<1>4. QED
  BY <1>1, <1>2, <1>3, ReloadingPage

LEMMA SystemHealthPageFits == PageFits(SystemHealthPage)
<1>1. Plain(SystemHealthPage)
  BY DEF SystemHealthPage, BackupsCard, ContentPage, AnyPage, Plain
<1>2. ASSUME NEW a \in SystemHealthPage.acts
      PROVE  Reloads(SystemHealthPage, a)
  BY DEF SystemHealthPage, BackupsCard, ContentPage, AnyPage, Act, Reloads
<1>3. ~IsCareful(SystemHealthPage)
  BY DEF SystemHealthPage, BackupsCard, ContentPage, AnyPage, Act, IsCareful
<1>4. QED
  BY <1>1, <1>2, <1>3, ReloadingPage

LEMMA UpdatesTabFits == PageFits(UpdatesTab)
<1>1. Plain(UpdatesTab)
  BY DEF UpdatesTab, ContentPage, AnyPage, Plain
<1>2. ASSUME NEW a \in UpdatesTab.acts
      PROVE  Reloads(UpdatesTab, a)
  BY DEF UpdatesTab, ContentPage, AnyPage, Act, Reloads
<1>3. ~IsCareful(UpdatesTab)
  BY DEF UpdatesTab, ContentPage, AnyPage, Act, IsCareful
<1>4. QED
  BY <1>1, <1>2, <1>3, ReloadingPage

LEMMA ReportsTabFits == PageFits(ReportsTab)
<1>1. Plain(ReportsTab)
  BY DEF ReportsTab, AnyPage, Plain
<1>2. ASSUME NEW a \in ReportsTab.acts
      PROVE  Reloads(ReportsTab, a)
  BY DEF ReportsTab, AnyPage, Act, Reloads
<1>3. ~IsCareful(ReportsTab)
  BY DEF ReportsTab, AnyPage, Act, IsCareful
<1>4. QED
  BY <1>1, <1>2, <1>3, ReloadingPage

LEMMA DocsTabFits == PageFits(DocsTab)
<1>1. Plain(DocsTab)
  BY DEF DocsTab, ContentPage, AnyPage, Plain
<1>2. ASSUME NEW a \in DocsTab.acts
      PROVE  Reloads(DocsTab, a)
  BY DEF DocsTab, ContentPage, AnyPage, Act, Reloads
<1>3. ~IsCareful(DocsTab)
  BY DEF DocsTab, ContentPage, AnyPage, Act, IsCareful
<1>4. QED
  BY <1>1, <1>2, <1>3, ReloadingPage

LEMMA IntelTabFits == PageFits(IntelTab)
<1>1. Plain(IntelTab)
  BY DEF IntelTab, IntelSave, ContentPage, AnyPage, Plain
<1>2. ASSUME NEW a \in IntelTab.acts
      PROVE  Reloads(IntelTab, a)
  BY DEF IntelTab, IntelSave, ContentPage, AnyPage, Act, Reloads
<1>3. ~IsCareful(IntelTab)
  <2> DEFINE a == Act("remove", Present, "row", "none", LoadOnly)
  <2>1. a \in IntelTab.acts
    BY DEF IntelTab, IntelSave, ContentPage, AnyPage
  <2>2. a.held # "page"
    BY DEF Act
  <2>3. QED
    BY <2>1, <2>2 DEF IsCareful
<1>4. QED
  BY <1>1, <1>2, <1>3, ReloadingPage

LEMMA CommunityTabFits == PageFits(CommunityTab)
<1>1. Plain(CommunityTab)
  BY DEF CommunityTab, CommunityPost, ContentPage, AnyPage, Plain
<1>2. ASSUME NEW a \in CommunityTab.acts
      PROVE  Reloads(CommunityTab, a)
  BY DEF CommunityTab, CommunityPost, ContentPage, AnyPage, Act, Reloads
<1>3. ~IsCareful(CommunityTab)
  <2> DEFINE a == Act("remove", Present, "row", "none", LoadOnly)
  <2>1. a \in CommunityTab.acts
    BY DEF CommunityTab, CommunityPost, ContentPage, AnyPage
  <2>2. a.held # "page"
    BY DEF Act
  <2>3. QED
    BY <2>1, <2>2 DEF IsCareful
<1>4. QED
  BY <1>1, <1>2, <1>3, ReloadingPage

LEMMA MyWalletPageFits == PageFits(MyWalletPage)
<1>1. Plain(MyWalletPage)
  BY DEF MyWalletPage, WithdrawalForm, AnyPage, Plain
<1>2. ASSUME NEW a \in MyWalletPage.acts
      PROVE  Reloads(MyWalletPage, a)
  BY DEF MyWalletPage, WithdrawalForm, AnyPage, Act, Reloads
<1>3. ~IsCareful(MyWalletPage)
  <2> DEFINE a == Act("withdrawal.create", {"absent"}, "form", "own", LoadAndFree)
  <2>1. a \in MyWalletPage.acts
    BY DEF MyWalletPage, WithdrawalForm, AnyPage
  <2>2. a.held # "page"
    BY DEF Act
  <2>3. QED
    BY <2>1, <2>2 DEF IsCareful
<1>4. QED
  BY <1>1, <1>2, <1>3, ReloadingPage

LEMMA MyProfilePageFits == PageFits(MyProfilePage)
<1>1. Plain(MyProfilePage)
  BY DEF MyProfilePage, ProfileForm, ProfileDocuments, AnyPage, Plain
<1>2. ASSUME NEW a \in MyProfilePage.acts
      PROVE  Reloads(MyProfilePage, a)
  BY DEF MyProfilePage, ProfileForm, ProfileDocuments, AnyPage, Act, Reloads
<1>3. ~IsCareful(MyProfilePage)
  <2> DEFINE a == Act("kyc.remove", KycEditable, "row", "none", LoadOnly)
  <2>1. a \in MyProfilePage.acts
    BY DEF MyProfilePage, ProfileForm, ProfileDocuments, AnyPage
  <2>2. a.held # "page"
    BY DEF Act
  <2>3. QED
    BY <2>1, <2>2 DEF IsCareful
<1>4. QED
  BY <1>1, <1>2, <1>3, ReloadingPage

LEMMA BrowseTabFits == PageFits(BrowseTab)
<1>1. Plain(BrowseTab)
  BY DEF BrowseTab, AnyPage, Plain
<1>2. ASSUME NEW a \in BrowseTab.acts
      PROVE  Reloads(BrowseTab, a)
  BY DEF BrowseTab, AnyPage, Act, Reloads
<1>3. ~IsCareful(BrowseTab)
  BY DEF BrowseTab, AnyPage, Act, IsCareful
<1>4. QED
  BY <1>1, <1>2, <1>3, ReloadingPage

LEMMA HoldingsTabFits == PageFits(HoldingsTab)
<1>1. Plain(HoldingsTab)
  BY DEF HoldingsTab, AnyPage, Plain
<1>2. ASSUME NEW a \in HoldingsTab.acts
      PROVE  Reloads(HoldingsTab, a)
  BY DEF HoldingsTab, AnyPage, Act, Reloads
<1>3. ~IsCareful(HoldingsTab)
  BY DEF HoldingsTab, AnyPage, Act, IsCareful
<1>4. QED
  BY <1>1, <1>2, <1>3, ReloadingPage

LEMMA ListingsTabFits == PageFits(ListingsTab)
<1>1. Plain(ListingsTab)
  BY DEF ListingsTab, AnyPage, Plain
<1>2. ASSUME NEW a \in ListingsTab.acts
      PROVE  Reloads(ListingsTab, a)
  BY DEF ListingsTab, AnyPage, Act, Reloads
<1>3. ~IsCareful(ListingsTab)
  BY DEF ListingsTab, AnyPage, Act, IsCareful
<1>4. QED
  BY <1>1, <1>2, <1>3, ReloadingPage

LEMMA BidsTabFits == PageFits(BidsTab)
<1>1. Plain(BidsTab)
  BY DEF BidsTab, AnyPage, Plain
<1>2. ASSUME NEW a \in BidsTab.acts
      PROVE  Reloads(BidsTab, a)
  BY DEF BidsTab, AnyPage, Act, Reloads
<1>3. ~IsCareful(BidsTab)
  BY DEF BidsTab, AnyPage, Act, IsCareful
<1>4. QED
  BY <1>1, <1>2, <1>3, ReloadingPage

LEMMA AssetQaTabFits == PageFits(AssetQaTab)
<1>1. Plain(AssetQaTab)
  BY DEF AssetQaTab, AnyPage, Plain
<1>2. ASSUME NEW a \in AssetQaTab.acts
      PROVE  Reloads(AssetQaTab, a)
  BY DEF AssetQaTab, AnyPage, Act, Reloads
<1>3. ~IsCareful(AssetQaTab)
  BY DEF AssetQaTab, AnyPage, Act, IsCareful
<1>4. QED
  BY <1>1, <1>2, <1>3, ReloadingPage

(* Pages that are saved in place: the answer to a button is what is shown. *)
LEMMA HandlersAccept ==
  /\ \A s \in KycActionable : /\ <<"kyc.approve", s, "approved">> \in Handlers
                              /\ <<"kyc.reject", s, "rejected">> \in Handlers
  /\ \A s \in Cancellable : <<"contract.cancel", s, "cancelled">> \in Handlers
  /\ \A s \in Signable : <<"contract.sign", s, "signed">> \in Handlers
  /\ \A s \in {"submitted", "under_review"} :
       /\ <<"intent.approve", s, "converted">> \in Handlers
       /\ <<"intent.reject", s, "rejected">> \in Handlers
  /\ \A s \in Present : /\ <<"edit", s, "new">> \in Handlers
                        /\ <<"reset", s, "old">> \in Handlers
                        /\ <<"touch", s, s>> \in Handlers
  /\ <<"create", "absent", "old">> \in Handlers
BY DEF Handlers, KycHandlers, ContractHandlers, IntentHandlers, ContentHandlers, Moves, Keeps,
       Present

LEMMA NoneIsOffered ==
  /\ "none" \notin KycActionable /\ "none" \notin Cancellable
  /\ "none" \notin Signable /\ "none" \notin Present
BY DEF KycActionable, Cancellable, Signable, Present

LEMMA AcceptsWhen ==
  ASSUME NEW q, NEW op, NEW s, NEW t \in q.states, <<op, s, t>> \in Handlers,
         op # "bank.match"
  PROVE  Accepts(q, op, s)
BY DEF Accepts, Writes, DeniedElsewhere

Saves(q, a) ==
  /\ a.held = "page" /\ a.then = PatchAndFree
  /\ \/ a.op \in {"edit", "reset"} /\ a.on = Present /\ a.at = "row"
     \/ a.op = "create" /\ a.on = {"absent"} /\ a.at = "form"

SavedInPlace(q) ==
  /\ Plain(q) /\ q.layer = "none" /\ q.row = "none"
  /\ q.filters = {Present} /\ Present \subseteq q.states

LEMMA SavingPage ==
  ASSUME NEW q, SavedInPlace(q), \A a \in q.acts : Saves(q, a)
  PROVE  PageFits(q)
<1> USE DEF SavedInPlace
<1>1. ASSUME NEW a \in q.acts
      PROVE  ActFits(q, a)
  <2>1. \A m \in Writes(q, a.op) : m[3] \in Present
    BY ContentWrites DEF Writes, Saves, Present
  <2>2. QED
    BY <2>1, SequelPatchAndFree DEF ActFits, Saves, FreedBy, Plain
<1>2. ASSUME NEW a \in q.acts
      PROVE  /\ FreesLast(a.then) /\ a.at # "drawer"
             /\ \A s \in a.on : Accepts(q, a.op, s)
             /\ a.at = "form" => Accepts(q, a.op, "absent")
  <2>1. "new" \in q.states /\ "old" \in q.states
    BY DEF Present
  <2>2. \A s \in a.on : Accepts(q, a.op, s)
    <3>1. CASE a.op = "edit"
      BY <2>1, <3>1, HandlersAccept, AcceptsWhen DEF Saves
    <3>2. CASE a.op = "reset"
      BY <2>1, <3>2, HandlersAccept, AcceptsWhen DEF Saves
    <3>3. CASE a.op = "create"
      BY <2>1, <3>3, HandlersAccept, AcceptsWhen DEF Saves
    <3>4. QED
      BY <1>2, <3>1, <3>2, <3>3 DEF Saves
  <2>3. a.at = "form" => Accepts(q, a.op, "absent")
    BY <2>2 DEF Saves
  <2>4. QED
    BY <2>2, <2>3, SequelPatchAndFree DEF Saves
<1>3. \A a \in q.acts : "none" \notin a.on
  BY NoneIsOffered DEF Saves
<1>4. QED
  BY <1>1, <1>2, <1>3 DEF PageFits, CarefulFits, Plain

LEMMA SavingPagesFit ==
  /\ PageFits(LegalSettingsPage) /\ PageFits(MediaTab) /\ PageFits(TeamTab) /\ PageFits(RisksTab)
  /\ PageFits(SpvTab) /\ PageFits(NotificationPreferences)
<1>1. PageFits(LegalSettingsPage)
  <2>1. SavedInPlace(LegalSettingsPage)
    BY DEF LegalSettingsPage, LegalForm, EditorPage, AnyPage, Plain, SavedInPlace, Present
  <2>2. \A a \in LegalSettingsPage.acts : Saves(LegalSettingsPage, a)
    BY DEF LegalSettingsPage, LegalForm, EditorPage, AnyPage, Act, Saves
  <2>3. QED
    BY <2>1, <2>2, SavingPage
<1>2. PageFits(MediaTab)
  <2>1. SavedInPlace(MediaTab)
    BY DEF MediaTab, EditorPage, AnyPage, Plain, SavedInPlace, Present
  <2>2. \A a \in MediaTab.acts : Saves(MediaTab, a)
    BY DEF MediaTab, EditorPage, AnyPage, Act, Saves
  <2>3. QED
    BY <2>1, <2>2, SavingPage
<1>3. PageFits(TeamTab)
  <2>1. SavedInPlace(TeamTab)
    BY DEF TeamTab, EditorPage, AnyPage, Plain, SavedInPlace, Present
  <2>2. \A a \in TeamTab.acts : Saves(TeamTab, a)
    BY DEF TeamTab, EditorPage, AnyPage, Act, Saves
  <2>3. QED
    BY <2>1, <2>2, SavingPage
<1>4. PageFits(RisksTab)
  <2>1. SavedInPlace(RisksTab)
    BY DEF RisksTab, EditorPage, AnyPage, Plain, SavedInPlace, Present
  <2>2. \A a \in RisksTab.acts : Saves(RisksTab, a)
    BY DEF RisksTab, EditorPage, AnyPage, Act, Saves
  <2>3. QED
    BY <2>1, <2>2, SavingPage
<1>5. PageFits(SpvTab)
  <2>1. SavedInPlace(SpvTab)
    BY DEF SpvTab, ContentPage, AnyPage, Plain, SavedInPlace, Present
  <2>2. \A a \in SpvTab.acts : Saves(SpvTab, a)
    BY DEF SpvTab, ContentPage, AnyPage, Act, Saves
  <2>3. QED
    BY <2>1, <2>2, SavingPage
<1>6. PageFits(NotificationPreferences)
  <2>1. SavedInPlace(NotificationPreferences)
    BY DEF NotificationPreferences, PreferencesMatrix, EditorPage, AnyPage, Plain, SavedInPlace, Present
  <2>2. \A a \in NotificationPreferences.acts : Saves(NotificationPreferences, a)
    BY DEF NotificationPreferences, PreferencesMatrix, EditorPage, AnyPage, Act, Saves
  <2>3. QED
    BY <2>1, <2>2, SavingPage
<1>7. QED
  BY <1>1, <1>2, <1>3, <1>4, <1>5, <1>6

(* The pages with buttons of a card that is read again, and intents.       *)
LEMMA KycQueueFits == PageFits(KycQueue)
<1> DEFINE q == KycQueue
<1>1. Plain(q) /\ q.row = "fetch" /\ q.layer = "panel" /\ {"approved", "rejected"} \subseteq q.states
  BY DEF KycQueue, AnyPage, AllOr, One, Plain
<1>2. ASSUME NEW a \in q.acts
      PROVE  /\ a.op \in {"kyc.approve", "kyc.reject"} /\ a.on = KycActionable
             /\ a.at = "drawer" /\ a.held = "page" /\ a.then = RereadLoadFree
  BY DEF KycQueue, KycCard, AnyPage, Act
<1> HIDE DEF q
<1>3. ASSUME NEW a \in q.acts
      PROVE  ActFits(q, a)
  BY <1>1, <1>2, SequelRereadLoadFree DEF ActFits, FreedBy, Plain
<1>4. \A a \in q.acts : "none" \notin a.on /\ \A s \in a.on : Accepts(q, a.op, s)
  BY <1>1, <1>2, HandlersAccept, AcceptsWhen, NoneIsOffered
<1>5. QED
  BY <1>1, <1>2, <1>3, <1>4, SequelRereadLoadFree DEF PageFits, CarefulFits, Plain, q

LEMMA ContractsRegistryFits == PageFits(ContractsRegistry)
<1> DEFINE q == ContractsRegistry
<1>1. Plain(q) /\ q.row = "fetch" /\ q.layer = "panel" /\ "cancelled" \in q.states
  BY DEF ContractsRegistry, AnyPage, AllOr, One, Plain
<1>2. ASSUME NEW a \in q.acts
      PROVE  /\ a.op = "contract.cancel" /\ a.on = Cancellable
             /\ a.at = "drawer" /\ a.held = "page" /\ a.then = RereadLoadFree
  BY DEF ContractsRegistry, ContractCard, AnyPage, Act
<1> HIDE DEF q
<1>3. ASSUME NEW a \in q.acts
      PROVE  ActFits(q, a)
  BY <1>1, <1>2, SequelRereadLoadFree DEF ActFits, FreedBy, Plain
<1>4. \A a \in q.acts : "none" \notin a.on /\ \A s \in a.on : Accepts(q, a.op, s)
  BY <1>1, <1>2, HandlersAccept, AcceptsWhen, NoneIsOffered
<1>5. QED
  BY <1>1, <1>2, <1>3, <1>4, SequelRereadLoadFree DEF PageFits, CarefulFits, Plain, q

LEMMA RegistryOverviewFits == PageFits(RegistryOverview)
<1> DEFINE q == RegistryOverview
<1>1. Plain(q) /\ q.row = "fetch" /\ q.layer = "overlay" /\ q.states = Present
  BY DEF RegistryOverview, EditorPage, AnyPage, Plain
<1>2. ASSUME NEW a \in q.acts
      PROVE  /\ a.on = Present /\ a.at = "drawer" /\ a.held = "page"
             /\ \/ a.op = "touch" /\ a.then = JustFree
                \/ a.op = "edit" /\ a.then = RereadLoadFree
  BY DEF RegistryOverview, RegistryAsset, EditorPage, AnyPage, Act
<1> HIDE DEF q
<1>3. ASSUME NEW a \in q.acts
      PROVE  ActFits(q, a)
  BY <1>1, <1>2, <1>3, SequelRereadLoadFree, SequelJustFree, IdlesWrites
  DEF ActFits, FreedBy, Plain
<1>4. \A a \in q.acts : "none" \notin a.on /\ \A s \in a.on : Accepts(q, a.op, s)
  BY <1>1, <1>2, HandlersAccept, AcceptsWhen, NoneIsOffered DEF Present
<1>5. QED
  BY <1>1, <1>2, <1>3, <1>4, SequelRereadLoadFree, SequelJustFree
  DEF PageFits, CarefulFits, Plain, q

LEMMA IntentsPageFits == PageFits(IntentsPage)
<1> DEFINE q == IntentsPage
<1>1. Plain(q) /\ q.row = "none" /\ {"converted", "rejected"} \subseteq q.states
  BY DEF IntentsPage, AnyPage, AllOr, One, Plain
<1>2. ASSUME NEW a \in q.acts
      PROVE  /\ a.op \in {"intent.approve", "intent.reject"}
             /\ a.on = {"submitted", "under_review"}
             /\ a.at = "row" /\ a.held = "page" /\ a.then = LoadThenFree
  BY DEF IntentsPage, IntentRow, AnyPage, Act
<1> HIDE DEF q
<1>3. ASSUME NEW a \in q.acts
      PROVE  ActFits(q, a)
  BY <1>1, <1>2, SequelLoadThenFree DEF ActFits, FreedBy, Plain
<1>4. \A a \in q.acts : \A s \in a.on : Accepts(q, a.op, s)
  BY <1>1, <1>2, HandlersAccept, AcceptsWhen
<1>5. QED
  BY <1>1, <1>2, <1>3, <1>4, SequelLoadThenFree DEF PageFits, CarefulFits, Plain, q

LEMMA MyContractsPageFits == PageFits(MyContractsPage)
<1> DEFINE q == MyContractsPage
           all == {"generated", "sent", "viewed", "signed", "cancelled"}
<1>1. /\ q.first = all /\ q.filters = {all} /\ q.states = all /\ q.mount = <<{"first"}>>
      /\ q.row = "fetch" /\ q.layer = "panel" /\ ~q.guarded /\ ~q.sticky
      /\ q.acts = {Act("contract.sign", Signable, "drawer", "page", LoadRereadFree)}
  BY DEF MyContractsPage, ContractSign, AnyPage
<1> HIDE DEF q
<1>2. ASSUME NEW a \in q.acts
      PROVE  /\ a.op = "contract.sign" /\ a.on = Signable
             /\ a.at = "drawer" /\ a.held = "page" /\ a.then = LoadRereadFree
  BY <1>1 DEF Act
<1>3. ASSUME NEW a \in q.acts
      PROVE  ActFits(q, a)
  BY <1>1, <1>2, SequelLoadRereadFree DEF ActFits, FreedBy
<1>4. \A a \in q.acts : "none" \notin a.on /\ \A s \in a.on : Accepts(q, a.op, s)
  BY <1>1, <1>2, HandlersAccept, AcceptsWhen, NoneIsOffered
<1>5. MarksFit(q)
  BY <1>1, <1>2, SequelLoadRereadFree DEF MarksFit, Signable
<1>6. QED
  BY <1>1, <1>2, <1>3, <1>4, <1>5, SequelLoadRereadFree DEF PageFits, CarefulFits, q

(* The pages that are left.                                                *)
LEMMA PlansTabFits == PageFits(PlansTab)
<1> DEFINE q == PlansTab
<1>1. Plain(q) /\ q.row = "none"
  BY DEF PlansTab, AnyPage, Plain
<1>2. ASSUME NEW a \in q.acts
      PROVE  Reloads(q, a) \/ (a.op = "plan.preview" /\ a.held = "none" /\ a.then = << >>)
  BY DEF PlansTab, PlanForm, PlanPreview, AnyPage, Act, Reloads
<1>3. ~IsCareful(q)
  <2> DEFINE a == Act("plan.generate", {"active"}, "row", "none", LoadOnly)
  <2>1. a \in q.acts
    BY DEF PlansTab, AnyPage
  <2>2. a.held # "page"
    BY DEF Act
  <2>3. QED
    BY <2>1, <2>2 DEF IsCareful
<1> HIDE DEF q
<1>4. ASSUME NEW a \in q.acts
      PROVE  ActFits(q, a)
  <2>1. CASE Reloads(q, a)
    BY <1>1, <2>1, ReloadingActFits DEF Plain
  <2>2. CASE a.op = "plan.preview" /\ a.held = "none" /\ a.then = << >>
    BY <1>1, <2>2, SequelNothing, IdlesWrites DEF ActFits
  <2>3. QED
    BY <1>2, <2>1, <2>2
<1>5. QED
  BY <1>1, <1>3, <1>4 DEF PageFits, Plain, q

LEMMA TemplatesManagerFits == PageFits(TemplatesManager)
<1> DEFINE q == TemplatesManager
<1>1. Plain(q) /\ q.row = "row" /\ q.layer = "form"
  BY DEF TemplatesManager, ContentPage, AnyPage, Plain
<1>2. ASSUME NEW a \in q.acts
      PROVE  /\ a.op \in {"edit", "create"} /\ a.held = "page"
             /\ a.then = <<{"patch", "load"}, {"free"}>>
  BY DEF TemplatesManager, TemplateForm, ContentPage, AnyPage, Act
<1> HIDE DEF q
<1>3. ASSUME NEW a \in q.acts
      PROVE  ActFits(q, a)
  BY <1>1, <1>2, SequelPatchLoadThenFree DEF ActFits, FreedBy, Plain
<1>4. QED
  BY <1>1, <1>3 DEF PageFits, IsCareful, Plain, q

LEMMA SopPageFits == PageFits(SopPage)
<1> DEFINE q == SopPage
           saved == Act("edit", Present, "drawer", "page", <<{"patch", "load", "free"}>>)
           reset == Act("reset", Present, "drawer", "none", <<{"patch", "load"}>>)
<1>1. /\ q.first = Present /\ q.filters = {Present} /\ q.mount = <<{"first"}>>
      /\ q.row = "fetch" /\ q.layer = "panel" /\ ~q.guarded /\ ~q.marks /\ ~q.sticky
      /\ q.acts = {saved, reset}
  BY DEF SopPage, SopEdits, EditorPage, AnyPage
<1>2. /\ saved.op = "edit" /\ saved.held = "page" /\ saved.then = <<{"patch", "load", "free"}>>
      /\ reset.op = "reset" /\ reset.held = "none" /\ reset.then = <<{"patch", "load"}>>
  BY DEF Act
<1> HIDE DEF q, saved, reset
<1>3. ActFits(q, saved)
  BY <1>1, <1>2, SequelPatchLoadFree DEF ActFits, FreedBy
<1>4. ActFits(q, reset)
  BY <1>1, <1>2, SequelPatchLoad DEF ActFits
<1>5. ~IsCareful(q)
  BY <1>1, <1>2 DEF IsCareful
<1>6. QED
  BY <1>1, <1>3, <1>4, <1>5 DEF PageFits, q

LEMMA AssetEditorFits == PageFits(AssetEditor)
<1> DEFINE q == AssetEditor
           edit == Act("edit", Present, "row", "page", PatchAndFree)
           create == Act("create", {"absent"}, "form", "page", LoadAndFree)
           remove == Act("remove", Present, "row", "none", <<{"leave"}>>)
<1>1. /\ Plain(q) /\ q.row = "none" /\ q.layer = "none" /\ q.filters = {Present}
      /\ q.acts = {edit, create, remove}
  BY DEF AssetEditor, ContentPage, AnyPage, Plain
<1>2. /\ edit.op = "edit" /\ edit.held = "page" /\ edit.then = PatchAndFree
      /\ create.op = "create" /\ create.held = "page" /\ create.then = LoadAndFree
      /\ remove.op = "remove" /\ remove.held = "none" /\ remove.then = <<{"leave"}>>
  BY DEF Act
<1> HIDE DEF q, edit, create, remove
<1>3. ActFits(q, edit)
  <2>1. \A m \in Writes(q, "edit") : m[3] \in Present
    BY ContentWrites DEF Writes, Present
  <2>2. QED
    BY <1>1, <1>2, <2>1, SequelPatchAndFree DEF ActFits, FreedBy
<1>4. ActFits(q, create)
  BY <1>1, <1>2, SequelLoadAndFree DEF ActFits, FreedBy, Plain
<1>5. ActFits(q, remove)
  <2>1. \A m \in Writes(q, "remove") : m[3] \notin Present
    BY ContentWrites DEF Writes, Present
  <2>2. QED
    BY <1>1, <1>2, <2>1, SequelLeave DEF ActFits
<1>6. ~IsCareful(q)
  BY <1>1, <1>2 DEF IsCareful
<1>7. QED
  BY <1>1, <1>3, <1>4, <1>5, <1>6 DEF PageFits, Plain, q

LEMMA MyPaymentsPageFits == PageFits(MyPaymentsPage)
<1> DEFINE q == MyPaymentsPage
           last == <<{"reread"}, {"free", "wait"}, {"close", "load"}>>
<1>1. /\ q.first \in q.filters /\ q.mount = << >> /\ q.row = "fetch" /\ q.layer = "overlay"
      /\ ~q.guarded /\ ~q.marks /\ q.sticky /\ ~q.clears
  BY DEF MyPaymentsPage, AnyPage, AllOr, One
<1>2. ASSUME NEW a \in q.acts
      PROVE  /\ a.at = "drawer"
             /\ \/ /\ a.op \in {"payment.proof", "payment.unproof"} /\ a.held = "drawer"
                   /\ a.then = <<{"reread"}, {"free"}>>
                \/ a.op = "payment.submit" /\ a.held = "drawer" /\ a.then = last
                \/ a.op = "payment.checkout" /\ a.held = "own" /\ a.then = JustFree
  BY DEF MyPaymentsPage, PaymentUpload, PaymentSubmit, AcquiringPanel, AnyPage, Act
<1>3. ~IsCareful(q)
  <2> DEFINE a == Act("payment.checkout", Submittable, "drawer", "own", JustFree)
  <2>1. a \in q.acts
    BY DEF MyPaymentsPage, AcquiringPanel, AnyPage
  <2>2. a.held # "page"
    BY DEF Act
  <2>3. QED
    BY <2>1, <2>2 DEF IsCareful
<1> HIDE DEF q
<1>4. ASSUME NEW a \in q.acts
      PROVE  ActFits(q, a) /\ ~Begins(a.then, "patch")
  <2>1. CASE /\ a.op \in {"payment.proof", "payment.unproof"} /\ a.held = "drawer"
             /\ a.then = <<{"reread"}, {"free"}>>
    BY <1>1, <1>2, <2>1, SequelRereadThenFree, IdlesWrites DEF ActFits, FreedBy
  <2>2. CASE a.op = "payment.submit" /\ a.held = "drawer" /\ a.then = last
    BY <1>1, <1>2, <2>2, SequelRereadWaitClose DEF ActFits, FreedBy
  <2>3. CASE a.op = "payment.checkout" /\ a.held = "own" /\ a.then = JustFree
    BY <1>1, <1>2, <2>3, SequelJustFree, IdlesWrites DEF ActFits, FreedBy
  <2>4. QED
    BY <1>2, <2>1, <2>2, <2>3
<1>5. QED
  BY <1>1, <1>3, <1>4 DEF PageFits, q

LEMMA AssetPageFits == PageFits(AssetPage)
<1> DEFINE q == AssetPage
           a == Act("asset.intent", {"open"}, "row", "own", JustFree)
<1>1. /\ q.first \in q.filters /\ q.mount = << >> /\ q.row = "none" /\ q.layer = "none"
      /\ ~q.marks /\ ~q.sticky /\ q.acts = {a}
  BY DEF AssetPage, AnyPage
<1>2. a.op = "asset.intent" /\ a.held = "own" /\ a.then = JustFree
  BY DEF Act
<1> HIDE DEF q, a
<1>3. ActFits(q, a)
  BY <1>1, <1>2, SequelJustFree, IdlesWrites DEF ActFits, FreedBy
<1>4. QED
  BY <1>1, <1>2, <1>3 DEF PageFits, IsCareful, q

LEMMA AssetCommunityFits == PageFits(AssetCommunity)
<1> DEFINE q == AssetCommunity
<1>1. /\ Plain(q) /\ q.row = "none" /\ q.layer = "none" /\ q.filters = {Present}
      /\ q.states = Content
  BY DEF AssetCommunity, ContentPage, AnyPage, Plain
<1>2. ASSUME NEW a \in q.acts
      PROVE  \/ a.op = "edit" /\ a.held = "none" /\ a.then = <<{"patch"}>>
             \/ a.op = "touch" /\ a.held = "none" /\ a.then = <<{"detail"}, {"load"}>>
             \/ a.op = "edit" /\ a.held = "none" /\ a.then = <<{"patch", "load"}>>
             \/ a.op = "touch" /\ a.held = "none" /\ a.then = <<{"patch"}>>
             \/ a.op = "create" /\ a.held = "page" /\ a.then = LoadAndFree
  BY DEF AssetCommunity, PostCard, PollCard, Mood, Composer, ContentPage, AnyPage, Act
<1>3. ~IsCareful(q)
  <2> DEFINE a == Act("touch", Present, "row", "none", <<{"patch"}>>)
  <2>1. a \in q.acts
    BY DEF AssetCommunity, Mood, ContentPage, AnyPage
  <2>2. a.held # "page"
    BY DEF Act
  <2>3. QED
    BY <2>1, <2>2 DEF IsCareful
<1> HIDE DEF q
<1>4. \A op \in {"edit", "touch"} : \A m \in Writes(q, op) : m[3] \in Present
  BY ContentWrites DEF Writes, Present
<1>5. ShowsAll(q)
  BY <1>1 DEF ShowsAll, Content, Present
<1>6. ASSUME NEW a \in q.acts
      PROVE  ActFits(q, a)
  <2>1. CASE a.op \in {"edit", "touch"} /\ a.held = "none" /\ a.then = <<{"patch"}>>
    BY <1>1, <1>4, <2>1, SequelPatch DEF ActFits
  <2>2. CASE a.op = "touch" /\ a.held = "none" /\ a.then = <<{"detail"}, {"load"}>>
    BY <1>1, <1>5, <2>2, SequelDetailThenLoad DEF ActFits, Plain
  <2>3. CASE a.op = "edit" /\ a.held = "none" /\ a.then = <<{"patch", "load"}>>
    BY <1>1, <1>4, <2>3, SequelPatchLoad DEF ActFits, Plain
  <2>4. CASE a.op = "create" /\ a.held = "page" /\ a.then = LoadAndFree
    BY <1>1, <2>4, SequelLoadAndFree DEF ActFits, FreedBy, Plain
  <2>5. QED
    BY <1>2, <2>1, <2>2, <2>3, <2>4
<1>7. QED
  BY <1>1, <1>3, <1>6 DEF PageFits, Plain, q

LEMMA MyNotificationsPageFits == PageFits(MyNotificationsPage)
<1> DEFINE q == MyNotificationsPage
           a == Act("notifications.readAll", {"unread"}, "row", "none", <<{"patch"}>>)
<1>1. /\ Plain(q) /\ q.row = "none" /\ q.layer = "none" /\ q.filters = {{"unread", "read"}}
      /\ q.acts = {a}
  BY DEF MyNotificationsPage, AnyPage, Plain
<1>2. a.op = "notifications.readAll" /\ a.held = "none" /\ a.then = <<{"patch"}>>
  BY DEF Act
<1> HIDE DEF q, a
<1>3. \A m \in Writes(q, "notifications.readAll") : m[3] \in {"unread", "read"}
  BY ContentWrites DEF Writes
<1>4. ActFits(q, a)
  BY <1>1, <1>2, <1>3, SequelPatch DEF ActFits
<1>5. QED
  BY <1>1, <1>2, <1>4 DEF PageFits, IsCareful, Plain, q

(* Every page the routes open fits.                                        *)
LEMMA PagesFit == \A p \in DOMAIN Pages : PageFits(Pages[p])
BY ShowingPagesFit, PayoutExportPageFits, BatchesTabFits, PaymentsPageFits, WithdrawalsPageFits,
   CertificatesPageFits, QuestionsPageFits, QaTabFits, BankTransactionsPageFits,
   FundingAccountsPageFits, SystemHealthPageFits, UpdatesTabFits, ReportsTabFits, DocsTabFits,
   IntelTabFits, CommunityTabFits, MyWalletPageFits, MyProfilePageFits, BrowseTabFits,
   HoldingsTabFits, ListingsTabFits, BidsTabFits, AssetQaTabFits, SavingPagesFit, KycQueueFits,
   ContractsRegistryFits, RegistryOverviewFits, IntentsPageFits, MyContractsPageFits,
   PlansTabFits, TemplatesManagerFits, SopPageFits, AssetEditorFits, MyPaymentsPageFits,
   AssetPageFits, AssetCommunityFits, MyNotificationsPageFits
DEF Pages

-----------------------------------------------------------------------------
(* The first state.                                                        *)
LEMMA InitActs ==
  ASSUME CabinetInit
  PROVE  /\ PageFits(P) /\ page \in DOMAIN Pages /\ calm
         /\ docs \in [Docs -> P.states] /\ filter \in P.filters
         /\ screen \in ScreenType /\ screen.card = Closed /\ screen.busy = {}
         /\ screen.loading /\ ~screen.reading
         /\ \A d \in Docs : screen.list[d] = "none"
         /\ chains \in [Chains -> ChainType \cup {Idle}]
         /\ chains[1].kind = "list" /\ chains[1].filter = filter /\ chains[1].state = "sent"
         /\ chains[1].hold = "none" /\ ChainFits(chains[1])
         /\ Running = {1}
<1> DEFINE c == Waiting("list", "none", NoDoc, "none", filter, P.mount)
<1>1. /\ page \in DOMAIN Pages /\ filter = P.first /\ calm
      /\ screen = [list |-> [d \in Docs |-> "none"], card |-> Closed, busy |-> {},
                   loading |-> TRUE, reading |-> FALSE]
      /\ chains = [k \in Chains |-> IF k = 1 THEN c ELSE Idle]
  BY DEF CabinetInit
<1>2. PageFits(P)
  BY <1>1, PagesFit DEF P
<1>3. docs \in [Docs -> P.states]
  BY DEF CabinetInit
<1>4. /\ filter \in P.filters /\ P.mount \in {<< >>, <<{"first"}>>}
      /\ P.mount # << >> => P.layer # "none" /\ ~P.sticky
  BY <1>1, <1>2 DEF PageFits
<1>5. /\ P.mount \in Seq(SUBSET Steps) /\ ThenFits(P, P.mount) /\ Quiet(P.mount)
  <2>1. CASE P.mount = << >>
    BY <2>1, NothingQuiet
  <2>2. CASE P.mount = <<{"first"}>>
    <3>1. Len(<<{"first"}>>) = 1 /\ <<{"first"}>>[1] = {"first"} /\ <<{"first"}>> # << >>
      BY SMT
    <3>2. Quiet(<<{"first"}>>)
      BY <3>1 DEF Quiet
    <3>3. QED
      BY <1>4, <2>2, <3>1, <3>2, SequelFirst
  <2>3. QED
    BY <1>4, <2>1, <2>2
<1>6. c \in ChainType /\ c.kind = "list" /\ c.filter = filter /\ c.state = "sent"
      /\ c.hold = "none" /\ c.then = P.mount /\ c.doc = NoDoc
  <2>1. "none" \in Flags /\ "list" \in Kinds
    BY DEF Flags, Kinds
  <2>2. QED
    BY <1>3, <1>4, <1>5, <2>1 DEF ChainType, Waiting
<1>7. ChainFits(c)
  BY <1>4, <1>5, <1>6 DEF ChainFits
<1> HIDE DEF c
<1>8. /\ screen \in ScreenType /\ screen.card = Closed /\ screen.busy = {}
      /\ screen.loading /\ ~screen.reading
      /\ \A d \in Docs : screen.list[d] = "none"
  BY <1>1 DEF ScreenType, CardType, Statuses
<1>9. /\ chains \in [Chains -> ChainType \cup {Idle}] /\ chains[1] = c
      /\ \A k \in Chains : k # 1 => chains[k] = Idle
  BY <1>1, <1>6
<1>10. Running = {1}
  BY <1>6, <1>9, ChainIsNotIdle DEF Running
<1>11. QED
  BY <1>1, <1>2, <1>3, <1>4, <1>6, <1>7, <1>8, <1>9, <1>10

TypesInv == PageFits(P) /\ CabinetType /\ ChainsFit

LEMMA TypesInvInit == CabinetInit => TypesInv
<1> SUFFICES ASSUME CabinetInit PROVE TypesInv
  OBVIOUS
<1>1. CabinetType
  BY InitActs DEF CabinetType
<1>2. ChainsFit
  BY InitActs DEF ChainsFit
<1>3. QED
  BY <1>1, <1>2, InitActs DEF TypesInv

LEMMA TypesInvNext == TypesInv /\ [CabinetNext]_cabinetVars => TypesInv'
<1> SUFFICES ASSUME TypesInv, [CabinetNext]_cabinetVars PROVE TypesInv'
  OBVIOUS
<1>1. PageFits(P) /\ CabinetType /\ ChainsFit
  BY DEF TypesInv
<1>2. TypesNext
  <2>1. CASE CabinetNext
    BY <1>1, <2>1, TypesNextStep
  <2>2. CASE UNCHANGED cabinetVars
    BY <1>1, <2>2 DEF cabinetVars, TypesNext, CabinetType, ChainsFit, Running
  <2>3. QED
    BY <2>1, <2>2
<1>3. CabinetType' /\ ChainsFit'
  BY <1>1, <1>2, TypesKept
<1>4. PageFits(P)'
  <2>1. P' = P
    BY <1>2 DEF TypesNext, P
  <2>2. QED
    BY <1>1, <2>1
<1>5. QED
  BY <1>3, <1>4 DEF TypesInv

LEMMA TypesInvAlways == CabinetSpec => []TypesInv
BY TypesInvInit, TypesInvNext, PTL DEF CabinetSpec

(* Whatever is lost, refused, closed or overtaken, and for any number of   *)
(* documents and of functions running at once: when the last function of   *)
(* any page has ended, no button is disabled and nothing shows as loading. *)
THEOREM NothingLeftBusyAlways == CabinetSpec => []NothingLeftBusy
<1>1. CabinetInit => FlagsInv
  <2> SUFFICES ASSUME CabinetInit PROVE FlagsInv
    OBVIOUS
  <2>1. /\ Running = {1} /\ chains[1].kind = "list" /\ chains[1].filter = filter
        /\ screen.busy = {} /\ ~screen.reading
    BY InitActs
  <2>2. QED
    BY <2>1 DEF FlagsInv, BusyHeld, LoadsShown, ReadsShown
<1>2. TypesInv /\ FlagsInv /\ [CabinetNext]_cabinetVars => FlagsInv'
  <2> SUFFICES ASSUME TypesInv, FlagsInv, [CabinetNext]_cabinetVars PROVE FlagsInv'
    OBVIOUS
  <2>1. CASE CabinetNext
    <3>1. PageFits(P) /\ CabinetType /\ ChainsFit
      BY DEF TypesInv
    <3>2. FlagsNext /\ page' = page
      BY <2>1, <3>1, FlagsNextStep, TypesNextStep DEF TypesNext
    <3>3. QED
      BY <3>2, FlagsKept
  <2>2. CASE UNCHANGED cabinetVars
    <3>1. P' = P
      BY <2>2 DEF cabinetVars, P
    <3>2. QED
      BY <2>2, <3>1
      DEF cabinetVars, FlagsInv, BusyHeld, LoadsShown, ReadsShown, Running, GivesBack
  <2>3. QED
    BY <2>1, <2>2
<1>3. FlagsInv => NothingLeftBusy
  BY DEF FlagsInv, BusyHeld, LoadsShown, ReadsShown, NothingLeftBusy
<1>4. QED
  BY TypesInvAlways, <1>1, <1>2, <1>3, PTL DEF CabinetSpec

LEMMA AnswersInvAlways == CabinetSpec => []AnswersInv
<1>1. CabinetInit => AnswersInv
  <2> SUFFICES ASSUME CabinetInit PROVE AnswersInv
    OBVIOUS
  <2>1. Running = {1} /\ chains[1].state = "sent" /\ chains[1].hold = "none"
    BY InitActs
  <2>2. QED
    BY <2>1, SentAnswerFits DEF AnswersInv, AnswersFit, DrawerHolds
<1>2. TypesInv /\ AnswersInv /\ [CabinetNext]_cabinetVars => AnswersInv'
  <2> SUFFICES ASSUME TypesInv, AnswersInv, [CabinetNext]_cabinetVars PROVE AnswersInv'
    OBVIOUS
  <2>1. CASE CabinetNext
    <3>1. AnswersNext /\ page' = page
      BY <2>1, AnswersNextStep, TypesNextStep DEF TypesInv, TypesNext
    <3>2. QED
      BY <3>1, AnswersKept
  <2>2. CASE UNCHANGED cabinetVars
    <3>1. AnswersNext /\ page' = page
      BY <2>2 DEF cabinetVars, AnswersNext, AnswersInv, AnswersFit, DrawerHolds, Running
    <3>2. QED
      BY <3>1, AnswersKept
  <2>3. QED
    BY <2>1, <2>2
<1>3. QED
  BY TypesInvAlways, <1>1, <1>2, PTL DEF CabinetSpec

(* While nothing is lost, refused, overtaken or changed by others: when no *)
(* request is out, the list of any page shows what the server has under    *)
(* the filter selected, and a drawer filled by a read what the server has  *)
(* of its document, however the chains interleaved before.                 *)
THEOREM ShownIsFreshAlways == CabinetSpec => []ShownIsFresh
<1>1. CabinetInit => FreshInv
  <2> SUFFICES ASSUME CabinetInit PROVE FreshInv
    OBVIOUS
  <2>1. Running = {1} /\ chains[1].kind = "list" /\ screen.card = Closed
    BY InitActs
  <2>2. QED
    BY <2>1 DEF FreshInv, RowsMended, CardMended, MendsRow
<1>2. TypesInv /\ AnswersInv /\ FreshInv /\ [CabinetNext]_cabinetVars => FreshInv'
  <2> SUFFICES ASSUME TypesInv, AnswersInv, FreshInv, [CabinetNext]_cabinetVars
               PROVE  FreshInv'
    OBVIOUS
  <2>1. CASE CabinetNext
    <3>1. (calm' => RowsNext /\ CardNext) /\ page' = page
      BY <2>1, FreshNextStep, TypesNextStep DEF TypesInv, TypesNext
    <3>2. QED
      BY <3>1, FreshKept
  <2>2. CASE UNCHANGED cabinetVars
    <3>1. (calm' => RowsNext /\ CardNext) /\ page' = page
      BY <2>2 DEF cabinetVars, RowsNext, CardNext, FreshInv, RowsMended, CardMended, Running
    <3>2. QED
      BY <3>1, FreshKept
  <2>3. QED
    BY <2>1, <2>2
<1>3. TypesInv /\ FreshInv => ShownIsFresh
  <2> SUFFICES ASSUME TypesInv, FreshInv, calm, Running = {}
               PROVE  /\ screen.list = Through(docs, filter)
                      /\ P.row = "fetch" /\ screen.card # Closed =>
                           screen.card.status = docs[screen.card.doc]
    BY DEF ShownIsFresh
  <2>1. \A d \in Docs : screen.list[d] = Through(docs, filter)[d]
    BY DEF FreshInv, RowsMended
  <2>2. screen.list \in [Docs -> Statuses] /\ Through(docs, filter) \in [Docs -> Statuses]
    BY ThroughType DEF TypesInv, CabinetType, ScreenType
  <2>3. screen.list = Through(docs, filter)
    BY <2>1, <2>2
  <2>4. QED
    BY <2>3 DEF FreshInv, CardMended
<1>4. QED
  BY TypesInvAlways, AnswersInvAlways, <1>1, <1>2, <1>3, PTL DEF CabinetSpec

(* On the pages whose buttons share one flag, and under the same calm: the *)
(* server refuses no button, because a button is enabled only while what   *)
(* it is offered on is what the server has.                                *)
THEOREM HeldButtonsAreAcceptedAlways == CabinetSpec => []HeldButtonsAreAccepted
<1>1. CabinetInit => HeldInv
  <2> SUFFICES ASSUME CabinetInit PROVE HeldInv
    OBVIOUS
  <2>1. /\ Running = {1} /\ chains[1].kind = "list" /\ chains[1].hold = "none"
        /\ screen.card = Closed /\ \A d \in Docs : screen.list[d] = "none"
    BY InitActs
  <2>2. QED
    BY <2>1 DEF HeldInv, FlagHeld, Holds, RowsHeld, CardHeld, OpsFit, OpFits
<1>2. TypesInv /\ AnswersInv /\ HeldInv /\ [CabinetNext]_cabinetVars => HeldInv'
  <2> SUFFICES ASSUME TypesInv, AnswersInv, HeldInv, [CabinetNext]_cabinetVars
               PROVE  HeldInv'
    OBVIOUS
  <2>1. CASE CabinetNext
    <3>1. HeldNext /\ page' = page
      BY <2>1, HeldNextStep, TypesNextStep DEF TypesInv, TypesNext
    <3>2. QED
      BY <3>1, HeldKept
  <2>2. CASE UNCHANGED cabinetVars
    <3>1. page' = page /\ P' = P
      BY <2>2 DEF cabinetVars, P
    <3>2. QED
      BY <2>2, <3>1
      DEF cabinetVars, HeldInv, FlagHeld, RowsHeld, CardHeld, OpsFit, Running
  <2>3. QED
    BY <2>1, <2>2
<1>3. HeldInv => HeldButtonsAreAccepted
  <2>1. Careful => IsCareful(P)
    BY DEF Careful, IsCareful
  <2>2. QED
    BY <2>1 DEF HeldInv, OpsFit, OpFits, HeldButtonsAreAccepted
<1>4. QED
  BY TypesInvAlways, AnswersInvAlways, <1>1, <1>2, <1>3, PTL DEF CabinetSpec
=============================================================================
