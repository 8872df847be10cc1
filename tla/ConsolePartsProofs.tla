--------------------------- MODULE ConsolePartsProofs ---------------------------
(***************************************************************************)
(* What is proved of the parts of the console, each by itself, with the    *)
(* lemmas on sequences and sets that EventsProofs has.                     *)
(***************************************************************************)
EXTENDS Ajax, SammyContext, Callbacks, EventsProofs

-------------------------------------------------------------------------------
(* Requests: any number of them, with any options. *)

CallPlaces == {"ajaxStart", "beforeSend", "ajaxSend", "send"}
DonePlaces == {"settle", "ajaxSuccess", "complete", "ajaxComplete", "ajaxStop"}
Frames == [r : Request, at : CallPlaces \cup DonePlaces, ok : BOOLEAN]

OneWord == {<<"success">>, <<"error">>}

Said == {<<>>} \cup OneWord \cup Verdicts

Xhr == [state : 0..2, called : BOOLEAN, transport : BOOLEAN, timer : BOOLEAN,
        fireGlobals : BOOLEAN, installed : BOOLEAN, settled : BOOLEAN,
        completed : BOOLEAN, window : BOOLEAN, container : BOOLEAN]

Wires == {"idle", "open", "dropped", "over"}

(***************************************************************************)
(* A frame of `ajax' is of a request that is not over, unless beforeSend   *)
(* has aborted it; one of `done' has told as much as its place says.       *)
(***************************************************************************)
Fits(at, x, said) ==
    /\ x.called
    /\ at \in CallPlaces \ {"beforeSend"} => x.state # 2
    /\ at \in {"ajaxStart", "beforeSend"} => ~x.installed
    /\ at \in DonePlaces => x.state = 2
    /\ at = "settle" => said = <<>> /\ ~x.settled /\ ~x.completed
    /\ at \in {"ajaxSuccess", "complete"} =>
          /\ ~x.window /\ ~x.completed
          /\ said \in (IF x.installed THEN OneWord ELSE {<<>>})
    /\ at \in {"ajaxComplete", "ajaxStop"} => ~x.window /\ (x.installed => said \in Verdicts)
    /\ at \in {"ajaxSuccess", "ajaxComplete"} => x.fireGlobals

FrameFits(f) == Fits(f.at, xhr[f.r], heard[f.r])

FramesFit == \A i \in DOMAIN frames : FrameFits(frames[i])

(***************************************************************************)
(* A request has one frame, or one of `done' over one of beforeSend.       *)
(***************************************************************************)
OneFrameEach ==
    \A i, j \in DOMAIN frames :
        i < j /\ frames[i].r = frames[j].r =>
            frames[i].at = "beforeSend" /\ frames[j].at \in DonePlaces

BeingDone(r) == \E i \in DOMAIN frames : frames[i].r = r /\ frames[i].at \in DonePlaces

(***************************************************************************)
(* A request that was not called is new, and one that is not over has told *)
(* nothing; one that is over and done with has told all, unless something  *)
(* has thrown.                                                             *)
(***************************************************************************)
Begun(x, on) ==
    /\ ~x.called => x = New
    /\ x.timer \/ on # "idle" => x.called

Silent(x, said) == said = <<>> /\ ~x.settled /\ ~x.completed

ToldAll(x, said) == ~x.window /\ (x.installed => said \in Verdicts)

RequestFits(r) ==
    /\ Begun(xhr[r], wire[r])
    /\ xhr[r].state # 2 => Silent(xhr[r], heard[r])
    /\ ~broken /\ xhr[r].state = 2 /\ ~BeingDone(r) => ToldAll(xhr[r], heard[r])

(***************************************************************************)
(* What `active' has still to come down for.                               *)
(***************************************************************************)
Owing ==
    {r \in Request :
        /\ xhr[r].fireGlobals
        /\ \/ xhr[r].state # 2
           \/ \E i \in DOMAIN frames :
                 frames[i].r = r /\ frames[i].at \in DonePlaces \ {"ajaxStop"}}

ActiveIsOwed == IsFiniteSet(Owing) /\ (~broken => active = Cardinality(Owing))

AjaxInv ==
    /\ AjaxTypeOK
    /\ heard \in [Request -> Said]
    /\ frames \in Seq(Frames)
    /\ FramesFit
    /\ OneFrameEach
    /\ \A r \in Request : RequestFits(r)
    /\ ActiveIsOwed

(***************************************************************************)
(* A step that is about one request r: of the stack its top may go, if it  *)
(* is of r, and a frame of r may come; nothing else of another request     *)
(* changes.                                                                *)
(***************************************************************************)
About(r, n) ==
    /\ n \in Nat /\ n \in {Len(frames), Len(frames) - 1}
    /\ n < Len(frames) => frames[Len(frames)].r = r
    /\ frames' \in Seq(Frames)
    /\ Len(frames') \in {n, n + 1}
    /\ \A i \in 1..n : frames'[i] = frames[i]
    /\ Len(frames') = n + 1 => frames'[n + 1].r = r
    /\ \A q \in Request \ {r} :
          xhr'[q] = xhr[q] /\ heard'[q] = heard[q] /\ wire'[q] = wire[q]
    /\ broken' = broken

LEMMA AboutOthers ==
    ASSUME AjaxInv, NEW r \in Request, NEW n, About(r, n), NEW q \in Request \ {r}
    PROVE  /\ \A i \in DOMAIN frames' :
                 frames'[i].r = q => i \in DOMAIN frames /\ frames'[i] = frames[i]
           /\ \A i \in DOMAIN frames :
                 frames[i].r = q => i \in DOMAIN frames' /\ frames'[i] = frames[i]
<1>1. frames \in Seq(Frames)
  BY DEF AjaxInv
<1>2. DOMAIN frames = 1..Len(frames) /\ DOMAIN frames' = 1..Len(frames')
  BY <1>1 DEF About
<1>3. Len(frames) \in Nat /\ Len(frames') \in Nat
  BY <1>1 DEF About
<1>4. /\ n \in Nat /\ n \in {Len(frames), Len(frames) - 1}
      /\ n < Len(frames) => frames[Len(frames)].r = r
      /\ Len(frames') \in {n, n + 1}
      /\ \A i \in 1..n : frames'[i] = frames[i]
      /\ Len(frames') = n + 1 => frames'[n + 1].r = r
  BY DEF About
<1>5. ASSUME NEW i \in 1..Len(frames'), frames'[i].r # r
      PROVE  i \in 1..Len(frames) /\ frames'[i] = frames[i]
  BY <1>3, <1>4, <1>5
<1>6. ASSUME NEW i \in 1..Len(frames), frames[i].r # r
      PROVE  i \in 1..Len(frames') /\ frames'[i] = frames[i]
  BY <1>3, <1>4, <1>6
<1>. QED BY <1>2, <1>5, <1>6

LEMMA AboutFrames ==
    ASSUME AjaxInv, NEW r \in Request, NEW n, About(r, n),
           \A i \in DOMAIN frames' : frames'[i].r = r => FrameFits(frames[i])'
    PROVE  FramesFit'
<1>1. SUFFICES ASSUME NEW i \in DOMAIN frames', frames'[i].r # r
               PROVE  FrameFits(frames[i])'
  BY DEF FramesFit
<1>2. frames'[i].r \in Request
  <2>1. frames'[i] \in Frames
    BY DEF About
  <2>. QED BY <2>1 DEF Frames
<1>3. i \in DOMAIN frames /\ frames'[i] = frames[i]
  BY <1>1, <1>2, AboutOthers
<1>4. FrameFits(frames[i])
  BY <1>3 DEF AjaxInv, FramesFit
<1>. QED BY <1>1, <1>2, <1>3, <1>4 DEF FrameFits, About

LEMMA AboutPairs ==
    ASSUME AjaxInv, NEW r \in Request, NEW n, About(r, n),
           Len(frames') = n + 1 =>
              \A i \in 1..n : frames[i].r = r =>
                  frames[i].at = "beforeSend" /\ frames'[n + 1].at \in DonePlaces
    PROVE  OneFrameEach'
<1>1. SUFFICES ASSUME NEW i \in DOMAIN frames', NEW j \in DOMAIN frames',
                      i < j, frames'[i].r = frames'[j].r
               PROVE  frames'[i].at = "beforeSend" /\ frames'[j].at \in DonePlaces
  BY DEF OneFrameEach
<1>2. frames \in Seq(Frames) /\ frames' \in Seq(Frames)
  BY DEF AjaxInv, About
<1>3. i \in 1..n /\ frames'[i] = frames[i]
  BY <1>1, <1>2 DEF About
<1>4. CASE j \in 1..n
  BY <1>1, <1>2, <1>3, <1>4 DEF About, AjaxInv, OneFrameEach
<1>5. CASE j = n + 1
  BY <1>1, <1>2, <1>3, <1>5 DEF About
<1>. QED BY <1>1, <1>2, <1>4, <1>5 DEF About

LEMMA AboutRequests ==
    ASSUME AjaxInv, NEW r \in Request, NEW n, About(r, n), RequestFits(r)'
    PROVE  \A q \in Request : RequestFits(q)'
<1>1. SUFFICES ASSUME NEW q \in Request \ {r} PROVE RequestFits(q)'
  OBVIOUS
<1>2. BeingDone(q)' <=> BeingDone(q)
  BY AboutOthers DEF BeingDone
<1>3. RequestFits(q)
  BY DEF AjaxInv
<1>. QED BY <1>2, <1>3 DEF RequestFits, About

(***************************************************************************)
(* active goes with what is owed.                                          *)
(***************************************************************************)
LEMMA AboutOwing ==
    ASSUME AjaxInv, NEW r \in Request, NEW n, About(r, n), active' \in Int,
           \/ active' = active /\ (r \in Owing' <=> r \in Owing)
           \/ active' = active + 1 /\ r \in Owing' /\ r \notin Owing
           \/ active' = active - 1 /\ r \notin Owing' /\ r \in Owing
    PROVE  ActiveIsOwed'
<1>1. ASSUME NEW q \in Request \ {r} PROVE q \in Owing' <=> q \in Owing
  <2>1. xhr'[q] = xhr[q]
    BY DEF About
  <2>2. (\E i \in DOMAIN frames' :
            frames'[i].r = q /\ frames'[i].at \in DonePlaces \ {"ajaxStop"})
        <=> (\E i \in DOMAIN frames :
                frames[i].r = q /\ frames[i].at \in DonePlaces \ {"ajaxStop"})
    BY AboutOthers
  <2>. QED BY <2>1, <2>2 DEF Owing
<1>2. Owing \subseteq Request /\ Owing' \subseteq Request
  BY DEF Owing
<1>3. IsFiniteSet(Owing) /\ (~broken => active = Cardinality(Owing)) /\ active \in Int
  BY DEF AjaxInv, ActiveIsOwed, AjaxTypeOK
<1>4. Cardinality(Owing) \in Nat
  BY <1>3, FS_CardinalityType
<1>5. CASE active' = active /\ (r \in Owing' <=> r \in Owing)
  <2>1. Owing' = Owing
    BY <1>1, <1>2, <1>5
  <2>. QED BY <1>3, <1>5, <2>1 DEF ActiveIsOwed, About
<1>6. CASE active' = active + 1 /\ r \in Owing' /\ r \notin Owing
  <2>1. Owing' = Owing \cup {r}
    BY <1>1, <1>2, <1>6
  <2>2. IsFiniteSet(Owing') /\ Cardinality(Owing') = Cardinality(Owing) + 1
    BY <1>3, <1>6, <2>1, FS_AddElement
  <2>. QED BY <1>3, <1>6, <2>2 DEF ActiveIsOwed, About
<1>7. CASE active' = active - 1 /\ r \notin Owing' /\ r \in Owing
  <2>1. Owing' = Owing \ {r}
    BY <1>1, <1>2, <1>7
  <2>2. IsFiniteSet(Owing') /\ Cardinality(Owing') = Cardinality(Owing) - 1
    BY <1>3, <1>7, <2>1, FS_RemoveElement
  <2>. QED BY <1>3, <1>4, <1>7, <2>2 DEF ActiveIsOwed, About
<1>. QED BY <1>5, <1>6, <1>7

LEMMA RequestStep ==
    ASSUME AjaxInv, NEW r \in Request, NEW n, About(r, n),
           options' = options, xhr' \in [Request -> Xhr], heard' \in [Request -> Said],
           wire' \in [Request -> Wires], active' \in Int,
           \A i \in DOMAIN frames' :
               frames'[i].r = r => Fits(frames'[i].at, xhr'[r], heard'[r]),
           Len(frames') = n + 1 =>
              \A i \in 1..n : frames[i].r = r =>
                  frames[i].at = "beforeSend" /\ frames'[n + 1].at \in DonePlaces,
           RequestFits(r)',
           \/ active' = active /\ (r \in Owing' <=> r \in Owing)
           \/ active' = active + 1 /\ r \in Owing' /\ r \notin Owing
           \/ active' = active - 1 /\ r \notin Owing' /\ r \in Owing
    PROVE  AjaxInv'
<1>1. frames' \in Seq(Frames)
  BY DEF About
<1>2. FramesFit'
  <2>1. \A i \in DOMAIN frames' : frames'[i].r = r => FrameFits(frames[i])'
    BY DEF FrameFits
  <2>. QED BY <2>1, AboutFrames
<1>3. OneFrameEach'
  BY AboutPairs
<1>4. \A q \in Request : RequestFits(q)'
  BY AboutRequests
<1>5. ActiveIsOwed'
  BY AboutOwing
<1>6. AjaxTypeOK'
  <2>1. \A i \in DOMAIN frames' : frames'[i].r \in Request
    <3>1. \A i \in DOMAIN frames' : frames'[i] \in Frames
      BY <1>1
    <3>. QED BY <3>1 DEF Frames
  <2>. QED BY <2>1 DEF AjaxInv, AjaxTypeOK, Xhr, Wires
<1>. QED BY <1>1, <1>2, <1>3, <1>4, <1>5, <1>6 DEF AjaxInv

LEMMA TopOfStack ==
    ASSUME AjaxInv, frames # <<>>
    PROVE  /\ Len(frames) \in Nat \ {0}
           /\ Innermost \in Frames /\ Innermost.r \in Request
           /\ Fits(Innermost.at, xhr[Innermost.r], heard[Innermost.r])
           /\ \A i \in 1..(Len(frames) - 1) :
                 frames[i].r = Innermost.r =>
                     frames[i].at = "beforeSend" /\ Innermost.at \in DonePlaces
<1>1. frames \in Seq(Frames) /\ Len(frames) \in Nat \ {0} /\ DOMAIN frames = 1..Len(frames)
  BY DEF AjaxInv
<1>2. Innermost \in Frames
  BY <1>1 DEF Innermost
<1>3. Innermost.r \in Request
  BY <1>2 DEF Frames
<1>4. FrameFits(Innermost)
  BY <1>1 DEF AjaxInv, FramesFit, Innermost
<1>5. ASSUME NEW i \in 1..(Len(frames) - 1), frames[i].r = Innermost.r
      PROVE  frames[i].at = "beforeSend" /\ Innermost.at \in DonePlaces
  <2>1. i < Len(frames) /\ i \in DOMAIN frames /\ Len(frames) \in DOMAIN frames
    BY <1>1
  <2>. QED BY <2>1, <1>5 DEF AjaxInv, OneFrameEach, Innermost
<1>. QED BY <1>1, <1>2, <1>3, <1>4, <1>5 DEF FrameFits

LEMMA FrameTyped ==
    ASSUME NEW r \in Request, NEW at \in CallPlaces \cup DonePlaces, NEW ok \in BOOLEAN
    PROVE  /\ Frame(r, at, ok) \in Frames
           /\ Frame(r, at, ok).r = r /\ Frame(r, at, ok).at = at /\ Frame(r, at, ok).ok = ok
BY DEF Frame, Frames

(***************************************************************************)
(* A frame comes on top, or takes the place of the top; the top goes.      *)
(***************************************************************************)
Comes(f, n) ==
    \/ n = Len(frames) /\ frames' = Append(frames, f)
    \/ /\ frames # <<>> /\ Innermost.r = f.r
       /\ n = Len(frames) - 1 /\ frames' = Append(Front(frames), f)

LEMMA LastReplaced ==
    ASSUME NEW S, NEW s \in Seq(S), NEW n \in Nat, Len(s) = n + 1, NEW x \in S
    PROVE  [s EXCEPT ![n + 1] = x] = Append(Front(s), x)
<1>1. /\ Front(s) \in Seq(S) /\ Len(Front(s)) = n
      /\ \A i \in 1..n : Front(s)[i] = s[i]
  BY FrontOf
<1>2. /\ Append(Front(s), x) \in Seq(S) /\ Len(Append(Front(s), x)) = n + 1
      /\ [s EXCEPT ![n + 1] = x] \in Seq(S) /\ Len([s EXCEPT ![n + 1] = x]) = n + 1
  BY <1>1
<1>3. ASSUME NEW i \in 1..(n + 1) PROVE [s EXCEPT ![n + 1] = x][i] = Append(Front(s), x)[i]
  BY <1>1
<1>. QED BY <1>2, <1>3, SeqEqual

LEMMA Depth ==
    ASSUME AjaxInv, frames # <<>>
    PROVE  \E n \in Nat : Len(frames) = n + 1 /\ Len(frames) - 1 = n
<1>1. frames \in Seq(Frames)
  BY DEF AjaxInv
<1>2. Len(frames) \in Nat /\ Len(frames) # 0
  BY <1>1
<1>3. Len(frames) - 1 \in Nat /\ Len(frames) = (Len(frames) - 1) + 1
  BY <1>2
<1>. QED BY <1>3

LEMMA FrontIs ==
    ASSUME AjaxInv, frames # <<>>
    PROVE  /\ Front(frames) \in Seq(Frames) /\ Len(Front(frames)) = Len(frames) - 1
           /\ \A i \in 1..(Len(frames) - 1) : Front(frames)[i] = frames[i]
<1>1. PICK n \in Nat : Len(frames) = n + 1 /\ Len(frames) - 1 = n
  BY Depth
<1>2. frames \in Seq(Frames)
  BY DEF AjaxInv
<1>. QED BY <1>1, <1>2, FrontOf

LEMMA MoveReplaces ==
    ASSUME AjaxInv, frames # <<>>, NEW place \in CallPlaces \cup DonePlaces
    PROVE  /\ Moves(place) = Append(Front(frames), Frame(Innermost.r, place, Innermost.ok))
           /\ Innermost.ok \in BOOLEAN
<1>1. frames \in Seq(Frames) /\ Len(frames) \in Nat \ {0}
  BY DEF AjaxInv
<1>2. Innermost \in Frames /\ Innermost = frames[Len(frames)]
  BY <1>1 DEF Innermost
<1>3. Innermost.ok \in BOOLEAN /\ Innermost.r \in Request
  BY <1>2 DEF Frames
<1>4. [Innermost EXCEPT !.at = place] = Frame(Innermost.r, place, Innermost.ok)
  BY <1>2 DEF Frames, Frame
<1>5. Moves(place) = [frames EXCEPT ![Len(frames)] = Frame(Innermost.r, place, Innermost.ok)]
  BY <1>2, <1>4 DEF Moves
<1>6. Frame(Innermost.r, place, Innermost.ok) \in Frames
  BY <1>3, FrameTyped
<1>7. PICK n \in Nat : Len(frames) = n + 1 /\ Len(frames) - 1 = n
  BY Depth
<1>8. ASSUME NEW f \in Frames PROVE [frames EXCEPT ![n + 1] = f] = Append(Front(frames), f)
  BY <1>1, <1>7, LastReplaced
<1>. QED BY <1>3, <1>5, <1>6, <1>7, <1>8

LEMMA ComesOnTop ==
    ASSUME AjaxInv, NEW f \in Frames, NEW n, Comes(f, n)
    PROVE  /\ n \in Nat /\ n \in {Len(frames), Len(frames) - 1}
           /\ n < Len(frames) => frames[Len(frames)].r = f.r
           /\ frames' \in Seq(Frames) /\ Len(frames') = n + 1
           /\ DOMAIN frames' = 1..(n + 1)
           /\ \A i \in 1..n : frames'[i] = frames[i]
           /\ frames'[n + 1] = f
<1>1. frames \in Seq(Frames) /\ Len(frames) \in Nat
  BY DEF AjaxInv
<1>2. CASE n = Len(frames) /\ frames' = Append(frames, f)
  BY <1>1, <1>2
<1>3. CASE /\ frames # <<>> /\ Innermost.r = f.r
           /\ n = Len(frames) - 1 /\ frames' = Append(Front(frames), f)
  <2>1. Len(frames) # 0
    BY <1>1, <1>3
  <2>. QED BY <1>1, <1>3, <2>1, FrontIs DEF Innermost
<1>. QED BY <1>2, <1>3 DEF Comes

(***************************************************************************)
(* Only r changes, and it keeps what `done' does not decide.               *)
(***************************************************************************)
Only(r) ==
    /\ \A q \in Request \ {r} :
          xhr'[q] = xhr[q] /\ heard'[q] = heard[q] /\ wire'[q] = wire[q]
    /\ xhr' \in [Request -> Xhr] /\ wire' \in [Request -> Wires]
    /\ UNCHANGED <<options, broken>>

Same(r) ==
    /\ xhr'[r].called = xhr[r].called
    /\ xhr'[r].state = xhr[r].state
    /\ xhr'[r].fireGlobals = xhr[r].fireGlobals
    /\ xhr'[r].installed = xhr[r].installed

LEMMA Typed ==
    ASSUME AjaxInv, NEW r \in Request
    PROVE  /\ options \in [Request -> Options] /\ options[r] \in Options
           /\ xhr \in [Request -> Xhr] /\ xhr[r] \in Xhr
           /\ heard \in [Request -> Said] /\ wire \in [Request -> Wires]
           /\ wire[r] \in Wires /\ active \in Int
           /\ RequestFits(r)
BY DEF AjaxInv, AjaxTypeOK, Xhr, Wires

(***************************************************************************)
(* done() begins: it is the first time for r.                              *)
(***************************************************************************)
LEMMA Settles ==
    ASSUME AjaxInv, NEW r \in Request, NEW ok \in BOOLEAN, NEW n,
           Comes(Frame(r, "settle", ok), n), Only(r), heard' = heard, active' = active,
           xhr[r].called, xhr[r].state # 2,
           \A i \in 1..n : frames[i].r = r =>
               frames[i].at = "beforeSend" /\ ~xhr'[r].installed,
           xhr'[r].called, xhr'[r].state = 2,
           xhr'[r].settled = xhr[r].settled, xhr'[r].completed = xhr[r].completed,
           xhr'[r].fireGlobals = xhr[r].fireGlobals
    PROVE  AjaxInv'
<1>. DEFINE f == Frame(r, "settle", ok)
<1>1. f \in Frames /\ f.r = r /\ f.at = "settle"
  BY FrameTyped DEF DonePlaces
<1>2. /\ n \in Nat /\ n \in {Len(frames), Len(frames) - 1}
      /\ n < Len(frames) => frames[Len(frames)].r = r
      /\ frames' \in Seq(Frames) /\ Len(frames') = n + 1
      /\ DOMAIN frames' = 1..(n + 1)
      /\ \A i \in 1..n : frames'[i] = frames[i]
      /\ frames'[n + 1] = f
  BY <1>1, ComesOnTop
<1>. HIDE DEF f
<1>3. About(r, n)
  BY <1>1, <1>2 DEF About, Only
<1>4. Silent(xhr[r], heard[r])
  BY Typed DEF RequestFits
<1>5. Fits("settle", xhr'[r], heard'[r])
  BY <1>4 DEF Fits, Silent, DonePlaces, CallPlaces
<1>6. ASSUME NEW i \in DOMAIN frames', frames'[i].r = r
      PROVE  Fits(frames'[i].at, xhr'[r], heard'[r])
  <2>1. CASE i = n + 1
    BY <1>1, <1>2, <1>5, <2>1
  <2>2. CASE i \in 1..n
    <3>1. frames'[i].at = "beforeSend" /\ ~xhr'[r].installed
      BY <1>2, <1>6, <2>2
    <3>. QED BY <3>1 DEF Fits, DonePlaces, CallPlaces
  <2>. QED BY <1>2, <2>1, <2>2
<1>7. RequestFits(r)'
  <2>1. BeingDone(r)'
    BY <1>1, <1>2 DEF BeingDone, DonePlaces
  <2>2. Begun(xhr'[r], wire'[r])
    BY DEF Begun
  <2>. QED BY <2>1, <2>2 DEF RequestFits
<1>8. r \in Owing' <=> r \in Owing
  <2>1. \E i \in DOMAIN frames' :
            frames'[i].r = r /\ frames'[i].at \in DonePlaces \ {"ajaxStop"}
    BY <1>1, <1>2 DEF DonePlaces
  <2>. QED BY <2>1 DEF Owing
<1>9. \A i \in 1..n : frames[i].r = r =>
          frames[i].at = "beforeSend" /\ frames'[n + 1].at \in DonePlaces
  BY <1>1, <1>2 DEF DonePlaces
<1>. QED BY <1>2, <1>3, <1>6, <1>7, <1>8, <1>9, RequestStep, Typed DEF Only

(***************************************************************************)
(* done() of the environment and of abort.                                 *)
(***************************************************************************)
LEMMA NotTheNext ==
    ASSUME NEW n \in Nat, NEW m, m = n
    PROVE  m # n + 1 /\ ~(n < m) /\ n \in {m, m - 1}
OBVIOUS

LEMMA NothingOnTop ==
    ASSUME AjaxInv, NEW r \in Request, frames' = frames, Only(r), heard' = heard,
           active' = active, Same(r),
           xhr'[r].settled = xhr[r].settled, xhr'[r].completed = xhr[r].completed,
           xhr'[r].window = xhr[r].window, Begun(xhr'[r], wire'[r])
    PROVE  AjaxInv'
<1>1. frames \in Seq(Frames) /\ Len(frames) \in Nat /\ DOMAIN frames = 1..Len(frames)
  BY DEF AjaxInv
<1>n. PICK n \in Nat : n = Len(frames)
  BY <1>1
<1>2. About(r, n)
  <2>1. frames' \in Seq(Frames) /\ Len(frames') = n
    BY <1>1, <1>n
  <2>2. n \in {Len(frames), Len(frames) - 1} /\ ~(n < Len(frames)) /\ Len(frames') # n + 1
    BY <1>n, <2>1, NotTheNext
  <2>3. Len(frames') \in {n, n + 1} /\ \A i \in 1..n : frames'[i] = frames[i]
    BY <2>1
  <2>. QED BY <2>1, <2>2, <2>3 DEF About, Only
<1>3. ASSUME NEW i \in DOMAIN frames', frames'[i].r = r
      PROVE  Fits(frames'[i].at, xhr'[r], heard'[r])
  <2>1. FrameFits(frames[i])
    BY <1>3 DEF AjaxInv, FramesFit
  <2>. QED BY <1>3, <2>1 DEF FrameFits, Fits, Same
<1>4. RequestFits(r)'
  <2>1. BeingDone(r)' <=> BeingDone(r)
    BY DEF BeingDone
  <2>. QED BY <2>1, Typed DEF RequestFits, Silent, ToldAll, Same, Only
<1>5. r \in Owing' <=> r \in Owing
  BY DEF Owing, Same
<1>6. Len(frames') # n + 1
  BY <1>n, NotTheNext
<1>. QED BY <1>2, <1>3, <1>4, <1>5, <1>6, RequestStep, Typed DEF Only

LEMMA OverIs ==
    ASSUME NEW x \in Xhr
    PROVE  /\ Over(x) \in Xhr /\ Over(x).state = 2
           /\ Over(x).called = x.called /\ Over(x).fireGlobals = x.fireGlobals
           /\ Over(x).installed = x.installed /\ Over(x).window = x.window
           /\ Over(x).settled = x.settled /\ Over(x).completed = x.completed
<1>1. Over(x) = [x EXCEPT !.state = 2, !.timer = FALSE, !.transport = FALSE]
  BY DEF Over
<1>2. Over(x) \in Xhr
  BY <1>1, 2 \in 0..2 DEF Xhr
<1>3. Over(x).state = 2 /\ Over(x).called = x.called /\ Over(x).fireGlobals = x.fireGlobals
  BY <1>1 DEF Xhr
<1>4. Over(x).installed = x.installed /\ Over(x).window = x.window
  BY <1>1 DEF Xhr
<1>5. Over(x).settled = x.settled /\ Over(x).completed = x.completed
  BY <1>1 DEF Xhr
<1>. QED BY <1>2, <1>3, <1>4, <1>5

LEMMA DoneBegins ==
    ASSUME AjaxInv, NEW r \in Request, NEW ok \in BOOLEAN, Done(r, ok, frames),
           xhr[r].called, \A i \in DOMAIN frames : frames[i].r = r => frames[i].at \in AbortPoints,
           wire' \in [Request -> Wires], \A q \in Request \ {r} : wire'[q] = wire[q],
           UNCHANGED <<options, active, heard, broken>>
    PROVE  AjaxInv'
<1>1. CASE xhr[r].state = 2
  <2>1. frames' = frames /\ xhr' = xhr
    BY <1>1 DEF Done
  <2>2. Only(r) /\ Same(r) /\ Begun(xhr'[r], wire'[r])
    BY <2>1, Typed DEF Only, Same, Begun
  <2>. QED BY <2>1, <2>2, NothingOnTop
<1>2. CASE xhr[r].state # 2
  <2>1. xhr' = [xhr EXCEPT ![r] = Over(@)] /\ frames' = Append(frames, Frame(r, "settle", ok))
    BY <1>2 DEF Done
  <2>2. Over(xhr[r]) \in Xhr
    BY Typed, OverIs
  <2>3. Only(r) /\ xhr'[r] = Over(xhr[r])
    BY <2>1, <2>2, Typed DEF Only
  <2>4. Comes(Frame(r, "settle", ok), Len(frames))
    BY <2>1 DEF Comes
  <2>5. ASSUME NEW i \in 1..Len(frames), frames[i].r = r
        PROVE  frames[i].at = "beforeSend" /\ ~xhr'[r].installed
    <3>1. i \in DOMAIN frames
      BY DEF AjaxInv
    <3>2. FrameFits(frames[i]) /\ frames[i] \in Frames
      BY <3>1 DEF AjaxInv, FramesFit
    <3>3. frames[i].at \in CallPlaces
      BY <1>2, <2>5, <3>2 DEF FrameFits, Fits, Frames
    <3>4. frames[i].at = "beforeSend"
      BY <2>5, <3>1, <3>3, AjaxAssumption DEF CallPlaces
    <3>. QED BY <2>3, <2>5, <3>2, <3>4, Typed, OverIs DEF FrameFits, Fits
  <2>. QED BY <1>2, <2>3, <2>4, <2>5, Typed, OverIs, Settles
<1>. QED BY <1>1, <1>2

LEMMA DroppedIs ==
    ASSUME AjaxInv, NEW r \in Request
    PROVE  /\ Dropped(r) \in [Request -> Wires]
           /\ \A q \in Request \ {r} : Dropped(r)[q] = wire[q]
BY Typed DEF Dropped, Wires

LEMMA AbortStep ==
    ASSUME AjaxInv, NEW r \in Request, Abort(r) PROVE AjaxInv'
<1>1. /\ Done(r, FALSE, frames) /\ xhr[r].called /\ wire' = Dropped(r)
      /\ UNCHANGED <<options, active, heard, broken>>
      /\ \A i \in DOMAIN frames : frames[i].r = r => frames[i].at \in AbortPoints
  BY DEF Abort
<1>. QED BY <1>1, DroppedIs, DoneBegins

LEMMA TimeoutStep ==
    ASSUME AjaxInv, NEW r \in Request, Timeout(r) PROVE AjaxInv'
<1>1. /\ Done(r, FALSE, frames) /\ xhr[r].timer /\ wire' = Dropped(r)
      /\ UNCHANGED <<options, active, heard, broken>>
      /\ frames = <<>>
  BY DEF Timeout
<1>2. xhr[r].called
  BY <1>1, Typed DEF RequestFits, Begun
<1>3. \A i \in DOMAIN frames : FALSE
  BY <1>1
<1>. QED BY <1>1, <1>2, <1>3, DroppedIs, DoneBegins

LEMMA AnswerStep ==
    ASSUME AjaxInv, NEW r \in Request, Answer(r) PROVE AjaxInv'
<1>1. /\ wire[r] = "open" /\ wire' = [wire EXCEPT ![r] = "over"]
      /\ UNCHANGED <<options, active, heard, broken>>
      /\ frames = <<>>
  BY DEF Answer
<1>2. PICK ok \in BOOLEAN : Done(r, ok, frames)
  BY DEF Answer
<1>3. xhr[r].called
  BY <1>1, Typed DEF RequestFits, Begun
<1>4. wire' \in [Request -> Wires] /\ \A q \in Request \ {r} : wire'[q] = wire[q]
  BY <1>1, Typed DEF Wires
<1>. QED BY <1>1, <1>2, <1>3, <1>4, DoneBegins

LEMMA WireOverStep ==
    ASSUME AjaxInv, NEW r \in Request, wire[r] \in {"open", "dropped"},
           wire' = [wire EXCEPT ![r] = "over"],
           UNCHANGED <<options, xhr, active, frames, heard, broken>>
    PROVE  AjaxInv'
<1>1. Only(r) /\ Same(r)
  BY Typed DEF Only, Same, Wires
<1>2. Begun(xhr'[r], wire'[r])
  BY Typed DEF RequestFits, Begun
<1>. QED BY <1>1, <1>2, NothingOnTop

LEMMA ScriptFailsStep ==
    ASSUME AjaxInv, NEW r \in Request, ScriptFails(r) PROVE AjaxInv'
BY WireOverStep DEF ScriptFails

LEMMA ScriptComesStep ==
    ASSUME AjaxInv, NEW r \in Request, ScriptComes(r) PROVE AjaxInv'
<1>1. /\ wire[r] \in {"open", "dropped"} /\ wire' = [wire EXCEPT ![r] = "over"]
      /\ UNCHANGED <<options, active, heard, broken>>
      /\ frames = <<>>
  BY DEF ScriptComes
<1>2. CASE wire[r] = "dropped" \/ xhr[r].state = 2
  <2>1. UNCHANGED <<xhr, frames>>
    BY <1>2 DEF ScriptComes
  <2>. QED BY <1>1, <2>1, WireOverStep
<1>3. CASE ~(wire[r] = "dropped" \/ xhr[r].state = 2)
  <2>1. PICK does \in {xhr[r].window, FALSE} :
           /\ xhr' = [xhr EXCEPT ![r] = [Over(@) EXCEPT !.container = does]]
           /\ frames' = Append(frames, Frame(r, "settle", options[r].jsonp => does))
    BY <1>3 DEF ScriptComes
  <2>. DEFINE x == [Over(xhr[r]) EXCEPT !.container = does]
              ok == options[r].jsonp => does
  <2>2. ok \in BOOLEAN /\ does \in BOOLEAN
    BY Typed DEF Xhr
  <2>3. /\ x \in Xhr /\ x.state = 2 /\ x.called = xhr[r].called
        /\ x.settled = xhr[r].settled /\ x.completed = xhr[r].completed
        /\ x.fireGlobals = xhr[r].fireGlobals
    BY <2>2, Typed, OverIs DEF Xhr
  <2>4. xhr[r].called
    BY <1>1, Typed DEF RequestFits, Begun
  <2>. HIDE DEF x, ok
  <2>5. xhr' = [xhr EXCEPT ![r] = x]
    BY <2>1 DEF x
  <2>6. Only(r) /\ xhr'[r] = x
    BY <1>1, <2>3, <2>5, Typed DEF Only, Wires
  <2>7. Comes(Frame(r, "settle", ok), Len(frames))
    BY <2>1 DEF Comes, ok
  <2>8. \A i \in 1..Len(frames) : FALSE
    BY <1>1
  <2>. QED BY <1>1, <1>3, <2>2, <2>3, <2>4, <2>6, <2>7, <2>8, Settles
<1>. QED BY <1>2, <1>3

-------------------------------------------------------------------------------
(* Steps of the innermost frame. *)

LEMMA PlacesDiffer == CallPlaces \cap DonePlaces = {}
BY DEF CallPlaces, DonePlaces

LEMMA TopGoesOn ==
    ASSUME AjaxInv, frames # <<>>, NEW r, r = Innermost.r,
           NEW place \in CallPlaces \cup DonePlaces, frames' = Moves(place),
           Only(r), heard' \in [Request -> Said], active' \in Int,
           Fits(place, xhr'[r], heard'[r]), Begun(xhr'[r], wire'[r]),
           xhr'[r].fireGlobals = xhr[r].fireGlobals,
           \/ /\ Innermost.at \in CallPlaces /\ place \in CallPlaces
              /\ xhr[r].state # 2 /\ xhr'[r].state # 2 /\ Silent(xhr'[r], heard'[r])
           \/ Innermost.at \in DonePlaces /\ place \in DonePlaces /\ Same(r),
           \/ active' = active /\ Innermost.at # "ajaxStop" /\ place # "ajaxStop"
           \/ active' = active - 1 /\ Innermost.at = "ajaxComplete" /\ place = "ajaxStop"
    PROVE  AjaxInv'
<1>1. PICK n \in Nat : Len(frames) = n + 1 /\ Len(frames) - 1 = n
  BY Depth
<1>2. /\ r \in Request /\ Innermost \in Frames
      /\ Fits(Innermost.at, xhr[r], heard[r])
      /\ \A i \in 1..n : frames[i].r = r =>
            frames[i].at = "beforeSend" /\ Innermost.at \in DonePlaces
  BY <1>1, TopOfStack
<1>3. PICK f \in Frames : f.r = r /\ f.at = place /\ frames' = Append(Front(frames), f)
  BY <1>2, MoveReplaces, FrameTyped
<1>4. Comes(f, n)
  BY <1>1, <1>3 DEF Comes
<1>5. /\ frames' \in Seq(Frames) /\ Len(frames') = n + 1
      /\ DOMAIN frames' = 1..(n + 1)
      /\ \A i \in 1..n : frames'[i] = frames[i]
      /\ frames'[n + 1] = f
  BY <1>4, ComesOnTop
<1>6. frames[Len(frames)].r = r
  BY DEF Innermost
<1>7. About(r, n)
  BY <1>1, <1>3, <1>5, <1>6 DEF About, Only
<1>8. ASSUME NEW i \in DOMAIN frames', frames'[i].r = r
      PROVE  Fits(frames'[i].at, xhr'[r], heard'[r])
  <2>1. CASE i = n + 1
    BY <1>3, <1>5, <2>1
  <2>2. CASE i \in 1..n
    <3>1. /\ frames[i] = frames'[i] /\ frames[i].r = r /\ i \in DOMAIN frames
          /\ frames[i].at = "beforeSend" /\ Innermost.at \in DonePlaces
      BY <1>1, <1>2, <1>5, <1>8, <2>2 DEF AjaxInv
    <3>2. FrameFits(frames[i])
      BY <3>1 DEF AjaxInv, FramesFit
    <3>3. Same(r)
      BY <3>1, PlacesDiffer
    <3>. QED BY <3>1, <3>2, <3>3 DEF FrameFits, Fits, Same, DonePlaces, CallPlaces
  <2>. QED BY <1>5, <2>1, <2>2
<1>9. \A i \in 1..n : frames[i].r = r =>
          frames[i].at = "beforeSend" /\ frames'[n + 1].at \in DonePlaces
  BY <1>2, <1>3, <1>5, PlacesDiffer
<1>10. RequestFits(r)'
  <2>1. place \in DonePlaces => BeingDone(r)' /\ xhr'[r].state = 2
    BY <1>3, <1>5 DEF BeingDone, Fits
  <2>. QED BY <2>1 DEF RequestFits
<1>11. DOMAIN frames = 1..(n + 1) /\ frames[n + 1] = Innermost
  BY <1>1 DEF Innermost, AjaxInv
<1>12. CASE active' = active /\ Innermost.at # "ajaxStop" /\ place # "ajaxStop"
  <2>1. CASE Innermost.at \in CallPlaces /\ xhr[r].state # 2 /\ xhr'[r].state # 2
    <3>1. r \in Owing' <=> r \in Owing
      BY <1>2, <2>1 DEF Owing
    <3>. QED BY <1>2, <1>5, <1>7, <1>8, <1>9, <1>10, <1>12, <3>1, RequestStep DEF Only
  <2>2. CASE Innermost.at \in DonePlaces /\ place \in DonePlaces
    <3>1. \E i \in DOMAIN frames' :
              frames'[i].r = r /\ frames'[i].at \in DonePlaces \ {"ajaxStop"}
      BY <1>3, <1>5, <1>12, <2>2
    <3>2. \E i \in DOMAIN frames :
              frames[i].r = r /\ frames[i].at \in DonePlaces \ {"ajaxStop"}
      BY <1>11, <1>12, <2>2
    <3>3. r \in Owing' <=> r \in Owing
      BY <1>2, <3>1, <3>2 DEF Owing
    <3>. QED BY <1>2, <1>5, <1>7, <1>8, <1>9, <1>10, <1>12, <3>3, RequestStep DEF Only
  <2>. QED BY <2>1, <2>2
<1>13. CASE active' = active - 1 /\ Innermost.at = "ajaxComplete" /\ place = "ajaxStop"
  <2>1. Innermost.at \in DonePlaces /\ Same(r) /\ xhr[r].state = 2 /\ xhr[r].fireGlobals
    BY <1>2, <1>13, PlacesDiffer DEF DonePlaces, Fits
  <2>2. r \in Owing
    BY <1>2, <1>11, <1>13, <2>1 DEF Owing, DonePlaces
  <2>3. ASSUME NEW i \in DOMAIN frames', frames'[i].r = r
        PROVE  frames'[i].at \notin DonePlaces \ {"ajaxStop"}
    <3>1. CASE i = n + 1
      BY <1>3, <1>5, <1>13, <3>1
    <3>2. CASE i \in 1..n
      BY <1>2, <1>5, <2>3, <3>2 DEF DonePlaces
    <3>. QED BY <1>5, <3>1, <3>2
  <2>4. r \notin Owing'
    BY <2>1, <2>3 DEF Owing, Same
  <2>. QED BY <1>2, <1>5, <1>7, <1>8, <1>9, <1>10, <1>13, <2>2, <2>4, RequestStep DEF Only
<1>. QED BY <1>12, <1>13

LEMMA TopGoes ==
    ASSUME AjaxInv, frames # <<>>, NEW r, r = Innermost.r, frames' = Front(frames),
           Only(r), heard' \in [Request -> Said], active' \in Int,
           Begun(xhr'[r], wire'[r]),
           xhr'[r].state # 2 => Silent(xhr'[r], heard'[r]),
           xhr'[r].state = 2 /\ ~broken => ToldAll(xhr'[r], heard'[r]),
           Innermost.at \in DonePlaces => Same(r),
           xhr'[r].fireGlobals = xhr[r].fireGlobals,
           xhr'[r].state = 2 <=> xhr[r].state = 2,
           \/ /\ active' = active
              /\ Innermost.at \in DonePlaces \ {"ajaxStop"} => ~xhr[r].fireGlobals
           \/ active' = active - 1 /\ Innermost.at = "ajaxComplete"
    PROVE  AjaxInv'
<1>1. PICK n \in Nat : Len(frames) = n + 1 /\ Len(frames) - 1 = n
  BY Depth
<1>2. /\ r \in Request /\ Innermost \in Frames
      /\ Fits(Innermost.at, xhr[r], heard[r])
      /\ \A i \in 1..n : frames[i].r = r =>
            frames[i].at = "beforeSend" /\ Innermost.at \in DonePlaces
  BY <1>1, TopOfStack
<1>3. /\ frames' \in Seq(Frames) /\ Len(frames') = n /\ DOMAIN frames' = 1..n
      /\ \A i \in 1..n : frames'[i] = frames[i]
  BY <1>1, FrontIs
<1>4. frames[Len(frames)].r = r
  BY DEF Innermost
<1>5. Len(frames') # n + 1 /\ Len(frames') \in {n, n + 1}
  BY <1>3, NotTheNext
<1>6. About(r, n)
  BY <1>1, <1>3, <1>4, <1>5 DEF About, Only
<1>7. ASSUME NEW i \in DOMAIN frames', frames'[i].r = r
      PROVE  frames'[i].at = "beforeSend" /\ Fits(frames'[i].at, xhr'[r], heard'[r])
  <2>1. /\ frames[i] = frames'[i] /\ frames[i].r = r /\ i \in DOMAIN frames
        /\ frames[i].at = "beforeSend" /\ Innermost.at \in DonePlaces
    BY <1>1, <1>2, <1>3, <1>7 DEF AjaxInv
  <2>2. FrameFits(frames[i])
    BY <2>1 DEF AjaxInv, FramesFit
  <2>. QED BY <2>1, <2>2 DEF FrameFits, Fits, Same, DonePlaces, CallPlaces
<1>8. RequestFits(r)'
  BY DEF RequestFits, Only
<1>9. DOMAIN frames = 1..(n + 1) /\ frames[n + 1] = Innermost
  BY <1>1 DEF Innermost, AjaxInv
<1>10. r \in Owing' <=> xhr'[r].fireGlobals /\ xhr'[r].state # 2
  BY <1>2, <1>7 DEF Owing, DonePlaces
<1>11. CASE active' = active /\ (Innermost.at \in DonePlaces \ {"ajaxStop"} => ~xhr[r].fireGlobals)
  <2>1. ASSUME NEW i \in DOMAIN frames, frames[i].r = r, xhr[r].fireGlobals
        PROVE  frames[i].at \notin DonePlaces \ {"ajaxStop"}
    <3>1. CASE i = n + 1
      BY <1>9, <1>11, <2>1, <3>1
    <3>2. CASE i \in 1..n
      BY <1>2, <2>1, <3>2 DEF DonePlaces
    <3>. QED BY <1>9, <3>1, <3>2
  <2>2. r \in Owing <=> xhr[r].fireGlobals /\ xhr[r].state # 2
    BY <1>2, <2>1 DEF Owing
  <2>. QED BY <1>2, <1>5, <1>6, <1>7, <1>8, <1>10, <1>11, <2>2, RequestStep DEF Only
<1>12. CASE active' = active - 1 /\ Innermost.at = "ajaxComplete"
  <2>1. xhr[r].state = 2 /\ xhr[r].fireGlobals /\ xhr'[r].state = 2
    BY <1>2, <1>12 DEF Fits, DonePlaces
  <2>2. r \in Owing
    BY <1>2, <1>9, <1>12, <2>1 DEF Owing, DonePlaces
  <2>. QED BY <1>2, <1>5, <1>6, <1>7, <1>8, <1>10, <1>12, <2>1, <2>2, RequestStep DEF Only
<1>. QED BY <1>11, <1>12

(***************************************************************************)
(* In a frame of `ajax' on top of the stack: r has no other.               *)
(***************************************************************************)
LEMMA CallOnTop ==
    ASSUME AjaxInv, frames # <<>>, Innermost.at \in CallPlaces
    PROVE  /\ Innermost.r \in Request
           /\ \A i \in 1..(Len(frames) - 1) : frames[i].r # Innermost.r
           /\ ~BeingDone(Innermost.r)
<1>1. PICK n \in Nat : Len(frames) = n + 1 /\ Len(frames) - 1 = n
  BY Depth
<1>2. DOMAIN frames = 1..(n + 1) /\ frames[n + 1] = Innermost
  BY <1>1 DEF Innermost, AjaxInv
<1>3. \A i \in 1..n : frames[i].r # Innermost.r
  BY <1>1, TopOfStack, PlacesDiffer
<1>4. ~BeingDone(Innermost.r)
  <2>1. SUFFICES ASSUME NEW i \in 1..(n + 1), frames[i].r = Innermost.r
                 PROVE  frames[i].at \notin DonePlaces
    BY <1>2 DEF BeingDone
  <2>2. i = n + 1
    BY <1>3, <2>1
  <2>. QED BY <1>2, <2>2, PlacesDiffer
<1>. QED BY <1>1, <1>3, <1>4, TopOfStack

LEMMA AjaxStartStep == ASSUME AjaxInv, AjaxStart PROVE AjaxInv'
<1>. DEFINE r == Innermost.r
<1>1. frames # <<>> /\ Innermost.at = "ajaxStart" /\ frames' = Moves("beforeSend")
  BY DEF AjaxStart, At
<1>2. r \in Request /\ Fits("ajaxStart", xhr[r], heard[r])
  BY <1>1, TopOfStack
<1>3. Only(r) /\ UNCHANGED <<xhr, wire, heard, active>>
  BY Typed, <1>2 DEF AjaxStart, Only
<1>4. xhr[r].state # 2 /\ Silent(xhr[r], heard[r]) /\ Begun(xhr[r], wire[r])
  BY <1>2, Typed DEF Fits, CallPlaces, RequestFits
<1>5. Fits("beforeSend", xhr[r], heard[r])
  BY <1>2 DEF Fits, CallPlaces, DonePlaces
<1>. QED BY <1>1, <1>2, <1>3, <1>4, <1>5, TopGoesOn, Typed DEF CallPlaces

LEMMA AjaxSendStep == ASSUME AjaxInv, AjaxSend PROVE AjaxInv'
<1>. DEFINE r == Innermost.r
<1>1. frames # <<>> /\ Innermost.at = "ajaxSend" /\ frames' = Moves("send")
  BY DEF AjaxSend, At
<1>2. r \in Request /\ Fits("ajaxSend", xhr[r], heard[r])
  BY <1>1, TopOfStack
<1>3. Only(r) /\ UNCHANGED <<xhr, wire, heard, active>>
  BY Typed, <1>2 DEF AjaxSend, Only
<1>4. xhr[r].state # 2 /\ Silent(xhr[r], heard[r]) /\ Begun(xhr[r], wire[r])
  BY <1>2, Typed DEF Fits, CallPlaces, RequestFits
<1>5. Fits("send", xhr[r], heard[r])
  BY <1>2 DEF Fits, CallPlaces, DonePlaces
<1>. QED BY <1>1, <1>2, <1>3, <1>4, <1>5, TopGoesOn, Typed DEF CallPlaces

LEMMA ReplacedComes ==
    ASSUME AjaxInv, frames # <<>>, NEW ok \in BOOLEAN, NEW r, r = Innermost.r,
           frames' = Append(Front(frames), Frame(r, "settle", ok))
    PROVE  Comes(Frame(r, "settle", ok), Len(frames) - 1)
<1>1. Frame(r, "settle", ok).r = r
  BY DEF Frame
<1>. QED BY <1>1 DEF Comes

LEMMA SettlesInstead ==
    ASSUME AjaxInv, frames # <<>>, NEW ok \in BOOLEAN, NEW r, r = Innermost.r,
           Innermost.at \in CallPlaces, xhr[r].state # 2,
           frames' = Append(Front(frames), Frame(r, "settle", ok)),
           NEW x \in Xhr, xhr' = [xhr EXCEPT ![r] = x],
           x.called = xhr[r].called, x.state = 2, x.fireGlobals = xhr[r].fireGlobals,
           x.settled = xhr[r].settled, x.completed = xhr[r].completed,
           UNCHANGED <<options, wire, active, heard, broken>>
    PROVE  AjaxInv'
<1>1. r \in Request /\ Fits(Innermost.at, xhr[r], heard[r]) /\ xhr[r].called
  BY TopOfStack DEF Fits
<1>2. PICK n : n = Len(frames) - 1 /\ Comes(Frame(r, "settle", ok), n)
  BY ReplacedComes
<1>3. Only(r) /\ xhr'[r] = x
  BY <1>1, Typed DEF Only
<1>4. \A i \in 1..n : frames[i].r # r
  BY <1>2, CallOnTop
<1>5. \A i \in 1..n : frames[i].r = r => frames[i].at = "beforeSend" /\ ~xhr'[r].installed
  BY <1>4
<1>6. heard' = heard /\ active' = active /\ xhr[r].called
  BY <1>1
<1>7. /\ xhr'[r].called /\ xhr'[r].state = 2
      /\ xhr'[r].settled = xhr[r].settled /\ xhr'[r].completed = xhr[r].completed
      /\ xhr'[r].fireGlobals = xhr[r].fireGlobals
  BY <1>1, <1>3
<1>. QED BY <1>1, <1>2, <1>3, <1>5, <1>6, <1>7, Settles

LEMMA BeforeSendStep == ASSUME AjaxInv, BeforeSend PROVE AjaxInv'
<1>. DEFINE r == Innermost.r
            o == options[r]
<1>1. frames # <<>> /\ Innermost.at = "beforeSend" /\ Innermost.at \in CallPlaces
  BY DEF BeforeSend, At, CallPlaces
<1>2. r \in Request /\ Fits("beforeSend", xhr[r], heard[r])
  BY <1>1, TopOfStack
<1>3. UNCHANGED <<options, wire, active, heard, broken>>
  BY DEF BeforeSend
<1>4. ~BeingDone(r)
  BY <1>1, CallOnTop
<1>5. xhr[r] \in Xhr
  BY <1>2, Typed
<1>6. CASE (o.refuses \/ xhr[r].state = 2) /\ xhr[r].state = 2
  <2>1. xhr' = xhr /\ frames' = Front(frames)
    BY <1>6 DEF BeforeSend, Done
  <2>2. Only(r) /\ Same(r)
    BY <1>2, <1>3, <2>1, Typed DEF Only, Same
  <2>3. ~broken => ToldAll(xhr[r], heard[r])
    BY <1>2, <1>4, <1>6, Typed DEF RequestFits
  <2>4. Begun(xhr[r], wire[r])
    BY <1>2, Typed DEF RequestFits
  <2>5. Innermost.at \notin DonePlaces
    BY <1>1, PlacesDiffer
  <2>. QED BY <1>1, <1>2, <1>3, <1>6, <2>1, <2>2, <2>3, <2>4, <2>5, TopGoes, Typed
<1>7. CASE (o.refuses \/ xhr[r].state = 2) /\ xhr[r].state # 2
  <2>1. /\ xhr' = [xhr EXCEPT ![r] = Over(xhr[r])]
        /\ frames' = Append(Front(frames), Frame(r, "settle", FALSE))
    BY <1>7 DEF BeforeSend, Done
  <2>. QED BY <1>1, <1>3, <1>5, <1>7, <2>1, OverIs, SettlesInstead
<1>8. CASE ~(o.refuses \/ xhr[r].state = 2) /\ o.by = "none"
  <2>. DEFINE x == [Over(xhr[r]) EXCEPT !.installed = TRUE]
  <2>1. /\ xhr' = [xhr EXCEPT ![r] = x]
        /\ frames' = Append(Front(frames), Frame(r, "settle", FALSE))
    BY <1>8 DEF BeforeSend, Replaced
  <2>2. /\ x \in Xhr /\ x.state = 2 /\ x.called = xhr[r].called
        /\ x.fireGlobals = xhr[r].fireGlobals
        /\ x.settled = xhr[r].settled /\ x.completed = xhr[r].completed
    <3>1. PICK y \in Xhr :
             /\ y = Over(xhr[r]) /\ y.state = 2 /\ y.called = xhr[r].called
             /\ y.fireGlobals = xhr[r].fireGlobals
             /\ y.settled = xhr[r].settled /\ y.completed = xhr[r].completed
      BY <1>5, OverIs
    <3>2. x = [y EXCEPT !.installed = TRUE]
      BY <3>1
    <3>. QED BY <3>1, <3>2 DEF Xhr
  <2>. HIDE DEF x
  <2>. QED BY <1>1, <1>3, <1>8, <2>1, <2>2, SettlesInstead
<1>9. CASE ~(o.refuses \/ xhr[r].state = 2) /\ o.by # "none"
  <2>. DEFINE x == [xhr[r] EXCEPT !.installed = TRUE, !.transport = TRUE]
              place == IF xhr[r].fireGlobals THEN "ajaxSend" ELSE "send"
  <2>1. xhr' = [xhr EXCEPT ![r].installed = TRUE, ![r].transport = TRUE]
        /\ frames' = Moves(place)
    BY <1>9 DEF BeforeSend
  <2>2. x \in Xhr /\ x.called = xhr[r].called /\ x.state = xhr[r].state
    BY <1>5 DEF Xhr
  <2>3. /\ x.fireGlobals = xhr[r].fireGlobals
        /\ x.settled = xhr[r].settled /\ x.completed = xhr[r].completed
    BY <1>5 DEF Xhr
  <2>4. xhr' = [xhr EXCEPT ![r] = x]
    BY <1>2, <2>1, Typed
  <2>5. place \in CallPlaces /\ place \in {"ajaxSend", "send"}
    BY DEF CallPlaces
  <2>. HIDE DEF x, place
  <2>6. Only(r) /\ xhr'[r] = x
    BY <1>2, <1>3, <2>2, <2>4, Typed DEF Only
  <2>7. Silent(x, heard[r]) /\ xhr[r].called
    BY <1>2, <1>9, <2>3, Typed DEF RequestFits, Silent, Fits
  <2>8. Begun(x, wire[r])
    BY <2>2, <2>7 DEF Begun
  <2>9. Fits(place, x, heard[r])
    BY <1>9, <2>2, <2>5, <2>7 DEF Fits, DonePlaces, CallPlaces
  <2>10. Innermost.at # "ajaxStop" /\ place # "ajaxStop"
    BY <1>1, <2>5
  <2>. QED BY <1>1, <1>2, <1>3, <1>9, <2>1, <2>2, <2>3, <2>5, <2>6, <2>7, <2>8, <2>9, <2>10,
              TopGoesOn, Typed
<1>. QED BY <1>6, <1>7, <1>8, <1>9

LEMMA SendStep == ASSUME AjaxInv, Send PROVE AjaxInv'
<1>. DEFINE r == Innermost.r
            o == options[r]
            gone == [xhr[r] EXCEPT !.state = 1, !.timer = o.async /\ o.timeout]
<1>1. frames # <<>> /\ Innermost.at = "send" /\ Innermost.at \in CallPlaces
  BY DEF Send, At, CallPlaces
<1>2. r \in Request /\ Fits("send", xhr[r], heard[r])
  BY <1>1, TopOfStack
<1>3. UNCHANGED <<options, active, heard, broken>>
  BY DEF Send
<1>4. xhr[r].state # 2 /\ Silent(xhr[r], heard[r]) /\ xhr[r].called
  BY <1>2, Typed DEF Fits, CallPlaces, RequestFits
<1>5. xhr[r] \in Xhr /\ o \in Options
  BY <1>2, Typed
<1>6. o.async \in BOOLEAN /\ o.timeout \in BOOLEAN
  BY <1>5, AjaxAssumption
<1>7. gone \in Xhr /\ gone.state = 1 /\ gone.called = xhr[r].called
  BY <1>5, <1>6, 1 \in 0..2 DEF Xhr
<1>8. /\ gone.fireGlobals = xhr[r].fireGlobals
      /\ gone.settled = xhr[r].settled /\ gone.completed = xhr[r].completed
  BY <1>5 DEF Xhr
<1>9. \/ /\ xhr' = [xhr EXCEPT ![r] = Over(gone)] /\ wire' = wire
         /\ \E ok \in BOOLEAN : frames' = Append(Front(frames), Frame(r, "settle", ok))
      \/ /\ xhr' = [xhr EXCEPT ![r] = gone]
         /\ wire' = [wire EXCEPT ![r] = "open"]
         /\ frames' = Front(frames)
  BY DEF Send, Replaced
<1>. HIDE DEF gone
<1>10. CASE /\ xhr' = [xhr EXCEPT ![r] = Over(gone)] /\ wire' = wire
            /\ \E ok \in BOOLEAN : frames' = Append(Front(frames), Frame(r, "settle", ok))
  <2>1. PICK ok \in BOOLEAN : frames' = Append(Front(frames), Frame(r, "settle", ok))
    BY <1>10
  <2>2. /\ Over(gone) \in Xhr /\ Over(gone).state = 2 /\ Over(gone).called = xhr[r].called
        /\ Over(gone).fireGlobals = xhr[r].fireGlobals
        /\ Over(gone).settled = xhr[r].settled /\ Over(gone).completed = xhr[r].completed
    BY <1>7, <1>8, OverIs
  <2>. QED BY <1>1, <1>3, <1>4, <1>10, <2>1, <2>2, SettlesInstead
<1>11. CASE /\ xhr' = [xhr EXCEPT ![r] = gone]
            /\ wire' = [wire EXCEPT ![r] = "open"]
            /\ frames' = Front(frames)
  <2>1. Only(r) /\ xhr'[r] = gone
    BY <1>2, <1>3, <1>7, <1>11, Typed DEF Only, Wires
  <2>2. Silent(gone, heard[r]) /\ gone.called /\ gone.state # 2
    BY <1>4, <1>7, <1>8 DEF Silent
  <2>3. Begun(gone, wire'[r])
    BY <2>2 DEF Begun
  <2>4. Innermost.at \notin DonePlaces
    BY <1>1, PlacesDiffer
  <2>. QED BY <1>1, <1>2, <1>3, <1>4, <1>8, <1>11, <2>1, <2>2, <2>3, <2>4, TopGoes, Typed
<1>. QED BY <1>9, <1>10, <1>11

LEMMA SettleStep == ASSUME AjaxInv, Settle PROVE AjaxInv'
<1>. DEFINE r == Innermost.r
            x == [xhr[r] EXCEPT !.settled = TRUE, !.window = FALSE]
            word == IF Innermost.ok THEN "success" ELSE "error"
            place == IF xhr[r].fireGlobals THEN "ajaxSuccess" ELSE "complete"
<1>1. frames # <<>> /\ Innermost.at = "settle" /\ frames' = Moves(place)
  BY DEF Settle, At
<1>2. r \in Request /\ Fits("settle", xhr[r], heard[r])
  BY <1>1, TopOfStack
<1>3. /\ xhr' = [xhr EXCEPT ![r].settled = TRUE, ![r].window = FALSE]
      /\ UNCHANGED <<options, wire, active, broken>>
  BY DEF Settle
<1>4. heard[r] = <<>> /\ ~xhr[r].settled /\ ~xhr[r].completed /\ xhr[r].called /\ xhr[r].state = 2
  BY <1>2 DEF Fits, DonePlaces
<1>5. heard' = IF xhr[r].installed THEN [heard EXCEPT ![r] = <<word>>] ELSE heard
  BY <1>2, <1>4, Typed DEF Settle
<1>6. xhr[r] \in Xhr
  BY <1>2, Typed
<1>7. x \in Xhr /\ x.called = xhr[r].called /\ x.state = xhr[r].state /\ ~x.window
  BY <1>6 DEF Xhr
<1>8. /\ x.fireGlobals = xhr[r].fireGlobals /\ x.installed = xhr[r].installed
      /\ x.completed = xhr[r].completed
  BY <1>6 DEF Xhr
<1>9. xhr' = [xhr EXCEPT ![r] = x]
  BY <1>2, <1>3, Typed
<1>10. place \in DonePlaces /\ place \in {"ajaxSuccess", "complete"}
       /\ (place = "ajaxSuccess" => xhr[r].fireGlobals)
  BY DEF DonePlaces
<1>11. <<word>> \in OneWord
  BY DEF OneWord
<1>. HIDE DEF x, place, word
<1>12. xhr'[r] = x /\ Same(r)
  BY <1>2, <1>7, <1>8, <1>9, Typed DEF Same
<1>13. heard' \in [Request -> Said] /\ \A q \in Request \ {r} : heard'[q] = heard[q]
  BY <1>2, <1>5, <1>11, Typed DEF Said
<1>14. Only(r)
  BY <1>2, <1>3, <1>7, <1>9, <1>13, Typed DEF Only
<1>15. heard'[r] \in IF x.installed THEN OneWord ELSE {<<>>}
  BY <1>2, <1>4, <1>5, <1>8, <1>11, Typed
<1>16. Fits(place, x, heard'[r])
  BY <1>4, <1>7, <1>8, <1>10, <1>15 DEF Fits, DonePlaces, CallPlaces
<1>17. Begun(x, wire'[r])
  BY <1>4, <1>7 DEF Begun
<1>18. Innermost.at \in DonePlaces /\ Innermost.at # "ajaxStop" /\ place # "ajaxStop"
  BY <1>1, <1>10 DEF DonePlaces
<1>. QED BY <1>1, <1>2, <1>3, <1>8, <1>10, <1>12, <1>13, <1>14, <1>16, <1>17, <1>18, TopGoesOn,
            Typed

LEMMA AjaxSuccessStep == ASSUME AjaxInv, AjaxSuccess PROVE AjaxInv'
<1>. DEFINE r == Innermost.r
<1>1. frames # <<>> /\ Innermost.at = "ajaxSuccess" /\ frames' = Moves("complete")
  BY DEF AjaxSuccess, At
<1>2. r \in Request /\ Fits("ajaxSuccess", xhr[r], heard[r])
  BY <1>1, TopOfStack
<1>3. Only(r) /\ Same(r) /\ UNCHANGED <<xhr, wire, heard, active>>
  BY Typed, <1>2 DEF AjaxSuccess, Only, Same
<1>4. Begun(xhr[r], wire[r])
  BY <1>2, Typed DEF RequestFits
<1>5. Fits("complete", xhr[r], heard[r])
  BY <1>2 DEF Fits, CallPlaces, DonePlaces
<1>. QED BY <1>1, <1>2, <1>3, <1>4, <1>5, TopGoesOn, Typed DEF DonePlaces

LEMMA OneThenAnother ==
    ASSUME NEW S, NEW a \in S, NEW b \in S PROVE Append(<<a>>, b) = <<a, b>>
<1>1. <<a>> \in Seq(S) /\ Len(<<a>>) = 1 /\ <<a, b>> \in Seq(S) /\ Len(<<a, b>>) = 2
  OBVIOUS
<1>2. Append(<<a>>, b) \in Seq(S) /\ Len(Append(<<a>>, b)) = 2
  BY <1>1, AppendProperties
<1>3. Append(<<a>>, b)[1] = a /\ Append(<<a>>, b)[2] = b
  BY <1>1, AppendProperties
<1>4. \A i \in 1..2 : i = 1 \/ i = 2
  OBVIOUS
<1>5. \A i \in 1..2 : Append(<<a>>, b)[i] = <<a, b>>[i]
  BY <1>3, <1>4
<1>6. ASSUME NEW t \in Seq(S), Len(t) = 2, \A i \in 1..2 : Append(<<a>>, b)[i] = t[i]
      PROVE  Append(<<a>>, b) = t
  BY <1>2, <1>6, SeqEqual
<1>. QED BY <1>1, <1>5, <1>6

LEMMA WordThenComplete ==
    ASSUME NEW w \in OneWord PROVE Append(w, "complete") \in Verdicts
<1>. DEFINE S == {"success", "error", "complete"}
<1>0. "success" \in S /\ "error" \in S /\ "complete" \in S
  OBVIOUS
<1>. HIDE DEF S
<1>1. Append(<<"success">>, "complete") = <<"success", "complete">>
  BY <1>0, OneThenAnother
<1>2. Append(<<"error">>, "complete") = <<"error", "complete">>
  BY <1>0, OneThenAnother
<1>. HIDE DEF Verdicts
<1>3. CASE w = <<"success">>
  BY <1>1, <1>3 DEF Verdicts
<1>4. CASE w = <<"error">>
  BY <1>2, <1>4 DEF Verdicts
<1>. QED BY <1>3, <1>4 DEF OneWord

LEMMA CompleteStep == ASSUME AjaxInv, Complete PROVE AjaxInv'
<1>. DEFINE r == Innermost.r
            x == [xhr[r] EXCEPT !.completed = TRUE]
<1>1. frames # <<>> /\ Innermost.at = "complete"
  BY DEF Complete, At
<1>2. r \in Request /\ Fits("complete", xhr[r], heard[r])
  BY <1>1, TopOfStack
<1>3. /\ xhr' = [xhr EXCEPT ![r].completed = TRUE]
      /\ UNCHANGED <<options, wire, active, broken>>
      /\ frames' = IF xhr[r].fireGlobals THEN Moves("ajaxComplete") ELSE Front(frames)
  BY DEF Complete
<1>4. /\ ~xhr[r].completed /\ ~xhr[r].window /\ xhr[r].called /\ xhr[r].state = 2
      /\ heard[r] \in IF xhr[r].installed THEN OneWord ELSE {<<>>}
  BY <1>2 DEF Fits, DonePlaces
<1>5. heard' = IF xhr[r].installed THEN [heard EXCEPT ![r] = Append(heard[r], "complete")]
               ELSE heard
  BY <1>2, <1>4, Typed DEF Complete
<1>6. xhr[r] \in Xhr
  BY <1>2, Typed
<1>7. x \in Xhr /\ x.called = xhr[r].called /\ x.state = xhr[r].state /\ ~x.window
  BY <1>4, <1>6 DEF Xhr
<1>8. x.fireGlobals = xhr[r].fireGlobals /\ x.installed = xhr[r].installed
  BY <1>6 DEF Xhr
<1>9. xhr' = [xhr EXCEPT ![r] = x]
  BY <1>2, <1>3, Typed
<1>10. xhr[r].installed => Append(heard[r], "complete") \in Verdicts
  BY <1>4, WordThenComplete DEF OneWord
<1>. HIDE DEF x
<1>11. xhr'[r] = x /\ Same(r)
  BY <1>2, <1>7, <1>8, <1>9, Typed DEF Same
<1>12. heard' \in [Request -> Said] /\ \A q \in Request \ {r} : heard'[q] = heard[q]
  BY <1>2, <1>5, <1>10, Typed DEF Said
<1>13. Only(r)
  BY <1>2, <1>3, <1>7, <1>9, <1>12, Typed DEF Only
<1>14. x.installed => heard'[r] \in Verdicts
  BY <1>2, <1>5, <1>8, <1>10, Typed
<1>15. Begun(x, wire'[r]) /\ ToldAll(x, heard'[r])
  BY <1>4, <1>7, <1>14 DEF Begun, ToldAll
<1>16. Innermost.at \in DonePlaces /\ Innermost.at # "ajaxStop"
  BY <1>1 DEF DonePlaces
<1>17. CASE xhr[r].fireGlobals
  <2>1. Fits("ajaxComplete", x, heard'[r])
    BY <1>4, <1>7, <1>8, <1>14, <1>17 DEF Fits, DonePlaces, CallPlaces
  <2>2. "ajaxComplete" \in DonePlaces
    BY DEF DonePlaces
  <2>3. frames' = Moves("ajaxComplete")
    BY <1>3, <1>17
  <2>. QED BY <1>1, <1>2, <1>3, <1>8, <1>11, <1>12, <1>13, <1>15, <1>16, <2>1, <2>2, <2>3,
              TopGoesOn, Typed
<1>18. CASE ~xhr[r].fireGlobals
  <2>1. frames' = Front(frames)
    BY <1>3, <1>18
  <2>2. x.state = 2
    BY <1>4, <1>7
  <2>. QED BY <1>1, <1>2, <1>3, <1>4, <1>8, <1>11, <1>12, <1>13, <1>15, <1>18, <2>1, <2>2,
              TopGoes, Typed
<1>. QED BY <1>17, <1>18

LEMMA AjaxCompleteStep == ASSUME AjaxInv, AjaxComplete PROVE AjaxInv'
<1>. DEFINE r == Innermost.r
<1>1. frames # <<>> /\ Innermost.at = "ajaxComplete"
  BY DEF AjaxComplete, At
<1>2. r \in Request /\ Fits("ajaxComplete", xhr[r], heard[r]) /\ active \in Int
  BY <1>1, TopOfStack, Typed
<1>3. /\ UNCHANGED <<options, xhr, wire, heard, broken>> /\ active' = active - 1
      /\ frames' = IF active = 1 THEN Moves("ajaxStop") ELSE Front(frames)
  BY DEF AjaxComplete
<1>4. Only(r) /\ Same(r)
  BY <1>2, <1>3, Typed DEF Only, Same
<1>5. Begun(xhr[r], wire[r])
  BY <1>2, Typed DEF RequestFits
<1>6. ToldAll(xhr[r], heard[r]) /\ xhr[r].state = 2
  BY <1>2 DEF Fits, ToldAll, DonePlaces
<1>7. active' \in Int /\ Innermost.at \in DonePlaces
  BY <1>1, <1>2, <1>3 DEF DonePlaces
<1>8. CASE active = 1
  <2>1. frames' = Moves("ajaxStop") /\ "ajaxStop" \in DonePlaces
    BY <1>3, <1>8 DEF DonePlaces
  <2>2. Fits("ajaxStop", xhr[r], heard[r])
    BY <1>2 DEF Fits, DonePlaces, CallPlaces
  <2>. QED BY <1>1, <1>2, <1>3, <1>4, <1>5, <1>7, <2>1, <2>2, TopGoesOn, Typed
<1>9. CASE active # 1
  <2>1. frames' = Front(frames)
    BY <1>3, <1>9
  <2>. QED BY <1>1, <1>2, <1>3, <1>4, <1>5, <1>6, <1>7, <2>1, TopGoes, Typed
<1>. QED BY <1>8, <1>9

LEMMA AjaxStopStep == ASSUME AjaxInv, AjaxStop PROVE AjaxInv'
<1>. DEFINE r == Innermost.r
<1>1. frames # <<>> /\ Innermost.at = "ajaxStop" /\ frames' = Front(frames)
  BY DEF AjaxStop, At
<1>2. r \in Request /\ Fits("ajaxStop", xhr[r], heard[r])
  BY <1>1, TopOfStack
<1>3. Only(r) /\ Same(r) /\ UNCHANGED <<xhr, wire, heard, active>>
  BY Typed, <1>2 DEF AjaxStop, Only, Same
<1>4. Begun(xhr[r], wire[r])
  BY <1>2, Typed DEF RequestFits
<1>5. ToldAll(xhr[r], heard[r]) /\ xhr[r].state = 2
  BY <1>2 DEF Fits, ToldAll, DonePlaces
<1>. QED BY <1>1, <1>2, <1>3, <1>4, <1>5, TopGoes, Typed

LEMMA RequestCalledStep ==
    ASSUME AjaxInv, NEW r \in Request, Request_(r) PROVE AjaxInv'
<1>. DEFINE o == options[r]
            x == [New EXCEPT !.called = TRUE, !.fireGlobals = Global(o), !.window = o.jsonp]
            place == IF Global(o) /\ active = 0 THEN "ajaxStart" ELSE "beforeSend"
            f == Frame(r, place, TRUE)
            n == Len(frames)
<1>1. xhr[r] = New /\ heard[r] = <<>> /\ wire[r] = "idle"
  <2>1. ~xhr[r].called /\ RequestFits(r)
    BY Typed DEF Request_
  <2>2. xhr[r] = New /\ wire[r] = "idle"
    BY <2>1 DEF RequestFits, Begun
  <2>. QED BY <2>1, <2>2 DEF RequestFits, Silent, New
<1>2. o.jsonp \in BOOLEAN /\ Global(o) \in BOOLEAN
  BY Typed, AjaxAssumption DEF Global
<1>3. x \in Xhr
  <2>1. New \in Xhr
    BY 0 \in 0..2 DEF New, Xhr
  <2>2. ASSUME NEW y \in Xhr, NEW g \in BOOLEAN, NEW w \in BOOLEAN
        PROVE  [y EXCEPT !.called = TRUE, !.fireGlobals = g, !.window = w] \in Xhr
    BY DEF Xhr
  <2>. QED BY <1>2, <2>1, <2>2
<1>4. /\ x.called /\ x.state = 0 /\ x.fireGlobals = Global(o) /\ ~x.installed
      /\ ~x.settled /\ ~x.completed
  BY DEF New
<1>5. /\ xhr' = [xhr EXCEPT ![r] = x] /\ frames' = Append(frames, f)
      /\ active' = IF Global(o) THEN active + 1 ELSE active
      /\ UNCHANGED <<options, wire, heard, broken>>
  BY <1>1, Typed DEF Request_, Counts
<1>6. place \in {"ajaxStart", "beforeSend"}
  OBVIOUS
<1>7. f \in Frames /\ f.r = r /\ f.at = place
  <2>1. place \in CallPlaces \cup DonePlaces
    BY <1>6 DEF CallPlaces
  <2>. HIDE DEF place
  <2>. QED BY <2>1, FrameTyped
<1>. HIDE DEF x, place, f, o, n
<1>8. xhr'[r] = x /\ heard'[r] = <<>> /\ Only(r)
  BY <1>1, <1>3, <1>5, Typed DEF Only
<1>9. Comes(f, n)
  BY <1>5 DEF Comes, n
<1>10. /\ n \in Nat /\ n \in {Len(frames), Len(frames) - 1}
       /\ n < Len(frames) => frames[Len(frames)].r = r
       /\ frames' \in Seq(Frames) /\ Len(frames') = n + 1
       /\ DOMAIN frames' = 1..(n + 1)
       /\ \A i \in 1..n : frames'[i] = frames[i]
       /\ frames'[n + 1] = f
  BY <1>7, <1>9, ComesOnTop
<1>11. About(r, n)
  BY <1>7, <1>8, <1>10, <1>5 DEF About, Only
<1>12. ASSUME NEW i \in 1..n PROVE frames[i].r # r
  <2>1. i \in DOMAIN frames
    BY DEF n, AjaxInv
  <2>2. FrameFits(frames[i])
    BY <2>1 DEF AjaxInv, FramesFit
  <2>. QED BY <1>1, <2>2 DEF FrameFits, Fits, New
<1>13. Fits(place, x, <<>>)
  BY <1>4, <1>6 DEF Fits, CallPlaces, DonePlaces
<1>14. \A i \in DOMAIN frames' :
          frames'[i].r = r => Fits(frames'[i].at, xhr'[r], heard'[r])
  BY <1>7, <1>8, <1>10, <1>12, <1>13
<1>15. RequestFits(r)'
  BY <1>4, <1>8 DEF RequestFits, Begun, Silent
<1>16. r \notin Owing
  BY <1>1 DEF Owing, New
<1>17. r \in Owing' <=> Global(o)
  BY <1>4, <1>6, <1>7, <1>8, <1>10, <1>12 DEF Owing, DonePlaces
<1>18. \/ active' = active /\ (r \in Owing' <=> r \in Owing)
       \/ active' = active + 1 /\ r \in Owing' /\ r \notin Owing
  BY <1>5, <1>16, <1>17
<1>19. /\ options' = options /\ xhr' \in [Request -> Xhr] /\ wire' \in [Request -> Wires]
       /\ heard' \in [Request -> Said] /\ active' \in Int
  BY <1>5, <1>8, Typed DEF Only
<1>20. \A i \in 1..n : frames[i].r = r =>
           frames[i].at = "beforeSend" /\ frames'[n + 1].at \in DonePlaces
  BY <1>12
<1>. QED BY <1>11, <1>14, <1>15, <1>18, <1>19, <1>20, RequestStep

LEMMA AjaxThrowStep == ASSUME AjaxInv, AjaxThrow PROVE AjaxInv'
<1>. DEFINE r == Innermost.r
            at == Innermost.at
            x == [xhr[r] EXCEPT !.settled = @ \/ at = "settle",
                                !.window = @ /\ at # "settle",
                                !.completed = @ \/ at = "complete"]
<1>1. frames # <<>> /\ broken' = TRUE /\ frames' = <<>>
      /\ UNCHANGED <<options, wire, active, heard>>
  BY DEF AjaxThrow
<1>2. r \in Request /\ Fits(at, xhr[r], heard[r])
  BY <1>1, TopOfStack
<1>3. xhr[r] \in Xhr
  BY <1>2, Typed
<1>4. xhr' = [xhr EXCEPT ![r] = x]
  BY <1>2, Typed DEF AjaxThrow, Xhr
<1>5. x \in Xhr
  <2>1. /\ (xhr[r].settled \/ at = "settle") \in BOOLEAN
        /\ (xhr[r].window /\ at # "settle") \in BOOLEAN
        /\ (xhr[r].completed \/ at = "complete") \in BOOLEAN
    OBVIOUS
  <2>. QED BY <1>3, <2>1 DEF Xhr
<1>6. /\ x.called = xhr[r].called /\ x.state = xhr[r].state
      /\ x.fireGlobals = xhr[r].fireGlobals
      /\ at \notin DonePlaces => x.settled = xhr[r].settled /\ x.completed = xhr[r].completed
  BY <1>3 DEF Xhr, DonePlaces
<1>. HIDE DEF x
<1>7. xhr'[r] = x /\ xhr' \in [Request -> Xhr] /\ \A q \in Request \ {r} : xhr'[q] = xhr[q]
  BY <1>2, <1>4, <1>5, Typed
<1>8. ASSUME NEW q \in Request PROVE RequestFits(q)'
  <2>1. CASE q # r
    BY <1>1, <1>7, <2>1, Typed DEF RequestFits
  <2>2. CASE q = r
    <3>1. Begun(x, wire'[r])
      BY <1>2, <1>6 DEF Begun, Fits
    <3>2. x.state # 2 => Silent(x, heard'[r])
      BY <1>1, <1>2, <1>6, Typed DEF RequestFits, Silent, Fits
    <3>. QED BY <1>1, <1>7, <2>2, <3>1, <3>2 DEF RequestFits
  <2>. QED BY <2>1, <2>2
<1>9. IsFiniteSet(Owing')
  <2>1. DOMAIN frames' = {}
    BY <1>1
  <2>2. Owing' \subseteq Owing
    BY <1>2, <1>6, <1>7, <2>1 DEF Owing
  <2>. QED BY <2>2, FS_Subset DEF AjaxInv, ActiveIsOwed
<1>10. /\ options' \in [Request -> Options] /\ wire' \in [Request -> Wires]
       /\ active' \in Int /\ heard' \in [Request -> Said]
  BY <1>1, <1>2, Typed
<1>11. frames' \in Seq(Frames) /\ DOMAIN frames' = {}
  BY <1>1
<1>12. AjaxTypeOK'
  BY <1>7, <1>10, <1>11 DEF AjaxTypeOK, Xhr, Wires
<1>. QED BY <1>1, <1>8, <1>9, <1>10, <1>11, <1>12
         DEF AjaxInv, FramesFit, OneFrameEach, ActiveIsOwed

LEMMA AjaxStarts == AjaxInit => AjaxInv
<1>. SUFFICES ASSUME AjaxInit PROVE AjaxInv
  OBVIOUS
<1>1. frames \in Seq(Frames) /\ DOMAIN frames = {}
  BY DEF AjaxInit
<1>2. New \in Xhr /\ ~New.called /\ ~New.timer /\ New.state = 0 /\ ~New.fireGlobals
      /\ ~New.settled /\ ~New.completed
  BY DEF New, Xhr
<1>3. xhr \in [Request -> Xhr] /\ \A r \in Request : xhr[r] = New
  BY <1>2 DEF AjaxInit
<1>4. AjaxTypeOK
  BY <1>1, <1>3 DEF AjaxInit, AjaxTypeOK, Xhr
<1>5. heard \in [Request -> Said]
  BY DEF AjaxInit, Said
<1>6. ASSUME NEW r \in Request PROVE RequestFits(r)
  BY <1>2, <1>3 DEF AjaxInit, RequestFits, Begun, Silent
<1>7. ActiveIsOwed
  <2>1. Owing = {}
    BY <1>2, <1>3, <1>1 DEF Owing
  <2>. QED BY <2>1, FS_EmptySet DEF AjaxInit, ActiveIsOwed
<1>. QED BY <1>1, <1>4, <1>5, <1>6, <1>7 DEF AjaxInv, FramesFit, OneFrameEach

LEMMA AjaxSteps == AjaxInv /\ [AjaxNext]_ajaxVars => AjaxInv'
<1>. SUFFICES ASSUME AjaxInv, [AjaxNext]_ajaxVars PROVE AjaxInv'
  OBVIOUS
<1>1. ASSUME NEW r \in Request, Request_(r) \/ Abort(r) \/ Answer(r) \/ ScriptComes(r)
                                 \/ ScriptFails(r) \/ Timeout(r)
      PROVE  AjaxInv'
  BY <1>1, RequestCalledStep, AbortStep, AnswerStep, ScriptComesStep, ScriptFailsStep, TimeoutStep
<1>2. CASE AjaxStep
  BY <1>2, AjaxStartStep, BeforeSendStep, AjaxSendStep, SendStep, SettleStep, AjaxSuccessStep,
     CompleteStep, AjaxCompleteStep, AjaxStopStep DEF AjaxStep
<1>3. CASE AjaxThrow
  BY <1>3, AjaxThrowStep
<1>4. CASE UNCHANGED ajaxVars
  BY <1>4 DEF ajaxVars, AjaxInv, AjaxTypeOK, FramesFit, FrameFits, OneFrameEach, RequestFits,
              BeingDone, ActiveIsOwed, Owing
<1>. QED BY <1>1, <1>2, <1>3, <1>4 DEF AjaxNext

(***************************************************************************)
(* What is said so far begins one of the verdicts.                         *)
(***************************************************************************)
LEMMA SaidBegins == \A w \in Said : \E v \in Verdicts : IsPrefix(w, v)
<1>1. IsPrefix(<<>>, <<"success", "complete">>)
  BY DEF IsPrefix
<1>2. IsPrefix(<<"success">>, <<"success", "complete">>)
  BY DEF IsPrefix
<1>3. IsPrefix(<<"error">>, <<"error", "complete">>)
  BY DEF IsPrefix
<1>4. IsPrefix(<<"success", "complete">>, <<"success", "complete">>)
  BY DEF IsPrefix
<1>5. IsPrefix(<<"error", "complete">>, <<"error", "complete">>)
  BY DEF IsPrefix
<1>. QED BY <1>1, <1>2, <1>3, <1>4, <1>5 DEF Said, OneWord, Verdicts

LEMMA AjaxPromises == AjaxInv => RequestsAreTold
<1>. SUFFICES ASSUME AjaxInv PROVE RequestsAreTold
  OBVIOUS
<1>1. AnsweredOnce
  <2>1. ASSUME NEW r \in Request PROVE \E v \in Verdicts : IsPrefix(heard[r], v)
    BY SaidBegins, Typed
  <2>2. ASSUME NEW r \in Request, frames = <<>>, ~broken, xhr[r].state = 2
        PROVE  ToldAll(xhr[r], heard[r])
    <3>1. ~BeingDone(r)
      BY <2>2 DEF BeingDone
    <3>. QED BY <2>2, <3>1, Typed DEF RequestFits
  <2>. QED BY <2>1, <2>2 DEF AnsweredOnce, ToldAll
<1>2. ActiveIsCounted
  <2>1. SUFFICES ASSUME frames = <<>>, ~broken PROVE active = Cardinality(UnderWay)
    BY DEF ActiveIsCounted
  <2>2. DOMAIN frames = {}
    BY <2>1
  <2>3. Owing = UnderWay
    BY <2>2 DEF Owing, UnderWay
  <2>. QED BY <2>1, <2>3 DEF AjaxInv, ActiveIsOwed
<1>. QED BY <1>1, <1>2 DEF AjaxInv, RequestsAreTold

(***************************************************************************)
(* Any number of requests, with any options, in any order of the calls,    *)
(* answers, timeouts, aborts and throws: the callbacks of each hear of it  *)
(* once, and jQuery.active is right whenever no code runs.                 *)
(***************************************************************************)
THEOREM RequestsHearOnce == AjaxSpec => []RequestsAreTold
<1>1. AjaxInit => AjaxInv
  BY AjaxStarts
<1>2. AjaxInv /\ [AjaxNext]_ajaxVars => AjaxInv'
  BY AjaxSteps
<1>3. AjaxInv => RequestsAreTold
  BY AjaxPromises
<1>. QED BY <1>1, <1>2, <1>3, PTL DEF AjaxSpec
-------------------------------------------------------------------------------
(* The address: any addresses, redirects, browser and number of moves. *)

Windows == [native : BOOLEAN, hash : Hashes, events : Nat, timers : Nat]
Proxies == [native : BOOLEAN, interval : BOOLEAN, polled : Hashes]
Applications == [running : BOOLEAN, bound : BOOLEAN, last : Hashes \cup {NoValue}]
Routings == [shown : Hashes \cup {NoValue}, moves : Nat, late : SUBSET DOMAIN RedirectOf,
             left : BOOLEAN, missed : BOOLEAN]

(***************************************************************************)
(* Something will look at the address again: an event of the browser, or   *)
(* without one a timeout of the poll or the poll itself.                   *)
(***************************************************************************)
WillLook(window, proxy) ==
    IF window.native THEN window.events > 0
    ELSE window.timers > 0 \/ proxy.polled # window.hash

(***************************************************************************)
(* The route of the address has run or something will look; and if the     *)
(* address is the last one its route has run, since whoever looks then     *)
(* does nothing.                                                           *)
(***************************************************************************)
Followed(window, proxy, last, shown) ==
    /\ last = window.hash => shown = window.hash
    /\ shown # window.hash => WillLook(window, proxy)

AddressInv ==
    /\ address_ \in Windows
    /\ hashProxy \in Proxies
    /\ application \in Applications
    /\ routed \in Routings
    /\ ~address_.native => address_.events = 0
    /\ ~address_.native /\ ~routed.left => hashProxy.interval
    /\ application.running => application.bound /\ ~routed.left
    /\ ~application.running => ~application.bound
    /\ application.running /\ ~routed.missed =>
          Followed(address_, hashProxy, application.last, routed.shown)

LEMMA MovedIs ==
    ASSUME NEW w \in Windows, NEW hash \in Hashes, ~w.native => w.events = 0
    PROVE  /\ Moved_(w, hash) \in Windows
           /\ Moved_(w, hash).native = w.native /\ Moved_(w, hash).hash = hash
           /\ Moved_(w, hash).timers = w.timers
           /\ ~w.native => Moved_(w, hash).events = 0
           /\ w.native /\ hash # w.hash => Moved_(w, hash).events > 0
<1>1. CASE hash = w.hash
  BY <1>1 DEF Moved_
<1>2. CASE hash # w.hash
  <2>1. Moved_(w, hash) = [w EXCEPT !.hash = hash,
                                    !.events = IF w.native THEN w.events + 1 ELSE w.events]
    BY <1>2 DEF Moved_, Windows
  <2>2. w.events \in Nat /\ w.events + 1 \in Nat /\ w.events + 1 > 0
    BY DEF Windows
  <2>3. CASE w.native
    BY <1>2, <2>1, <2>2, <2>3 DEF Windows
  <2>4. CASE ~w.native
    BY <1>2, <2>1, <2>2, <2>4 DEF Windows
  <2>. QED BY <2>3, <2>4
<1>. QED BY <1>1, <1>2

(***************************************************************************)
(* _checkLocation leaves the address followed, unless its redirect was     *)
(* one the poll cannot see.                                                *)
(***************************************************************************)
LEMMA Looks ==
    ASSUME AddressInv, NEW w \in Windows, NEW last \in Hashes \cup {NoValue},
           NEW late \in SUBSET DOMAIN RedirectOf, CheckLocation(w, last, late),
           w.native = address_.native, ~w.native => w.events = 0,
           last = w.hash /\ ~routed.missed => routed.shown = w.hash,
           ~routed.left, hashProxy' \in Proxies, hashProxy'.polled = hashProxy.polled,
           ~w.native => hashProxy'.interval
    PROVE  AddressInv'
<1>1. /\ application \in Applications /\ routed \in Routings
      /\ hashProxy \in Proxies /\ address_ \in Windows
  BY DEF AddressInv
<1>2. CASE last = w.hash
  <2>1. /\ address_' = w
        /\ application' = [application EXCEPT !.running = TRUE, !.bound = TRUE, !.last = last]
        /\ routed' = [routed EXCEPT !.late = late]
    BY <1>2 DEF CheckLocation
  <2>2. /\ application' \in Applications
        /\ application'.running /\ application'.bound /\ application'.last = last
    BY <1>1, <2>1 DEF Applications
  <2>3. /\ routed' \in Routings
        /\ routed'.shown = routed.shown /\ routed'.missed = routed.missed /\ ~routed'.left
    BY <1>1, <2>1 DEF Routings
  <2>. QED BY <1>2, <2>1, <2>2, <2>3 DEF AddressInv, Followed
<1>3. CASE last # w.hash
  <2>1. application' = [application EXCEPT !.running = TRUE, !.bound = TRUE, !.last = w.hash]
    BY <1>3 DEF CheckLocation
  <2>2. /\ application' \in Applications
        /\ application'.running /\ application'.bound /\ application'.last = w.hash
    BY <1>1, <2>1 DEF Applications, Windows
  <2>3. w.hash \in Hashes
    BY DEF Windows
  <2>4. CASE /\ address_' = w
             /\ routed' = [routed EXCEPT !.shown = w.hash,
                                         !.late = late \cup ({w.hash} \cap DOMAIN RedirectOf)]
    <3>1. /\ routed' \in Routings
          /\ routed'.shown = w.hash /\ routed'.missed = routed.missed /\ ~routed'.left
      BY <1>1, <2>3, <2>4 DEF Routings
    <3>. QED BY <2>2, <2>4, <3>1 DEF AddressInv, Followed
  <2>5. CASE /\ w.hash \in DOMAIN RedirectOf
             /\ address_' = Moved_(w, RedirectOf[w.hash])
             /\ routed' = [routed EXCEPT !.shown = w.hash, !.late = late,
                                         !.missed = @ \/ Unpolled(w.hash)]
    <3>1. RedirectOf[w.hash] \in Hashes \ {w.hash}
      BY <2>5, SammyAssumption
    <3>2. /\ address_' \in Windows /\ address_'.native = w.native
          /\ address_'.hash # w.hash
          /\ ~w.native => address_'.events = 0
          /\ w.native => address_'.events > 0
      BY <2>5, <3>1, MovedIs
    <3>3. /\ routed' \in Routings
          /\ routed'.shown = w.hash /\ ~routed'.left
          /\ ~routed'.missed => ~Unpolled(w.hash)
      BY <1>1, <2>3, <2>5 DEF Routings, Unpolled
    <3>4. ~routed'.missed /\ ~w.native => hashProxy'.polled = w.hash
      BY <3>3 DEF Unpolled
    <3>. QED BY <2>2, <3>2, <3>3, <3>4 DEF AddressInv, Followed, WillLook
  <2>. QED BY <1>3, <2>4, <2>5 DEF CheckLocation
<1>. QED BY <1>2, <1>3

LEMMA RunStep == ASSUME AddressInv, RunApplication PROVE AddressInv'
<1>. DEFINE hash == IF address_.hash = NoHash THEN HomeHash ELSE address_.hash
            w == Moved_(address_, hash)
<1>1. hash \in Hashes /\ address_ \in Windows
  BY SammyAssumption DEF AddressInv, Windows
<1>2. ~address_.native => address_.events = 0 /\ hashProxy.interval
  BY DEF AddressInv, RunApplication
<1>. HIDE DEF hash
<1>3. /\ w \in Windows /\ w.native = address_.native /\ w.hash = hash
      /\ ~w.native => w.events = 0
  BY <1>1, <1>2, MovedIs
<1>4. CheckLocation(w, NoValue, {}) /\ ~routed.left /\ hashProxy' = hashProxy
  BY DEF RunApplication, hash
<1>5. NoValue # w.hash
  BY <1>1, <1>3, SammyAssumption
<1>6. hashProxy \in Proxies /\ {} \in SUBSET DOMAIN RedirectOf
  BY DEF AddressInv
<1>. HIDE DEF w
<1>. QED BY <1>2, <1>3, <1>4, <1>5, <1>6, Looks

(***************************************************************************)
(* Of the window only the events and timeouts to come may have changed.    *)
(***************************************************************************)
LEMMA HashChangeStep ==
    ASSUME AddressInv, NEW native \in BOOLEAN, NEW w \in Windows, HashChange(native, w),
           w.native = address_.native, w.hash = address_.hash,
           ~w.native => w.events = 0 /\ ~native
    PROVE  AddressInv'
<1>1. CASE ~application.bound
  <2>1. address_' = w /\ UNCHANGED <<hashProxy, application, routed>>
    BY <1>1 DEF HashChange
  <2>2. ~application.running
    BY <1>1 DEF AddressInv
  <2>. QED BY <2>1, <2>2 DEF AddressInv
<1>2. CASE application.bound
  <2>1. application.running /\ ~routed.left
    BY <1>2 DEF AddressInv
  <2>2. CheckLocation(w, application.last, routed.late)
    BY <1>2 DEF HashChange
  <2>3. /\ hashProxy' = IF ~hashProxy.native /\ native
                        THEN [hashProxy EXCEPT !.native = TRUE, !.interval = FALSE]
                        ELSE hashProxy
        /\ hashProxy \in Proxies /\ (~address_.native => hashProxy.interval)
    BY <1>2, <2>1 DEF HashChange, IsNative, AddressInv
  <2>4. /\ hashProxy' \in Proxies /\ hashProxy'.polled = hashProxy.polled
        /\ ~w.native => hashProxy'.interval
    BY <2>3 DEF Proxies
  <2>5. application.last = w.hash /\ ~routed.missed => routed.shown = w.hash
    BY <2>1 DEF AddressInv, Followed
  <2>6. application.last \in Hashes \cup {NoValue} /\ routed.late \in SUBSET DOMAIN RedirectOf
    BY DEF AddressInv, Applications, Routings
  <2>. QED BY <2>1, <2>2, <2>4, <2>5, <2>6, Looks
<1>. QED BY <1>1, <1>2

LEMMA BrowserTellsStep == ASSUME AddressInv, BrowserTells PROVE AddressInv'
<1>. DEFINE w == [address_ EXCEPT !.events = @ - 1]
<1>1. address_ \in Windows /\ address_.events > 0 /\ address_.native
  BY DEF AddressInv, BrowserTells
<1>2. w \in Windows /\ w.native /\ w.hash = address_.hash
  BY <1>1 DEF Windows
<1>3. HashChange(TRUE, w)
  BY DEF BrowserTells
<1>. HIDE DEF w
<1>. QED BY <1>1, <1>2, <1>3, HashChangeStep

LEMMA PollTellsStep == ASSUME AddressInv, PollTells PROVE AddressInv'
<1>. DEFINE w == [address_ EXCEPT !.timers = @ - 1]
<1>1. /\ address_ \in Windows /\ address_.timers > 0
      /\ ~address_.native => address_.events = 0
  BY DEF AddressInv, PollTells
<1>2. /\ w \in Windows /\ w.native = address_.native /\ w.hash = address_.hash
      /\ w.events = address_.events
  BY <1>1 DEF Windows
<1>3. HashChange(FALSE, w)
  BY DEF PollTells
<1>. HIDE DEF w
<1>. QED BY <1>1, <1>2, <1>3, HashChangeStep

LEMMA HashCheckStep == ASSUME AddressInv, HashCheck PROVE AddressInv'
<1>1. /\ address_' = [address_ EXCEPT !.timers = @ + 1]
      /\ hashProxy' = [hashProxy EXCEPT !.polled = address_.hash]
      /\ UNCHANGED <<application, routed>>
      /\ address_ \in Windows /\ hashProxy \in Proxies
  BY DEF HashCheck, AddressInv
<1>2. /\ address_' \in Windows /\ address_'.native = address_.native
      /\ address_'.hash = address_.hash /\ address_'.events = address_.events
      /\ address_'.timers > 0
  BY <1>1 DEF Windows
<1>3. hashProxy' \in Proxies /\ hashProxy'.interval = hashProxy.interval
  BY <1>1 DEF Proxies, Windows
<1>. QED BY <1>1, <1>2, <1>3 DEF AddressInv, Followed, WillLook

LEMMA UserMovesStep == ASSUME AddressInv, NEW hash \in Hashes, UserMoves(hash) PROVE AddressInv'
<1>1. /\ hash # address_.hash /\ address_' = Moved_(address_, hash)
      /\ UNCHANGED <<hashProxy, application>>
      /\ address_ \in Windows /\ routed \in Routings /\ (~address_.native => address_.events = 0)
  BY DEF UserMoves, AddressInv
<1>2. /\ address_' \in Windows /\ address_'.native = address_.native /\ address_'.hash = hash
      /\ ~address_.native => address_'.events = 0
      /\ address_.native => address_'.events > 0
  BY <1>1, MovedIs
<1>3. /\ routed' \in Routings /\ routed'.shown = routed.shown /\ routed'.left = routed.left
      /\ ~routed'.missed => ~routed.missed /\ ~Unpolled(routed.shown) /\ ~ReturnsTo(hash)
  <2>. DEFINE missed == routed.missed \/ Unpolled(routed.shown) \/ ReturnsTo(hash)
  <2>1. missed \in BOOLEAN
    OBVIOUS
  <2>2. routed' = [routed EXCEPT !.moves = routed.moves + 1, !.missed = missed]
    BY <1>1 DEF UserMoves, Routings
  <2>3. routed.moves + 1 \in Nat
    BY <1>1 DEF Routings
  <2>. HIDE DEF missed
  <2>4. routed' \in Routings /\ routed'.shown = routed.shown /\ routed'.left = routed.left
        /\ routed'.missed = missed
    BY <1>1, <2>1, <2>2, <2>3 DEF Routings
  <2>. QED BY <2>4 DEF missed
<1>4. ~routed'.missed => /\ ~address_.native => hashProxy.polled = routed.shown
                         /\ application.last = hash => routed.shown = hash
  BY <1>3 DEF Unpolled, ReturnsTo
<1>. QED BY <1>1, <1>2, <1>3, <1>4 DEF AddressInv, Followed, WillLook

LEMMA RedirectLateStep ==
    ASSUME AddressInv, NEW from \in Hashes, RedirectLate(from) PROVE AddressInv'
<1>. DEFINE to == RedirectOf[from]
<1>1. from \in DOMAIN RedirectOf /\ hashProxy' = hashProxy
  BY DEF RedirectLate, AddressInv, Routings
<1>2. to \in Hashes /\ to # from
  BY <1>1, SammyAssumption
<1>3. /\ address_ \in Windows /\ routed \in Routings /\ application \in Applications
      /\ hashProxy \in Proxies /\ (~address_.native => address_.events = 0)
  BY DEF AddressInv
<1>4. CASE address_.hash = to /\ application.running
  <2>1. CheckLocation(address_, from, routed.late \ {from})
    BY <1>4 DEF RedirectLate, LastIsOwn
  <2>2. routed.late \ {from} \in SUBSET DOMAIN RedirectOf
    BY <1>3 DEF Routings
  <2>3. ~routed.left /\ (~address_.native => hashProxy.interval)
    BY <1>4 DEF AddressInv
  <2>. QED BY <1>1, <1>2, <1>3, <1>4, <2>1, <2>2, <2>3, Looks
<1>5. CASE ~(address_.hash = to /\ application.running)
  <2>1. /\ address_' = Moved_(address_, to)
        /\ application' = [application EXCEPT !.last = from]
        /\ routed' = [routed EXCEPT !.late = @ \ {from},
                                    !.missed = @ \/ Unpolled(routed.shown)]
    BY <1>5 DEF RedirectLate, LastIsOwn
  <2>2. /\ address_' \in Windows /\ address_'.native = address_.native /\ address_'.hash = to
        /\ ~address_.native => address_'.events = 0
        /\ address_.native /\ to # address_.hash => address_'.events > 0
    BY <1>2, <1>3, <2>1, MovedIs
  <2>3. /\ application' \in Applications /\ application'.running = application.running
        /\ application'.bound = application.bound /\ application'.last = from
    BY <1>3, <2>1 DEF Applications
  <2>4. /\ routed' \in Routings /\ routed'.shown = routed.shown /\ routed'.left = routed.left
        /\ ~routed'.missed => ~routed.missed /\ ~Unpolled(routed.shown)
    BY <1>3, <2>1 DEF Routings, Unpolled
  <2>5. ~routed'.missed /\ ~address_.native => hashProxy.polled = routed.shown
    BY <2>4 DEF Unpolled
  <2>. QED BY <1>1, <1>2, <1>5, <2>2, <2>3, <2>4, <2>5 DEF AddressInv, Followed, WillLook
<1>. QED BY <1>4, <1>5

LEMMA UnloadStep == ASSUME AddressInv, Unload PROVE AddressInv'
<1>1. /\ application' = [application EXCEPT !.running = FALSE, !.bound = FALSE]
      /\ hashProxy' = [hashProxy EXCEPT !.interval = FALSE]
      /\ routed' = [routed EXCEPT !.left = TRUE]
      /\ UNCHANGED address_
      /\ routed \in Routings /\ application \in Applications /\ hashProxy \in Proxies
  BY DEF Unload, AddressInv
<1>2. application' \in Applications /\ ~application'.running /\ ~application'.bound
  BY <1>1 DEF Applications
<1>3. hashProxy' \in Proxies /\ routed' \in Routings /\ routed'.left
  BY <1>1 DEF Proxies, Routings
<1>. QED BY <1>1, <1>2, <1>3 DEF AddressInv

(***************************************************************************)
(* Whatever the addresses, the redirects between them, the browser and the *)
(* order in which it, the poll, the user and the answers come: a console   *)
(* with nothing left to come shows the route of its address.               *)
(***************************************************************************)
THEOREM AddressesAreFollowed == AddressSpec => []AddressIsRouted
<1>1. AddressInit => AddressInv
  <2>. SUFFICES ASSUME AddressInit PROVE AddressInv
    OBVIOUS
  <2>1. PICK native \in BOOLEAN, hash \in Hashes :
          /\ address_ = [native |-> native, hash |-> hash, events |-> 0, timers |-> 1]
          /\ hashProxy = [native |-> FALSE, interval |-> TRUE, polled |-> hash]
    BY DEF AddressInit
  <2>2. address_ \in Windows /\ hashProxy \in Proxies /\ hashProxy.interval
        /\ address_.events = 0
    BY <2>1 DEF Windows, Proxies
  <2>3. application \in Applications /\ ~application.running /\ ~application.bound
    BY DEF AddressInit, NewApplication, Applications
  <2>4. routed \in Routings
    BY DEF AddressInit, Routings
  <2>. QED BY <2>2, <2>3, <2>4 DEF AddressInv
<1>2. AddressInv /\ [AddressNext]_addressVars => AddressInv'
  <2>. SUFFICES ASSUME AddressInv, [AddressNext]_addressVars PROVE AddressInv'
    OBVIOUS
  <2>1. CASE RunApplication \/ HashCheck \/ BrowserTells \/ PollTells \/ Unload
    BY <2>1, RunStep, HashCheckStep, BrowserTellsStep, PollTellsStep, UnloadStep
  <2>2. ASSUME NEW hash \in Hashes, UserMoves(hash) \/ RedirectLate(hash) PROVE AddressInv'
    BY <2>2, UserMovesStep, RedirectLateStep
  <2>3. CASE UNCHANGED addressVars
    BY <2>3 DEF addressVars, AddressInv
  <2>. QED BY <2>1, <2>2, <2>3 DEF AddressNext
<1>3. AddressInv => AddressIsRouted
  BY DEF AddressInv, AddressIsRouted, NothingToCome, Followed, WillLook, Windows
<1>. QED BY <1>1, <1>2, <1>3, PTL DEF AddressSpec

-------------------------------------------------------------------------------
(* The queues of Sammy's RenderContexts: any number of them, with any chains of   *)
(* functions that load what the server has.                                       *)

ChainedOf(p) == ToSet(p.first) \cup ToSet(p.later)
Chained == UNION {ChainedOf(p) : p \in Programs}
Chainable == Chained \cup {CallOp(NoValue)}

Seen == [put : Seq(Chainable), first : Seq(Chainable), later : Seq(Chainable), begun : Seq(Nat),
         ended : SUBSET Nat, broken : BOOLEAN, careless : BOOLEAN]

IsContext(r) ==
    /\ r = [waiting |-> r.waiting, callbacks |-> r.callbacks, content |-> r.content,
            previous |-> r.previous, engine |-> r.engine]
    /\ r.waiting \in BOOLEAN /\ r.callbacks \in Seq(Nat)

RendersTyped ==
    /\ renders = [c \in RenderContexts |-> renders[c]]
    /\ \A c \in RenderContexts : IsContext(renders[c])
    /\ renderTimers \in Seq(RenderContexts \X Nat)
    /\ renderAsks \subseteq RenderContexts \X Nat
    /\ renderSeen \in [RenderContexts -> Seen]
    /\ templateCache = [l \in DOMAIN TemplateOf |-> templateCache[l]]
    /\ \A l \in DOMAIN TemplateOf : templateCache[l] \in {NoValue, TemplateOf[l]}

(***************************************************************************)
(* A context has no timeout, or one for the place that is next.            *)
(***************************************************************************)
NoTimer(timers, c) == \A j \in DOMAIN timers : timers[j][1] # c
OneTimer(timers, c, i) ==
    \E j \in DOMAIN timers : /\ timers[j] = <<c, i>>
                             /\ \A l \in DOMAIN timers : timers[l][1] = c => l = j

PlacesFrom(k, n) == [j \in 1..(n - k) |-> k + j]

(***************************************************************************)
(* Of n places k are over: all, or the next one has its timeout.           *)
(***************************************************************************)
Stands(c, r, timers, n, k) ==
    \/ n = k /\ ~r.waiting /\ r.callbacks = <<>> /\ NoTimer(timers, c)
    \/ k < n /\ r.waiting /\ r.callbacks = PlacesFrom(k + 1, n) /\ OneTimer(timers, c, k + 1)

(***************************************************************************)
(* The contents of a context are those of a piece of work.                 *)
(***************************************************************************)
Has(r, w, engine) == r.content = w.content /\ r.previous = w.previous /\ r.engine = engine

(***************************************************************************)
(* The k-th place has begun and is not over: its answer is to come, unless *)
(* it failed.                                                              *)
(***************************************************************************)
Busy(c, r, timers, asks, seen, n, k) ==
    LET op == seen.put[k]
        w == Made(seen.put, k - 1)
    IN  /\ k > 0 /\ r.waiting /\ r.callbacks = PlacesFrom(k, n) /\ NoTimer(timers, c)
        /\ \A a \in asks : a[1] = c => a = <<c, k>>
        /\ seen.broken \/ <<c, k>> \in asks
        /\ 1..(k - 1) \subseteq seen.ended
        /\ op.do \notin {"call", "interpolate", "each", "swap"}
        /\ Has(r, w, IF op.do = "load" THEN EngineOf[op.at] ELSE w.engine)

Rests_(c, r, timers, asks, seen, n, k) ==
    LET w == Made(seen.put, k)
    IN  /\ Stands(c, r, timers, n, k)
        /\ \A a \in asks : a[1] # c
        /\ 1..k \subseteq seen.ended
        /\ Has(r, w, w.engine)

InTurn(c, r, timers, asks, seen) ==
    LET k == Len(seen.begun)
        n == Len(seen.put)
    IN  ~seen.careless =>
          /\ k <= n
          /\ \A j \in 1..k : seen.begun[j] = j
          /\ seen.first # <<>> => n = 0
          /\ \/ Rests_(c, r, timers, asks, seen, n, k)
             \/ Busy(c, r, timers, asks, seen, n, k)

RendersInv ==
    /\ RendersTyped
    /\ \A c \in RenderContexts :
          InTurn(c, renders[c], renderTimers, renderAsks, renderSeen[c])
    /\ swapped.at > 0 =>
         /\ swapped.by \in RenderContexts
         /\ ~renderSeen[swapped.by].careless =>
              /\ swapped.at \in 1..Len(renderSeen[swapped.by].put)
              /\ PageIsRendered

(***************************************************************************)
(* What a chain makes is defined place by place.                           *)
(***************************************************************************)
IsMade(M, ops, n) ==
    M = [k \in 0..n |-> IF k = 0 THEN NewContext ELSE Work(M[k - 1], ops[k])]

LEMMA MadeExists ==
    ASSUME NEW ops, NEW n \in Nat
    PROVE  \E M : IsMade(M, ops, n)
<1>. DEFINE T == {m \in Nat : ~ \E M : IsMade(M, ops, m)}
<1>. SUFFICES ASSUME T # {} PROVE FALSE
  OBVIOUS
<1>1. PICK m \in T : \A y \in T : m <= y
  <2>1. T \subseteq Nat
    OBVIOUS
  <2>. HIDE DEF T
  <2>. QED BY <2>1, LeastNatural
<1>2. m # 0
  <2>. DEFINE M == [k \in 0..0 |-> NewContext]
  <2>1. IsMade(M, ops, 0)
    BY DEF IsMade
  <2>. HIDE DEF M
  <2>. QED BY <2>1, <1>1
<1>3. m \in Nat /\ m - 1 \in Nat /\ ~(m <= m - 1)
  BY <1>1, <1>2
<1>4. PICK M : IsMade(M, ops, m - 1)
  BY <1>1, <1>3
<1>. DEFINE N == [k \in 0..m |-> IF k = m THEN Work(M[m - 1], ops[m]) ELSE M[k]]
<1>5. ASSUME NEW k \in 0..m
      PROVE  N[k] = IF k = 0 THEN NewContext ELSE Work(N[k - 1], ops[k])
  <2>1. CASE k = m
    <3>1. m - 1 \in 0..m /\ m - 1 # m /\ N[m - 1] = M[m - 1]
      BY <1>3
    <3>. QED BY <2>1, <1>2, <3>1
  <2>2. CASE k # m /\ k # 0
    <3>1. k \in 0..(m - 1) /\ k - 1 \in 0..m /\ k - 1 # m
      BY <2>2, <1>3
    <3>2. M[k] = Work(M[k - 1], ops[k])
      BY <2>2, <3>1, <1>4 DEF IsMade
    <3>. QED BY <2>2, <3>1, <3>2
  <2>3. CASE k # m /\ k = 0
    <3>1. M[0] = NewContext
      BY <1>3, <1>4 DEF IsMade
    <3>. QED BY <2>3, <3>1
  <2>. QED BY <2>1, <2>2, <2>3
<1>6. N = [k \in 0..m |-> N[k]]
  OBVIOUS
<1>. HIDE DEF N
<1>7. IsMade(N, ops, m)
  BY <1>5, <1>6 DEF IsMade
<1>. QED BY <1>1, <1>7

LEMMA MadeUnique ==
    ASSUME NEW a, NEW b, NEW n \in Nat, NEW m \in Nat, NEW M, NEW N,
           IsMade(M, a, n), IsMade(N, b, m),
           NEW l \in Nat, l <= n, l <= m, \A k \in 1..l : a[k] = b[k]
    PROVE  M[l] = N[l]
<1>. DEFINE T == {k \in 0..l : M[k] # N[k]}
<1>. SUFFICES ASSUME T # {} PROVE FALSE
  OBVIOUS
<1>1. PICK x \in T : \A y \in T : x <= y
  <2>1. T \subseteq Nat
    OBVIOUS
  <2>. HIDE DEF T
  <2>. QED BY <2>1, LeastNatural
<1>2. x \in 0..n /\ x \in 0..m
  BY <1>1
<1>3. x # 0
  BY <1>1, <1>2 DEF IsMade
<1>4. x - 1 \in 0..l /\ ~(x <= x - 1) /\ x \in 1..l
  BY <1>1, <1>3
<1>5. M[x - 1] = N[x - 1]
  BY <1>1, <1>4
<1>6. M[x] = Work(M[x - 1], a[x]) /\ N[x] = Work(N[x - 1], b[x])
  BY <1>2, <1>3 DEF IsMade
<1>. QED BY <1>1, <1>4, <1>5, <1>6

LEMMA MadeIs ==
    ASSUME NEW ops, NEW n \in Nat
    PROVE  \E M : IsMade(M, ops, n) /\ Made(ops, n) = M[n]
<1>. DEFINE M == CHOOSE M : IsMade(M, ops, n)
<1>1. IsMade(M, ops, n)
  BY MadeExists
<1>2. Made(ops, n) = M[n]
  BY DEF Made, IsMade
<1>. QED BY <1>1, <1>2

LEMMA MadeNone == ASSUME NEW ops PROVE Made(ops, 0) = NewContext
<1>1. PICK M : IsMade(M, ops, 0) /\ Made(ops, 0) = M[0]
  BY MadeIs
<1>. QED BY <1>1 DEF IsMade

LEMMA MadeNext ==
    ASSUME NEW ops, NEW n \in Nat \ {0}
    PROVE  Made(ops, n) = Work(Made(ops, n - 1), ops[n])
<1>1. PICK M : IsMade(M, ops, n) /\ Made(ops, n) = M[n]
  BY MadeIs
<1>2. PICK N : IsMade(N, ops, n - 1) /\ Made(ops, n - 1) = N[n - 1]
  BY MadeIs
<1>3. M[n - 1] = N[n - 1]
  BY <1>1, <1>2, MadeUnique
<1>4. n \in 0..n /\ n # 0
  OBVIOUS
<1>5. M[n] = Work(M[n - 1], ops[n])
  BY <1>1, <1>4 DEF IsMade
<1>. QED BY <1>1, <1>2, <1>3, <1>5

LEMMA MadeSame ==
    ASSUME NEW a, NEW b, NEW n \in Nat, \A k \in 1..n : a[k] = b[k]
    PROVE  Made(a, n) = Made(b, n)
<1>1. PICK M : IsMade(M, a, n) /\ Made(a, n) = M[n]
  BY MadeIs
<1>2. PICK N : IsMade(N, b, n) /\ Made(b, n) = N[n]
  BY MadeIs
<1>. QED BY <1>1, <1>2, MadeUnique

(***************************************************************************)
(* The timeouts of the other contexts stay when one of this context goes   *)
(* or comes.                                                               *)
(***************************************************************************)
LEMMA TimersAppended ==
    ASSUME NEW timers \in Seq(RenderContexts \X Nat), NEW c \in RenderContexts, NEW i \in Nat
    PROVE  /\ timers \o << <<c, i>> >> \in Seq(RenderContexts \X Nat)
           /\ NoTimer(timers, c) => OneTimer(timers \o << <<c, i>> >>, c, i)
           /\ \A d \in RenderContexts \ {c} : \A v \in Nat :
                /\ NoTimer(timers, d) => NoTimer(timers \o << <<c, i>> >>, d)
                /\ OneTimer(timers, d, v) => OneTimer(timers \o << <<c, i>> >>, d, v)
<1>. DEFINE all == timers \o << <<c, i>> >>
<1>1. /\ all \in Seq(RenderContexts \X Nat) /\ Len(all) = Len(timers) + 1
      /\ Len(timers) \in Nat
      /\ \A j \in 1..Len(all) : all[j] = IF j = Len(timers) + 1 THEN <<c, i>> ELSE timers[j]
  <2>1. << <<c, i>> >> \in Seq(RenderContexts \X Nat) /\ Len(<< <<c, i>> >>) = 1
        /\ << <<c, i>> >>[1] = <<c, i>>
    OBVIOUS
  <2>2. Len(timers) \in Nat
    OBVIOUS
  <2>3. /\ all \in Seq(RenderContexts \X Nat) /\ Len(all) = Len(timers) + 1
        /\ \A j \in 1..Len(timers) + 1 : all[j] =
              IF j <= Len(timers) THEN timers[j] ELSE << <<c, i>> >>[j - Len(timers)]
    BY <2>1, ConcatProperties
  <2>4. \A j \in 1..Len(timers) + 1 : all[j] = IF j = Len(timers) + 1 THEN <<c, i>> ELSE timers[j]
    <3>. HIDE DEF all
    <3>. SUFFICES ASSUME NEW j \in 1..Len(timers) + 1
                  PROVE  all[j] = IF j = Len(timers) + 1 THEN <<c, i>> ELSE timers[j]
      OBVIOUS
    <3>1. CASE j = Len(timers) + 1
      <4>1. j - Len(timers) = 1 /\ ~(j <= Len(timers))
        BY <2>2, <3>1
      <4>. QED BY <2>1, <2>3, <3>1, <4>1
    <3>2. CASE j # Len(timers) + 1
      <4>1. j <= Len(timers)
        BY <2>2, <3>2
      <4>. QED BY <2>3, <3>2, <4>1
    <3>. QED BY <3>1, <3>2
  <2>. QED BY <2>2, <2>3, <2>4
<1>2. DOMAIN all = 1..(Len(timers) + 1) /\ DOMAIN timers = 1..Len(timers)
  BY <1>1
<1>. HIDE DEF all
<1>3. <<c, i>>[1] = c /\ Len(all) \in 1..Len(all) /\ all[Len(all)] = <<c, i>>
  BY <1>1
<1>7. /\ \A l \in DOMAIN timers : l \in DOMAIN all /\ all[l] = timers[l]
      /\ \A l \in DOMAIN all : l \in DOMAIN timers \/ l = Len(all)
  BY <1>1, <1>2
<1>4. ASSUME NoTimer(timers, c) PROVE OneTimer(all, c, i)
  <2>1. \A l \in 1..Len(all) : all[l][1] = c => l = Len(all)
    BY <1>1, <1>2, <1>4 DEF NoTimer
  <2>. QED BY <1>1, <1>2, <1>3, <2>1 DEF OneTimer
<1>5. ASSUME NEW d \in RenderContexts \ {c}, NoTimer(timers, d) PROVE NoTimer(all, d)
  <2>1. all[Len(all)][1] # d
    BY <1>3
  <2>. QED BY <1>5, <1>7, <2>1 DEF NoTimer
<1>6. ASSUME NEW d \in RenderContexts \ {c}, NEW v \in Nat, OneTimer(timers, d, v)
      PROVE  OneTimer(all, d, v)
  <2>1. PICK j \in 1..Len(timers) :
            /\ timers[j] = <<d, v>>
            /\ \A l \in 1..Len(timers) : timers[l][1] = d => l = j
    BY <1>2, <1>6 DEF OneTimer
  <2>2. j \in DOMAIN all /\ all[j] = <<d, v>>
    BY <1>2, <1>7, <2>1
  <2>3. all[Len(all)][1] # d
    BY <1>3
  <2>4. \A l \in DOMAIN all : all[l][1] = d => l = j
    BY <1>2, <1>7, <2>1, <2>3
  <2>. QED BY <2>2, <2>4 DEF OneTimer
<1>. QED BY <1>1, <1>4, <1>5, <1>6 DEF all

LEMMA TimersTail ==
    ASSUME NEW timers \in Seq(RenderContexts \X Nat), timers # <<>>,
           NEW c \in RenderContexts, NEW i \in Nat, Head(timers) = <<c, i>>
    PROVE  /\ Tail(timers) \in Seq(RenderContexts \X Nat)
           /\ ~NoTimer(timers, c)
           /\ \A k \in Nat : OneTimer(timers, c, k) => k = i /\ NoTimer(Tail(timers), c)
           /\ \A d \in RenderContexts \ {c} : \A v \in Nat :
                /\ NoTimer(timers, d) => NoTimer(Tail(timers), d)
                /\ OneTimer(timers, d, v) => OneTimer(Tail(timers), d, v)
<1>. DEFINE rest == Tail(timers)
<1>1. /\ rest \in Seq(RenderContexts \X Nat) /\ Len(rest) = Len(timers) - 1
      /\ Len(timers) \in Nat /\ Len(timers) > 0
      /\ \A j \in 1..Len(rest) : rest[j] = timers[j + 1]
      /\ timers[1] = <<c, i>>
  OBVIOUS
<1>2. DOMAIN rest = 1..(Len(timers) - 1) /\ DOMAIN timers = 1..Len(timers)
  BY <1>1
<1>. HIDE DEF rest
<1>7. \A l \in DOMAIN rest : rest[l] = timers[l + 1] /\ l + 1 \in DOMAIN timers /\ l + 1 # 1
  <2>1. SUFFICES ASSUME NEW l \in 1..(Len(timers) - 1)
                 PROVE  rest[l] = timers[l + 1] /\ l + 1 \in 1..Len(timers) /\ l + 1 # 1
    BY <1>2
  <2>2. Len(timers) \in Nat /\ l \in 1..Len(rest)
    BY <1>1
  <2>. QED BY <1>1, <2>2
<1>3. ~NoTimer(timers, c)
  <2>1. 1 \in DOMAIN timers /\ timers[1][1] = c
    BY <1>1, <1>2
  <2>. QED BY <2>1 DEF NoTimer
<1>4. ASSUME NEW k \in Nat, OneTimer(timers, c, k)
      PROVE  k = i /\ NoTimer(rest, c)
  <2>1. PICK j \in DOMAIN timers :
            /\ timers[j] = <<c, k>>
            /\ \A l \in DOMAIN timers : timers[l][1] = c => l = j
    BY <1>4 DEF OneTimer
  <2>2. j = 1
    BY <1>1, <1>2, <2>1
  <2>. QED BY <1>1, <1>7, <2>1, <2>2 DEF NoTimer
<1>5. ASSUME NEW d \in RenderContexts \ {c}, NEW v \in Nat, NoTimer(timers, d)
      PROVE  NoTimer(rest, d)
  <2>. QED BY <1>5, <1>7 DEF NoTimer
<1>6. ASSUME NEW d \in RenderContexts \ {c}, NEW v \in Nat, OneTimer(timers, d, v)
      PROVE  OneTimer(rest, d, v)
  <2>1. PICK j \in DOMAIN timers :
            /\ timers[j] = <<d, v>>
            /\ \A l \in DOMAIN timers : timers[l][1] = d => l = j
    BY <1>6 DEF OneTimer
  <2>2. j # 1
    BY <1>1, <2>1
  <2>3. j - 1 \in DOMAIN rest /\ rest[j - 1] = timers[j]
    BY <1>1, <1>2, <2>1, <2>2
  <2>5. ASSUME NEW l \in DOMAIN rest, rest[l][1] = d PROVE l = j - 1
    <3>1. l \in Nat /\ l + 1 = j
      BY <1>2, <1>7, <2>1, <2>5
    <3>. QED BY <3>1
  <2>. QED BY <2>1, <2>3, <2>5 DEF OneTimer
<1>. QED BY <1>1, <1>3, <1>4, <1>5, <1>6 DEF rest

(***************************************************************************)
(* next(): of what waits the first gets its timeout, or nothing waits.     *)
(***************************************************************************)
LEMMA PlacesFromTyped ==
    ASSUME NEW k \in Nat, NEW n \in Nat, k <= n
    PROVE  /\ PlacesFrom(k, n) \in Seq(Nat) /\ Len(PlacesFrom(k, n)) = n - k
           /\ PlacesFrom(k, n) = <<>> <=> n = k
           /\ n # k => /\ Head(PlacesFrom(k, n)) = k + 1
                       /\ Tail(PlacesFrom(k, n)) = PlacesFrom(k + 1, n)
<1>1. /\ PlacesFrom(k, n) \in [1..(n - k) -> Nat] /\ n - k \in Nat
  BY DEF PlacesFrom
<1>2. PlacesFrom(k, n) \in Seq(Nat) /\ Len(PlacesFrom(k, n)) = n - k
  BY <1>1, LenProperties, SeqDef
<1>3. PlacesFrom(k, n) = <<>> <=> n = k
  BY <1>2, EmptySeq
<1>4. ASSUME n # k
      PROVE  /\ Head(PlacesFrom(k, n)) = k + 1
             /\ Tail(PlacesFrom(k, n)) = PlacesFrom(k + 1, n)
  <2>1. PlacesFrom(k, n) # <<>>
    BY <1>3, <1>4
  <2>2. Head(PlacesFrom(k, n)) = k + 1
    BY <1>2, <1>4, <2>1, HeadTailProperties DEF PlacesFrom
  <2>3. /\ Tail(PlacesFrom(k, n)) \in Seq(Nat) /\ Len(Tail(PlacesFrom(k, n))) = n - (k + 1)
        /\ \A j \in 1..(n - (k + 1)) : Tail(PlacesFrom(k, n))[j] = PlacesFrom(k, n)[j + 1]
    BY <1>2, <2>1, HeadTailProperties
  <2>4. \A j \in 1..(n - (k + 1)) : PlacesFrom(k, n)[j + 1] = k + 1 + j
    BY DEF PlacesFrom
  <2>5. Tail(PlacesFrom(k, n)) = [j \in 1..(n - (k + 1)) |-> k + 1 + j]
    <3>1. Tail(PlacesFrom(k, n)) =
            [j \in 1..Len(Tail(PlacesFrom(k, n))) |-> Tail(PlacesFrom(k, n))[j]]
      BY <2>3, LenProperties
    <3>. HIDE DEF PlacesFrom
    <3>. QED BY <2>3, <2>4, <3>1
  <2>. QED BY <2>2, <2>5 DEF PlacesFrom
<1>. QED BY <1>2, <1>3, <1>4

LEMMA PlacesAdded ==
    ASSUME NEW k \in Nat, NEW n \in Nat, NEW m \in Nat, k <= n,
           NEW more \in Seq(Nat), Len(more) = m, \A j \in 1..m : more[j] = n + j
    PROVE  PlacesFrom(k, n) \o more = PlacesFrom(k, n + m)
<1>1. PlacesFrom(k, n) \in Seq(Nat) /\ Len(PlacesFrom(k, n)) = n - k
  BY PlacesFromTyped
<1>2. /\ PlacesFrom(k, n) \o more \in Seq(Nat)
      /\ Len(PlacesFrom(k, n) \o more) = n + m - k
      /\ \A j \in 1..(n + m - k) : (PlacesFrom(k, n) \o more)[j]
            = IF j <= n - k THEN PlacesFrom(k, n)[j] ELSE more[j - (n - k)]
  <2>1. (n - k) + m = n + m - k
    OBVIOUS
  <2>2. /\ PlacesFrom(k, n) \o more \in Seq(Nat)
        /\ Len(PlacesFrom(k, n) \o more) = (n - k) + m
        /\ \A j \in 1..((n - k) + m) : (PlacesFrom(k, n) \o more)[j]
              = IF j <= n - k THEN PlacesFrom(k, n)[j] ELSE more[j - (n - k)]
    <3>. DEFINE ps == PlacesFrom(k, n)
                d == n - k
    <3>1. /\ ps \in Seq(Nat) /\ Len(ps) = d /\ more \in Seq(Nat) /\ Len(more) = m
      BY <1>1
    <3>. HIDE DEF ps, d
    <3>2. /\ ps \o more \in Seq(Nat) /\ Len(ps \o more) = Len(ps) + Len(more)
          /\ \A j \in 1..(Len(ps) + Len(more)) :
               (ps \o more)[j] = IF j <= Len(ps) THEN ps[j] ELSE more[j - Len(ps)]
      BY <3>1, ConcatProperties
    <3>. QED BY <3>1, <3>2 DEF ps, d
  <2>. QED BY <2>1, <2>2
<1>3. \A j \in 1..(n + m - k) : (PlacesFrom(k, n) \o more)[j] = k + j
  <2>. SUFFICES ASSUME NEW j \in 1..(n + m - k) PROVE (PlacesFrom(k, n) \o more)[j] = k + j
    OBVIOUS
  <2>1. CASE j <= n - k
    <3>1. j \in 1..(n - k) /\ PlacesFrom(k, n)[j] = k + j
      BY <2>1 DEF PlacesFrom
    <3>. QED BY <1>2, <2>1, <3>1
  <2>2. CASE ~(j <= n - k)
    <3>1. j - (n - k) \in 1..m /\ n + (j - (n - k)) = k + j
      BY <2>2
    <3>. QED BY <1>2, <2>2, <3>1
  <2>. QED BY <2>1, <2>2
<1>4. PlacesFrom(k, n) \o more = [j \in 1..(n + m - k) |-> k + j]
  <2>1. PlacesFrom(k, n) \o more =
          [j \in 1..Len(PlacesFrom(k, n) \o more) |-> (PlacesFrom(k, n) \o more)[j]]
    BY <1>2, LenProperties
  <2>. QED BY <1>2, <1>3, <2>1
<1>. QED BY <1>4 DEF PlacesFrom

LEMMA GivenIs ==
    ASSUME NEW r, IsContext(r), NEW value
    PROVE  /\ IsContext(Given(r, value))
           /\ Given(r, value).waiting = r.waiting /\ Given(r, value).callbacks = r.callbacks
           /\ Given(r, value).engine = r.engine
           /\ Given(r, value).content = IF value = NoValue THEN r.content ELSE value
           /\ Given(r, value).previous = IF value = NoValue THEN r.previous ELSE r.content
<1>1. r = [waiting |-> r.waiting, callbacks |-> r.callbacks, content |-> r.content,
           previous |-> r.previous, engine |-> r.engine]
      /\ r.waiting \in BOOLEAN /\ r.callbacks \in Seq(Nat)
  BY DEF IsContext
<1>2. CASE value = NoValue
  BY <1>2 DEF Given
<1>3. CASE value # NoValue
  <2>1. Given(r, value) = [waiting |-> r.waiting, callbacks |-> r.callbacks, content |-> value,
                           previous |-> r.content, engine |-> r.engine]
    BY <1>1, <1>3 DEF Given
  <2>. QED BY <1>1, <1>3, <2>1 DEF IsContext
<1>. QED BY <1>2, <1>3

LEMMA NextIs ==
    ASSUME NEW c \in RenderContexts, NEW r, IsContext(r), NEW value,
           NEW timers \in Seq(RenderContexts \X Nat), NoTimer(timers, c),
           NEW k \in Nat, NEW n \in Nat, k <= n, r.callbacks = PlacesFrom(k, n)
    PROVE  LET m == NextOf(c, r, value)
           IN  /\ IsContext(m.context)
               /\ Has(m.context, Given(r, value), r.engine)
               /\ timers \o m.timers \in Seq(RenderContexts \X Nat)
               /\ Stands(c, m.context, timers \o m.timers, n, k)
               /\ \A d \in RenderContexts \ {c} : \A v \in Nat :
                    /\ NoTimer(timers, d) => NoTimer(timers \o m.timers, d)
                    /\ OneTimer(timers, d, v) => OneTimer(timers \o m.timers, d, v)
<1>. DEFINE g == Given(r, value)
            m == NextOf(c, r, value)
            given == [g EXCEPT !.waiting = FALSE]
<1>1. /\ g = [waiting |-> g.waiting, callbacks |-> g.callbacks, content |-> g.content,
              previous |-> g.previous, engine |-> g.engine]
      /\ g.callbacks = PlacesFrom(k, n) /\ g.engine = r.engine
  BY GivenIs DEF IsContext
<1>. HIDE DEF g
<1>2. given = [waiting |-> FALSE, callbacks |-> PlacesFrom(k, n), content |-> g.content,
               previous |-> g.previous, engine |-> g.engine]
  <2>1. PICK waiting, content, previous, engine :
            g = [waiting |-> waiting, callbacks |-> PlacesFrom(k, n), content |-> content,
                 previous |-> previous, engine |-> engine]
    BY <1>1
  <2>2. given = [waiting |-> FALSE, callbacks |-> PlacesFrom(k, n), content |-> content,
                 previous |-> previous, engine |-> engine]
    <3>. DEFINE v == FALSE
    <3>1. [g EXCEPT !.waiting = v] =
             [waiting |-> v, callbacks |-> PlacesFrom(k, n), content |-> content,
              previous |-> previous, engine |-> engine]
      <4>. HIDE DEF v
      <4>. QED BY <2>1
    <3>. QED BY <3>1
  <2>3. g.content = content /\ g.previous = previous /\ g.engine = engine
    BY <2>1
  <2>. QED BY <2>2, <2>3
<1>3. m = IF given.callbacks = <<>>
          THEN [context |-> given, timers |-> <<>>]
          ELSE [context |-> [given EXCEPT !.waiting = TRUE, !.callbacks = Tail(@)],
                timers |-> << <<c, Head(given.callbacks)>> >>]
  BY DEF NextOf, Taken_, g
<1>. HIDE DEF given, m
<1>4. CASE n = k
  <2>1. PlacesFrom(k, n) = <<>> /\ PlacesFrom(k, n) \in Seq(Nat)
    BY <1>4, PlacesFromTyped
  <2>2. m.context = given /\ m.timers = <<>>
    BY <1>2, <1>3, <2>1
  <2>3. timers \o m.timers = timers
    BY <2>2, ConcatEmptySeq
  <2>4. IsContext(m.context)
    BY <1>2, <2>1, <2>2 DEF IsContext
  <2>5. Stands(c, m.context, timers, n, k)
    BY <1>2, <1>4, <2>1, <2>2 DEF Stands
  <2>6. Has(m.context, g, r.engine)
    BY <1>1, <1>2, <2>2 DEF Has
  <2>. QED BY <2>3, <2>4, <2>5, <2>6 DEF m, g
<1>5. CASE n # k
  <2>1. /\ PlacesFrom(k, n) # <<>> /\ Head(PlacesFrom(k, n)) = k + 1
        /\ Tail(PlacesFrom(k, n)) = PlacesFrom(k + 1, n) /\ PlacesFrom(k + 1, n) \in Seq(Nat)
    <3>1. k + 1 \in Nat /\ k + 1 <= n
      BY <1>5
    <3>. QED BY <1>5, <3>1, PlacesFromTyped
  <2>2. /\ m.context = [waiting |-> TRUE, callbacks |-> PlacesFrom(k + 1, n),
                        content |-> g.content, previous |-> g.previous, engine |-> g.engine]
        /\ m.timers = << <<c, k + 1>> >>
    BY <1>2, <1>3, <2>1
  <2>3. IsContext(m.context)
    BY <2>1, <2>2 DEF IsContext
  <2>4. Has(m.context, g, r.engine)
    BY <1>1, <2>2 DEF Has
  <2>5. k + 1 \in Nat
    OBVIOUS
  <2>6. /\ timers \o m.timers \in Seq(RenderContexts \X Nat)
        /\ OneTimer(timers \o m.timers, c, k + 1)
        /\ \A d \in RenderContexts \ {c} : \A v \in Nat :
             /\ NoTimer(timers, d) => NoTimer(timers \o m.timers, d)
             /\ OneTimer(timers, d, v) => OneTimer(timers \o m.timers, d, v)
    BY <2>2, <2>5, TimersAppended
  <2>7. Stands(c, m.context, timers \o m.timers, n, k)
    BY <1>5, <2>2, <2>6 DEF Stands
  <2>. QED BY <2>3, <2>4, <2>6, <2>7 DEF m, g
<1>. QED BY <1>4, <1>5

(***************************************************************************)
(* What a beginning does to the record that the model keeps of a context.  *)
(***************************************************************************)
PutAfter(put, i) == IF put[i].then THEN Append(put, CallOp(NoValue)) ELSE put

LEMMA OwnIsChainable ==
    /\ CallOp(NoValue) \in Chainable
    /\ CallOp(NoValue).do = "call" /\ CallOp(NoValue).then = FALSE
<1>. DEFINE own == CallOp(NoValue)
<1>1. Chainable = Chained \cup {own}
  BY DEF Chainable
<1>2. own.do = "call" /\ own.then = FALSE
  BY DEF CallOp, Op
<1>. HIDE DEF own
<1>3. own \in Chainable
  BY <1>1
<1>. QED BY <1>2, <1>3 DEF own

LEMMA BeginsSeen ==
    ASSUME NEW c \in RenderContexts, NEW i \in Nat, NEW over \in BOOLEAN,
           renderSeen \in [RenderContexts -> Seen], Begins(c, i, over)
    PROVE  LET seen == renderSeen[c]
               then == renderSeen'[c]
           IN  /\ renderSeen' \in [RenderContexts -> Seen]
               /\ \A d \in RenderContexts \ {c} : renderSeen'[d] = renderSeen[d]
               /\ then.put = PutAfter(seen.put, i) /\ then.first = seen.first
               /\ then.begun = Append(seen.begun, i)
               /\ then.ended = IF over THEN seen.ended \cup {i} ELSE seen.ended
               /\ then.broken <=> seen.broken \/ seen.put[i].do = "throw"
               /\ then.careless <=> seen.careless \/ seen.put[i].do = "wait"
<1>. DEFINE seen == renderSeen[c]
            fell == seen.put[i].do = "throw"
            careless == seen.careless \/ seen.put[i].do = "wait"
            put == PutAfter(seen.put, i)
            begun == Append(seen.begun, i)
            ended == IF over THEN seen.ended \cup {i} ELSE seen.ended
            after == [seen EXCEPT !.begun = begun, !.ended = ended,
                     !.broken = @ \/ fell, !.careless = careless, !.put = put]
<1>1. renderSeen' = [renderSeen EXCEPT ![c] = after]
  BY DEF Begins, PutAfter
<1>2. seen \in Seen
  OBVIOUS
<1>3. put \in Seq(Chainable) /\ begun \in Seq(Nat) /\ ended \in SUBSET Nat
      /\ fell \in BOOLEAN /\ careless \in BOOLEAN
  <2>1. seen.put \in Seq(Chainable) /\ seen.begun \in Seq(Nat) /\ seen.ended \in SUBSET Nat
    BY <1>2 DEF Seen
  <2>2. CallOp(NoValue) \in Chainable
    BY OwnIsChainable
  <2>. QED BY <2>1, <2>2 DEF PutAfter
<1>4. /\ after \in Seen /\ after.put = put /\ after.first = seen.first
      /\ after.begun = begun /\ after.ended = ended
      /\ after.broken <=> seen.broken \/ fell
      /\ after.careless <=> careless
  <2>. HIDE DEF seen, fell, careless, put, begun, ended
  <2>. QED BY <1>2, <1>3 DEF Seen
<1>. HIDE DEF after
<1>. QED BY <1>1, <1>4

LEMMA ChainableIs ==
    ASSUME ProgramsAssumption
    PROVE  \A op \in Chainable :
             /\ op.do = "load" => op.at \in DOMAIN TemplateOf
             /\ op.do # "load" => ~op.then
             /\ op.do = "swap" => op.value = NoValue
<1>. DEFINE Right(op) == /\ op.do = "load" => op.at \in DOMAIN TemplateOf
                         /\ op.do # "load" => ~op.then
                         /\ op.do = "swap" => op.value = NoValue
            own == CallOp(NoValue)
<1>1. Right(own)
  BY OwnIsChainable
<1>2. \A p \in Programs : \A op \in ToSet(p.first) \cup ToSet(p.later) : Right(op)
  BY DEF ProgramsAssumption, IsChained
<1>3. \A op \in Chainable :
         op = own \/ \E p \in Programs : op \in ToSet(p.first) \cup ToSet(p.later)
  <2>1. \A op \in Chained : \E p \in Programs : op \in ChainedOf(p)
    BY DEF Chained
  <2>. QED BY <2>1 DEF Chainable, ChainedOf
<1>. HIDE DEF Right, own
<1>4. \A op \in Chainable : Right(op)
  BY <1>1, <1>2, <1>3
<1>. QED BY <1>4 DEF Right

LEMMA MadeKept ==
    ASSUME NEW put \in Seq(Chainable), NEW ops \in Seq(Chainable), NEW n \in Nat, n <= Len(put)
    PROVE  /\ Made(put \o ops, n) = Made(put, n)
           /\ \A j \in 1..Len(put) : (put \o ops)[j] = put[j]
<1>1. \A j \in 1..Len(put) : (put \o ops)[j] = put[j]
  BY ConcatProperties
<1>2. \A k \in 1..n : k \in 1..Len(put)
  OBVIOUS
<1>3. Made(put \o ops, n) = Made(put, n)
  <2>1. \A k \in 1..n : (put \o ops)[k] = put[k]
    BY <1>1, <1>2
  <2>. QED BY <2>1, MadeSame
<1>. QED BY <1>1, <1>3

LEMMA PutAfterIs ==
    ASSUME NEW put \in Seq(Chainable), NEW i \in 1..Len(put)
    PROVE  /\ PutAfter(put, i) \in Seq(Chainable)
           /\ Len(PutAfter(put, i)) = IF put[i].then THEN Len(put) + 1 ELSE Len(put)
           /\ \A j \in 1..Len(put) : PutAfter(put, i)[j] = put[j]
           /\ \A j \in 0..Len(put) : Made(PutAfter(put, i), j) = Made(put, j)
<1>1. CallOp(NoValue) \in Chainable
  BY OwnIsChainable
<1>2. /\ PutAfter(put, i) \in Seq(Chainable)
      /\ Len(PutAfter(put, i)) = IF put[i].then THEN Len(put) + 1 ELSE Len(put)
      /\ \A j \in 1..Len(put) : PutAfter(put, i)[j] = put[j]
  BY <1>1, AppendProperties DEF PutAfter
<1>3. ASSUME NEW j \in 0..Len(put) PROVE Made(PutAfter(put, i), j) = Made(put, j)
  BY <1>2, MadeSame
<1>. QED BY <1>2, <1>3

(***************************************************************************)
(* The other contexts do not notice.                                       *)
(***************************************************************************)
LEMMA OthersStand ==
    ASSUME NEW d, NEW r, NEW seen \in Seen, NEW timers, NEW asks, NEW laters, NEW others,
           InTurn(d, r, timers, asks, seen),
           NoTimer(timers, d) => NoTimer(laters, d),
           \A v \in Nat : OneTimer(timers, d, v) => OneTimer(laters, d, v),
           \A a : a[1] = d => (a \in asks <=> a \in others)
    PROVE  InTurn(d, r, laters, others, seen)
<1>. DEFINE k == Len(seen.begun)
            n == Len(seen.put)
<1>1. k \in Nat /\ k + 1 \in Nat /\ n \in Nat
  BY DEF Seen
<1>2. CASE seen.careless
  BY <1>2 DEF InTurn
<1>. HIDE DEF k, n
<1>3. CASE ~seen.careless /\ Rests_(d, r, timers, asks, seen, n, k)
  <2>1. Stands(d, r, laters, n, k)
    BY <1>1, <1>3 DEF Rests_, Stands
  <2>2. \A a \in others : a[1] # d
    BY <1>3 DEF Rests_
  <2>3. Rests_(d, r, laters, others, seen, n, k)
    BY <1>3, <2>1, <2>2 DEF Rests_
  <2>. QED BY <1>3, <2>3 DEF InTurn, k, n
<1>4. CASE ~seen.careless /\ Busy(d, r, timers, asks, seen, n, k)
  <2>1. NoTimer(laters, d) /\ \A a \in others : a[1] = d => a = <<d, k>>
    BY <1>4 DEF Busy
  <2>2. seen.broken \/ <<d, k>> \in others
    <3>1. <<d, k>>[1] = d
      OBVIOUS
    <3>. QED BY <1>4, <3>1 DEF Busy
  <2>3. Busy(d, r, laters, others, seen, n, k)
    BY <1>4, <2>1, <2>2 DEF Busy
  <2>. QED BY <1>4, <2>3 DEF InTurn, k, n
<1>. QED BY <1>2, <1>3, <1>4 DEF InTurn, k, n

(***************************************************************************)
(* What one function makes of the contents.                                *)
(***************************************************************************)
ValueOf(w, op) ==
    CASE op.do = "load" -> TemplateOf[op.at]
      [] op.do \in {"interpolate", "each"} -> Rendered_(w, op)
      [] OTHER -> op.value

EngineAfter(w, op) ==
    CASE op.do = "load" -> EngineOf[op.at]
      [] op.do = "interpolate" -> NoEngine
      [] OTHER -> w.engine

LEMMA EngineSet ==
    ASSUME NEW r, IsContext(r), NEW e
    PROVE  LET s == [r EXCEPT !.engine = e]
           IN  /\ IsContext(s) /\ s.waiting = r.waiting /\ s.callbacks = r.callbacks
               /\ s.content = r.content /\ s.previous = r.previous /\ s.engine = e
<1>1. PICK a, b, x, p, f : r = [waiting |-> a, callbacks |-> b, content |-> x,
                                previous |-> p, engine |-> f]
  BY DEF IsContext
<1>2. [r EXCEPT !.engine = e] = [waiting |-> a, callbacks |-> b, content |-> x,
                                 previous |-> p, engine |-> e]
  BY <1>1
<1>3. a \in BOOLEAN /\ b \in Seq(Nat)
  BY <1>1 DEF IsContext
<1>. QED BY <1>1, <1>2, <1>3 DEF IsContext

LEMMA RenderIs ==
    ASSUME NEW r, IsContext(r), NEW op
    PROVE  LET s == AfterRender(r, op)
           IN  /\ IsContext(s) /\ s.waiting = r.waiting /\ s.callbacks = r.callbacks
               /\ s.content = r.content /\ s.previous = r.previous
               /\ s.engine = IF op.do = "interpolate" THEN NoEngine ELSE r.engine
<1>1. CASE op.do = "interpolate"
  BY <1>1, EngineSet DEF AfterRender
<1>2. CASE op.do # "interpolate"
  BY <1>2 DEF AfterRender
<1>. QED BY <1>1, <1>2

LEMMA WorkIs ==
    ASSUME NEW w, IsContext(w), NEW op
    PROVE  LET v == ValueOf(w, op)
           IN  /\ IsContext(Work(w, op))
               /\ Work(w, op).content = IF v = NoValue THEN w.content ELSE v
               /\ Work(w, op).previous = IF v = NoValue THEN w.previous ELSE w.content
               /\ Work(w, op).engine = EngineAfter(w, op)
<1>1. CASE op.do = "load"
  <2>. DEFINE s == [w EXCEPT !.engine = EngineOf[op.at]]
  <2>1. Work(w, op) = Given(s, TemplateOf[op.at]) /\ ValueOf(w, op) = TemplateOf[op.at]
        /\ EngineAfter(w, op) = EngineOf[op.at]
    BY <1>1 DEF Work, ValueOf, EngineAfter
  <2>2. IsContext(s) /\ s.content = w.content /\ s.previous = w.previous
        /\ s.engine = EngineOf[op.at]
    BY EngineSet
  <2>. HIDE DEF s
  <2>. QED BY <2>1, <2>2, GivenIs
<1>2. CASE op.do \in {"interpolate", "each"}
  <2>. DEFINE s == AfterRender(w, op)
  <2>1. Work(w, op) = Given(s, Rendered_(w, op)) /\ ValueOf(w, op) = Rendered_(w, op)
        /\ EngineAfter(w, op) = IF op.do = "interpolate" THEN NoEngine ELSE w.engine
    BY <1>2 DEF Work, ValueOf, EngineAfter
  <2>2. IsContext(s) /\ s.content = w.content /\ s.previous = w.previous
        /\ s.engine = IF op.do = "interpolate" THEN NoEngine ELSE w.engine
    BY RenderIs
  <2>. HIDE DEF s
  <2>. QED BY <2>1, <2>2, GivenIs
<1>3. CASE op.do \notin {"load", "interpolate", "each"}
  <2>1. Work(w, op) = Given(w, op.value) /\ ValueOf(w, op) = op.value
        /\ EngineAfter(w, op) = w.engine
    BY <1>3 DEF Work, ValueOf, EngineAfter
  <2>. QED BY <2>1, GivenIs
<1>. QED BY <1>1, <1>2, <1>3

LEMMA MadeIsContext ==
    ASSUME NEW ops, NEW n \in Nat
    PROVE  IsContext(Made(ops, n))
<1>. DEFINE T == {k \in Nat : ~IsContext(Made(ops, k))}
<1>. SUFFICES ASSUME T # {} PROVE FALSE
  OBVIOUS
<1>1. PICK x \in T : \A y \in T : x <= y
  <2>1. T \subseteq Nat
    OBVIOUS
  <2>. HIDE DEF T
  <2>. QED BY <2>1, LeastNatural
<1>2. IsContext(NewContext)
  <2>1. <<>> \in Seq(Nat)
    OBVIOUS
  <2>. QED BY <2>1 DEF NewContext, IsContext
<1>3. x # 0
  BY <1>1, <1>2, MadeNone
<1>4. x \in Nat \ {0} /\ x - 1 \in Nat /\ ~(x <= x - 1)
  BY <1>1, <1>3
<1>5. IsContext(Made(ops, x - 1))
  BY <1>1, <1>4
<1>6. Made(ops, x) = Work(Made(ops, x - 1), ops[x])
  BY <1>4, MadeNext
<1>. QED BY <1>1, <1>5, <1>6, WorkIs

LEMMA WorkFollows ==
    ASSUME NEW r, NEW w, IsContext(r), IsContext(w), NEW op, Has(r, w, EngineAfter(w, op))
    PROVE  /\ Has(Given(r, ValueOf(w, op)), Work(w, op), Given(r, ValueOf(w, op)).engine)
           /\ r.engine = Work(w, op).engine
<1>. DEFINE v == ValueOf(w, op)
<1>1. /\ Given(r, v).content = IF v = NoValue THEN r.content ELSE v
      /\ Given(r, v).previous = IF v = NoValue THEN r.previous ELSE r.content
  BY GivenIs
<1>2. r.content = w.content /\ r.previous = w.previous /\ r.engine = EngineAfter(w, op)
  BY DEF Has
<1>. HIDE DEF v
<1>. QED BY <1>1, <1>2, WorkIs DEF Has, v

(***************************************************************************)
(* The place that begins is the one after those that are over.             *)
(***************************************************************************)
AtHandSays(c, r, timers, asks, seen, i) ==
    LET n == Len(seen.put)
        w == Made(seen.put, i - 1)
    IN  /\ Len(seen.begun) = i - 1 /\ i \in 1..n
        /\ \A j \in 1..(i - 1) : seen.begun[j] = j
        /\ seen.first = <<>>
        /\ r.waiting /\ r.callbacks = PlacesFrom(i, n) /\ NoTimer(Tail(timers), c)
        /\ \A a \in asks : a[1] # c
        /\ 1..(i - 1) \subseteq seen.ended
        /\ Has(r, w, w.engine)

LEMMA AtHand ==
    ASSUME NEW c \in RenderContexts, NEW r, NEW timers \in Seq(RenderContexts \X Nat), NEW asks,
           NEW seen \in Seen, NEW i \in Nat, InTurn(c, r, timers, asks, seen), ~seen.careless,
           timers # <<>>, Head(timers) = <<c, i>>
    PROVE  AtHandSays(c, r, timers, asks, seen, i)
<1>. DEFINE k == Len(seen.begun)
            n == Len(seen.put)
<1>1. k \in Nat /\ k + 1 \in Nat /\ n \in Nat
  BY DEF Seen
<1>2. ~NoTimer(timers, c)
  BY TimersTail
<1>. HIDE DEF k, n
<1>3. ~Busy(c, r, timers, asks, seen, n, k)
  BY <1>2 DEF Busy
<1>4. /\ \A j \in 1..k : seen.begun[j] = j
      /\ seen.first # <<>> => n = 0
      /\ Rests_(c, r, timers, asks, seen, n, k)
  BY <1>3 DEF InTurn, k, n
<1>5. k < n /\ r.waiting /\ r.callbacks = PlacesFrom(k + 1, n) /\ OneTimer(timers, c, k + 1)
  BY <1>2, <1>4 DEF Rests_, Stands
<1>6. k + 1 = i /\ NoTimer(Tail(timers), c)
  BY <1>1, <1>5, TimersTail
<1>7. k = i - 1 /\ i \in 1..n /\ n # 0
  BY <1>1, <1>5, <1>6
<1>8. /\ \A a \in asks : a[1] # c
      /\ 1..k \subseteq seen.ended
      /\ Has(r, Made(seen.put, k), Made(seen.put, k).engine)
  BY <1>4 DEF Rests_
<1>. QED BY <1>4, <1>5, <1>6, <1>7, <1>8 DEF k, n, AtHandSays

(***************************************************************************)
(* The queue goes on: what is over stands as it should.                    *)
(***************************************************************************)
LEMMA MovesOn ==
    ASSUME NEW c \in RenderContexts, NEW r, IsContext(r), NEW value,
           NEW timers \in Seq(RenderContexts \X Nat), NoTimer(timers, c),
           NEW asks, \A a \in asks : a[1] # c,
           NEW seen \in Seen, NEW k \in Nat, NEW n \in Nat, k <= n,
           Len(seen.begun) = k, Len(seen.put) = n, \A j \in 1..k : seen.begun[j] = j,
           seen.first = <<>>, 1..k \subseteq seen.ended,
           r.callbacks = PlacesFrom(k, n),
           Has(Given(r, value), Made(seen.put, k), Given(r, value).engine),
           r.engine = Made(seen.put, k).engine
    PROVE  InTurn(c, NextOf(c, r, value).context, timers \o NextOf(c, r, value).timers,
                  asks, seen)
<1>. DEFINE m == NextOf(c, r, value)
            w == Made(seen.put, k)
<1>1. /\ Has(m.context, Given(r, value), r.engine)
      /\ Stands(c, m.context, timers \o m.timers, n, k)
  BY NextIs
<1>. HIDE DEF m, w
<1>2. Has(m.context, w, w.engine)
  BY <1>1 DEF Has, w
<1>3. Rests_(c, m.context, timers \o m.timers, asks, seen, n, k)
  BY <1>1, <1>2 DEF Rests_, w
<1>. QED BY <1>3 DEF InTurn, m

(***************************************************************************)
(* A step of one context.                                                  *)
(***************************************************************************)
SwapHolds(s, seens) ==
    s.at > 0 =>
      /\ s.by \in RenderContexts
      /\ ~seens[s.by].careless =>
           /\ s.at \in 1..Len(seens[s.by].put)
           /\ s.content = MadeBy(seens[s.by].put, s.at - 1)

OthersKeep(c, timers, laters) ==
    \A d \in RenderContexts \ {c} : \A v \in Nat :
      /\ NoTimer(timers, d) => NoTimer(laters, d)
      /\ OneTimer(timers, d, v) => OneTimer(laters, d, v)

LEMMA InvIs ==
    RendersInv <=> /\ RendersTyped
                   /\ \A c \in RenderContexts :
                         InTurn(c, renders[c], renderTimers, renderAsks, renderSeen[c])
                   /\ SwapHolds(swapped, renderSeen)
BY DEF RendersInv, SwapHolds, PageIsRendered

LEMMA ContextSteps ==
    ASSUME RendersInv, NEW c \in RenderContexts, NEW r, IsContext(r),
           renders' = [renders EXCEPT ![c] = r],
           renderTimers' \in Seq(RenderContexts \X Nat),
           OthersKeep(c, renderTimers, renderTimers'),
           NEW i \in Nat,
           \A a : a # <<c, i>> => (a \in renderAsks <=> a \in renderAsks'),
           renderSeen' \in [RenderContexts -> Seen],
           \A d \in RenderContexts \ {c} : renderSeen'[d] = renderSeen[d],
           templateCache' = [l \in DOMAIN TemplateOf |-> templateCache'[l]],
           \A l \in DOMAIN TemplateOf : templateCache'[l] \in {NoValue, TemplateOf[l]},
           InTurn(c, r, renderTimers', renderAsks', renderSeen'[c]),
           SwapHolds(swapped', renderSeen')
    PROVE  RendersInv'
<1>1. /\ renders' = [d \in RenderContexts |-> renders'[d]] /\ renders'[c] = r
      /\ \A d \in RenderContexts \ {c} : renders'[d] = renders[d]
  BY DEF RendersInv, RendersTyped
<1>2. renderAsks' \subseteq RenderContexts \X Nat
  BY DEF RendersInv, RendersTyped
<1>3. RendersTyped'
  <2>1. \A d \in RenderContexts : IsContext(renders'[d])
    BY <1>1 DEF RendersInv, RendersTyped
  <2>. QED BY <1>1, <1>2, <2>1 DEF RendersTyped
<1>4. ASSUME NEW d \in RenderContexts \ {c}
      PROVE  InTurn(d, renders'[d], renderTimers', renderAsks', renderSeen'[d])
  <2>1. InTurn(d, renders[d], renderTimers, renderAsks, renderSeen[d])
    BY DEF RendersInv
  <2>2. renderSeen[d] \in Seen
    BY DEF RendersInv, RendersTyped
  <2>3. \A a : a[1] = d => (a \in renderAsks <=> a \in renderAsks')
    <3>1. <<c, i>>[1] = c
      OBVIOUS
    <3>. QED BY <3>1
  <2>4. /\ NoTimer(renderTimers, d) => NoTimer(renderTimers', d)
        /\ \A v \in Nat : OneTimer(renderTimers, d, v) => OneTimer(renderTimers', d, v)
    BY DEF OthersKeep
  <2>5. InTurn(d, renders[d], renderTimers', renderAsks', renderSeen[d])
    BY <2>1, <2>2, <2>3, <2>4, OthersStand
  <2>. QED BY <1>1, <2>5
<1>. QED BY <1>1, <1>3, <1>4 DEF RendersInv, SwapHolds, PageIsRendered

LEMMA SwapStays ==
    ASSUME RendersInv, NEW c \in RenderContexts,
           renderSeen' \in [RenderContexts -> Seen],
           \A d \in RenderContexts \ {c} : renderSeen'[d] = renderSeen[d],
           renderSeen[c].careless => renderSeen'[c].careless,
           ~renderSeen[c].careless =>
             /\ Len(renderSeen[c].put) <= Len(renderSeen'[c].put)
             /\ \A j \in 1..Len(renderSeen[c].put) :
                   renderSeen'[c].put[j] = renderSeen[c].put[j]
    PROVE  SwapHolds(swapped, renderSeen')
<1>1. SwapHolds(swapped, renderSeen)
  BY InvIs
<1>2. CASE swapped.at > 0 /\ swapped.by = c /\ ~renderSeen'[c].careless
  <2>. DEFINE put == renderSeen[c].put
              puts == renderSeen'[c].put
  <2>1. put \in Seq(Chainable) /\ puts \in Seq(Chainable)
    BY DEF RendersInv, RendersTyped, Seen
  <2>2. /\ swapped.at \in 1..Len(put) /\ swapped.content = MadeBy(put, swapped.at - 1)
        /\ Len(put) <= Len(puts) /\ \A j \in 1..Len(put) : puts[j] = put[j]
    BY <1>1, <1>2 DEF SwapHolds
  <2>. HIDE DEF put, puts
  <2>3. /\ swapped.at \in 1..Len(puts) /\ swapped.at - 1 \in Nat
        /\ \A j \in 1..(swapped.at - 1) : puts[j] = put[j]
    BY <2>1, <2>2
  <2>4. Made(puts, swapped.at - 1) = Made(put, swapped.at - 1)
    BY <2>3, MadeSame
  <2>. QED BY <1>2, <2>2, <2>3, <2>4 DEF SwapHolds, MadeBy, puts
<1>. QED BY <1>1, <1>2 DEF SwapHolds

(***************************************************************************)
(* Chaining.                                                               *)
(***************************************************************************)
LEMMA PlacesIs ==
    ASSUME NEW c \in RenderContexts, NEW ops \in Seq(Chainable), ops # <<>>,
           renderSeen \in [RenderContexts -> Seen]
    PROVE  LET places == Places(c, ops)
               n == Len(renderSeen[c].put)
           IN  /\ places \in Seq(Nat) /\ Len(places) = Len(ops) /\ places # <<>>
               /\ \A j \in 1..Len(ops) : places[j] = n + j
               /\ Head(places) = n + 1
               /\ Tail(places) = PlacesFrom(n + 1, n + Len(ops))
<1>. DEFINE n == Len(renderSeen[c].put)
            m == Len(ops)
            places == Places(c, ops)
<1>1. n \in Nat /\ m \in Nat /\ m # 0
  BY EmptySeq DEF Seen
<1>2. places = [j \in 1..m |-> n + j]
  BY DEF Places
<1>. HIDE DEF n, m, places
<1>3. places \in [1..m -> Nat]
  BY <1>1, <1>2
<1>4. places \in Seq(Nat) /\ Len(places) = m
  BY <1>1, <1>3, LenProperties, SeqDef
<1>5. places # <<>> /\ \A j \in 1..m : places[j] = n + j
  BY <1>1, <1>2, <1>4, EmptySeq
<1>6. Head(places) = n + 1
  BY <1>1, <1>4, <1>5, HeadTailProperties
<1>7. Tail(places) = PlacesFrom(n + 1, n + m)
  <2>1. (n + m) - (n + 1) = m - 1
    BY <1>1
  <2>2. /\ Tail(places) \in Seq(Nat) /\ Len(Tail(places)) = m - 1
        /\ \A j \in 1..(m - 1) : Tail(places)[j] = places[j + 1]
    BY <1>4, <1>5, HeadTailProperties
  <2>3. \A j \in 1..(m - 1) : Tail(places)[j] = n + 1 + j
    <3>1. \A j \in 1..(m - 1) : j + 1 \in 1..m /\ n + (j + 1) = n + 1 + j
      BY <1>1
    <3>. QED BY <1>5, <2>2, <3>1
  <2>4. Tail(places) = [j \in 1..(m - 1) |-> Tail(places)[j]]
    BY <2>2, LenProperties
  <2>5. Tail(places) = [j \in 1..(m - 1) |-> n + 1 + j]
    BY <2>3, <2>4
  <2>6. PlacesFrom(n + 1, n + m) = [j \in 1..(m - 1) |-> n + 1 + j]
    <3>1. PlacesFrom(n + 1, n + m) = [j \in 1..((n + m) - (n + 1)) |-> n + 1 + j]
      BY DEF PlacesFrom
    <3>. QED BY <2>1, <3>1
  <2>. QED BY <2>5, <2>6
<1>. QED BY <1>4, <1>5, <1>6, <1>7 DEF n, m, places

LEMMA CallbacksReplaced ==
    ASSUME NEW a, NEW q, NEW b, NEW x, NEW p, NEW f
    PROVE  [[waiting |-> a, callbacks |-> q, content |-> x, previous |-> p, engine |-> f]
                EXCEPT !.callbacks = b]
             = [waiting |-> a, callbacks |-> b, content |-> x, previous |-> p, engine |-> f]
OBVIOUS

LEMMA CallbacksSet ==
    ASSUME NEW r, IsContext(r), NEW b \in Seq(Nat)
    PROVE  LET s == [r EXCEPT !.callbacks = b]
           IN  /\ IsContext(s) /\ s.waiting = r.waiting /\ s.callbacks = b
               /\ s.content = r.content /\ s.previous = r.previous /\ s.engine = r.engine
<1>1. PICK a, q, x, p, f : r = [waiting |-> a, callbacks |-> q, content |-> x,
                                previous |-> p, engine |-> f]
  BY DEF IsContext
<1>2. [r EXCEPT !.callbacks = b] = [waiting |-> a, callbacks |-> b, content |-> x,
                                    previous |-> p, engine |-> f]
  BY <1>1, CallbacksReplaced
<1>3. a \in BOOLEAN
  BY <1>1 DEF IsContext
<1>. QED BY <1>1, <1>2, <1>3 DEF IsContext

LEMMA WaitingSet ==
    ASSUME NEW r, IsContext(r), NEW w \in BOOLEAN
    PROVE  LET s == [r EXCEPT !.waiting = w]
           IN  /\ IsContext(s) /\ s.waiting = w /\ s.callbacks = r.callbacks
               /\ s.content = r.content /\ s.previous = r.previous /\ s.engine = r.engine
<1>1. PICK a, q, x, p, f : r = [waiting |-> a, callbacks |-> q, content |-> x,
                                previous |-> p, engine |-> f]
  BY DEF IsContext
<1>2. [r EXCEPT !.waiting = w] = [waiting |-> w, callbacks |-> q, content |-> x,
                                  previous |-> p, engine |-> f]
  BY <1>1
<1>3. q \in Seq(Nat)
  BY <1>1 DEF IsContext
<1>. QED BY <1>1, <1>2, <1>3 DEF IsContext

LEMMA ChainTurn ==
    ASSUME NEW c \in RenderContexts, NEW r, IsContext(r), NEW timers, NEW asks, NEW seen \in Seen,
           InTurn(c, r, timers, asks, seen),
           NEW ops \in Seq(Chainable), ops # <<>>,
           NEW places \in Seq(Nat), Len(places) = Len(ops),
           \A j \in 1..Len(ops) : places[j] = Len(seen.put) + j,
           Tail(places) = PlacesFrom(Len(seen.put) + 1, Len(seen.put) + Len(ops)),
           NEW rs, IsContext(rs), rs.waiting, rs.content = r.content, rs.previous = r.previous,
           rs.engine = r.engine,
           rs.callbacks = IF r.waiting THEN r.callbacks \o places ELSE r.callbacks \o Tail(places),
           NEW laters,
           ~r.waiting /\ NoTimer(timers, c) => OneTimer(laters, c, Len(seen.put) + 1),
           r.waiting => laters = timers,
           NEW after \in Seen, after.first = <<>>,
           after.careless = seen.careless, after.broken = seen.broken,
           after.begun = seen.begun, after.ended = seen.ended,
           ~after.careless => after.put = seen.put \o ops
    PROVE  InTurn(c, rs, laters, asks, after)
<1>. SUFFICES ASSUME ~after.careless PROVE InTurn(c, rs, laters, asks, after)
  BY DEF InTurn
<1>. DEFINE k == Len(seen.begun)
            n == Len(seen.put)
            m == Len(ops)
            all == n + m
<1>1. n \in Nat /\ k \in Nat /\ m \in Nat /\ all \in Nat /\ n + 1 \in Nat
  <2>1. seen.put \in Seq(Chainable) /\ seen.begun \in Seq(Nat)
    BY DEF Seen
  <2>2. n \in Nat /\ k \in Nat
    BY <2>1
  <2>3. m \in Nat
    OBVIOUS
  <2>. QED BY <2>2, <2>3
<1>2. /\ k <= n /\ \A j \in 1..k : after.begun[j] = j
      /\ \/ Rests_(c, r, timers, asks, seen, n, k)
         \/ Busy(c, r, timers, asks, seen, n, k)
  BY DEF InTurn
<1>3. seen.put \in Seq(Chainable) /\ after.put = seen.put \o ops
  BY DEF Seen
<1>4. /\ Len(after.put) = all /\ Len(after.begun) = k
      /\ Made(after.put, k) = Made(seen.put, k)
      /\ \A j \in 1..n : after.put[j] = seen.put[j]
      /\ k > 0 => Made(after.put, k - 1) = Made(seen.put, k - 1)
  <2>1. Len(after.put) = all
    BY <1>3, ConcatProperties
  <2>2. k > 0 => k - 1 \in Nat /\ k - 1 <= n
    BY <1>1, <1>2
  <2>. QED BY <1>1, <1>2, <1>3, <2>1, <2>2, MadeKept
<1>5. /\ Len(places) = m /\ \A j \in 1..m : places[j] = n + j
      /\ Tail(places) = PlacesFrom(n + 1, all)
      /\ ~r.waiting /\ NoTimer(timers, c) => OneTimer(laters, c, n + 1)
      /\ \A j \in Nat : j <= n => PlacesFrom(j, n) \o places = PlacesFrom(j, all)
  <2>1. ASSUME NEW j \in Nat, j <= n PROVE PlacesFrom(j, n) \o places = PlacesFrom(j, all)
    BY <2>1, <1>1, PlacesAdded
  <2>. QED BY <2>1
<1>6. k < all /\ n < all
  <2>1. m # 0
    BY EmptySeq
  <2>. QED BY <1>1, <1>2, <2>1
<1>. HIDE DEF k, n, all, m
<1>7. CASE Rests_(c, r, timers, asks, seen, n, k) /\ n = k
  <2>1. ~r.waiting /\ r.callbacks = <<>> /\ NoTimer(timers, c)
    BY <1>1, <1>7 DEF Rests_, Stands
  <2>2. rs.callbacks = PlacesFrom(n + 1, all)
    <3>1. Tail(places) \in Seq(Nat)
      <4>1. n + 1 <= all
        BY <1>1, <1>6
      <4>. QED BY <1>1, <1>5, <4>1, PlacesFromTyped
    <3>. QED BY <1>5, <2>1, <3>1, ConcatEmptySeq
  <2>3. Stands(c, rs, laters, all, k)
    BY <1>5, <1>6, <1>7, <2>1, <2>2 DEF Stands
  <2>4. Rests_(c, rs, laters, asks, after, all, k)
    BY <1>4, <1>7, <2>3 DEF Rests_, Has
  <2>. QED BY <1>2, <1>4, <1>6, <2>4 DEF InTurn
<1>8. CASE Rests_(c, r, timers, asks, seen, n, k) /\ n # k
  <2>1. k < n /\ r.waiting /\ r.callbacks = PlacesFrom(k + 1, n) /\ OneTimer(timers, c, k + 1)
    BY <1>8 DEF Rests_, Stands
  <2>2. rs.callbacks = PlacesFrom(k + 1, all)
    <3>1. k + 1 \in Nat /\ k + 1 <= n
      BY <1>1, <2>1
    <3>. QED BY <1>5, <2>1, <3>1
  <2>3. Stands(c, rs, laters, all, k)
    BY <1>6, <2>1, <2>2 DEF Stands
  <2>4. Rests_(c, rs, laters, asks, after, all, k)
    BY <1>4, <1>8, <2>3 DEF Rests_, Has
  <2>. QED BY <1>2, <1>4, <1>6, <2>4 DEF InTurn
<1>9. CASE Busy(c, r, timers, asks, seen, n, k)
  <2>1. k > 0 /\ r.waiting /\ r.callbacks = PlacesFrom(k, n) /\ NoTimer(timers, c)
    BY <1>9 DEF Busy
  <2>2. rs.callbacks = PlacesFrom(k, all)
    BY <1>1, <1>2, <1>5, <2>1
  <2>3. after.put[k] = seen.put[k] /\ Made(after.put, k - 1) = Made(seen.put, k - 1)
    BY <1>1, <1>2, <1>4, <2>1
  <2>4. /\ \A a \in asks : a[1] = c => a = <<c, k>>
        /\ after.broken \/ <<c, k>> \in asks
        /\ 1..(k - 1) \subseteq after.ended
        /\ after.put[k].do \notin {"call", "interpolate", "each", "swap"}
    BY <1>9, <2>3 DEF Busy
  <2>5. Has(rs, Made(after.put, k - 1), IF after.put[k].do = "load" THEN EngineOf[after.put[k].at]
                                        ELSE Made(after.put, k - 1).engine)
    BY <1>9, <2>3 DEF Busy, Has
  <2>6. Busy(c, rs, laters, asks, after, all, k)
    BY <2>1, <2>2, <2>4, <2>5 DEF Busy
  <2>. QED BY <1>2, <1>4, <1>6, <2>6 DEF InTurn
<1>. QED BY <1>2, <1>7, <1>8, <1>9

LEMMA ChainHolds ==
    ASSUME RendersInv, NEW c \in RenderContexts, NEW ops \in Seq(Chainable), Chain(c, ops),
           NEW after, renderSeen' = [renderSeen EXCEPT ![c] = after],
           after \in Seen, after.first = <<>>,
           after.careless = renderSeen[c].careless, after.broken = renderSeen[c].broken,
           after.begun = renderSeen[c].begun, after.ended = renderSeen[c].ended,
           ~after.careless => after.put = renderSeen[c].put \o ops
    PROVE  RendersInv'
<1>. DEFINE seen == renderSeen[c]
            r == renders[c]
            places == Places(c, ops)
            n == Len(seen.put)
            yes == TRUE
            rs == IF r.waiting THEN [r EXCEPT !.callbacks = r.callbacks \o places]
                  ELSE [[r EXCEPT !.waiting = yes] EXCEPT !.callbacks = r.callbacks \o Tail(places)]
            laters == IF r.waiting THEN renderTimers ELSE renderTimers \o << <<c, Head(places)>> >>
<1>1. /\ ops # <<>> /\ renderSeen \in [RenderContexts -> Seen] /\ seen \in Seen
      /\ IsContext(r) /\ renderTimers \in Seq(RenderContexts \X Nat)
      /\ renders = [d \in RenderContexts |-> renders[d]]
  BY DEF Chain, RendersInv, RendersTyped
<1>2. /\ places \in Seq(Nat) /\ Len(places) = Len(ops) /\ places # <<>>
      /\ \A j \in 1..Len(ops) : places[j] = n + j
      /\ Head(places) = n + 1 /\ Tail(places) = PlacesFrom(n + 1, n + Len(ops))
  BY <1>1, PlacesIs
<1>3. n \in Nat /\ n + 1 \in Nat /\ Tail(places) \in Seq(Nat) /\ Head(places) \in Nat
  <2>1. n \in Nat
    BY <1>1 DEF Seen
  <2>. QED BY <1>2, <2>1, HeadTailProperties
<1>4. renders' = [renders EXCEPT ![c] = rs] /\ renderTimers' = laters
  <2>1. <<c, Head(places)>> \in RenderContexts \X Nat
    BY <1>3
  <2>2. Append(renderTimers, <<c, Head(places)>>) = renderTimers \o << <<c, Head(places)>> >>
    <3>. HIDE DEF places
    <3>. QED BY <1>1, <2>1, AppendIsConcat
  <2>. QED BY <1>1, <2>2 DEF Chain
<1>5. IsContext(rs) /\ rs.waiting /\ rs.content = r.content /\ rs.previous = r.previous
      /\ rs.engine = r.engine
      /\ rs.callbacks = IF r.waiting THEN r.callbacks \o places ELSE r.callbacks \o Tail(places)
  <2>1. r.callbacks \o places \in Seq(Nat) /\ r.callbacks \o Tail(places) \in Seq(Nat)
    BY <1>1, <1>2, <1>3, ConcatProperties DEF IsContext
  <2>2. yes \in BOOLEAN /\ yes
    OBVIOUS
  <2>. HIDE DEF places, r, yes
  <2>3. CASE r.waiting
    <3>1. rs = [r EXCEPT !.callbacks = r.callbacks \o places]
      BY <2>3
    <3>. HIDE DEF rs
    <3>2. IsContext(rs) /\ rs.waiting = r.waiting /\ rs.callbacks = r.callbacks \o places
          /\ rs.content = r.content /\ rs.previous = r.previous /\ rs.engine = r.engine
      BY <1>1, <2>1, <3>1, CallbacksSet
    <3>. QED BY <2>3, <3>2
  <2>4. CASE ~r.waiting
    <3>. DEFINE s == [r EXCEPT !.waiting = yes]
    <3>1. IsContext(s) /\ s.waiting = yes /\ s.callbacks = r.callbacks
          /\ s.content = r.content /\ s.previous = r.previous /\ s.engine = r.engine
      BY <1>1, <2>2, WaitingSet
    <3>2. rs = [s EXCEPT !.callbacks = r.callbacks \o Tail(places)]
      BY <2>4
    <3>. HIDE DEF s, rs
    <3>3. IsContext(rs) /\ rs.waiting = s.waiting /\ rs.callbacks = r.callbacks \o Tail(places)
          /\ rs.content = s.content /\ rs.previous = s.previous /\ rs.engine = s.engine
      BY <2>1, <3>1, <3>2, CallbacksSet
    <3>. QED BY <2>2, <2>4, <3>1, <3>3
  <2>. QED BY <2>3, <2>4
<1>6. /\ laters \in Seq(RenderContexts \X Nat) /\ OthersKeep(c, renderTimers, laters)
      /\ ~r.waiting /\ NoTimer(renderTimers, c) => OneTimer(laters, c, n + 1)
      /\ r.waiting => laters = renderTimers
  <2>. HIDE DEF places
  <2>. QED BY <1>1, <1>2, <1>3, TimersAppended DEF OthersKeep
<1>7. InTurn(c, r, renderTimers, renderAsks, seen)
  BY DEF RendersInv
<1>8. /\ after.careless = seen.careless /\ after.broken = seen.broken
      /\ after.begun = seen.begun /\ after.ended = seen.ended
      /\ ~after.careless => after.put = seen.put \o ops
  OBVIOUS
<1>. HIDE DEF rs, laters, places, r, seen
<1>9. InTurn(c, rs, laters, renderAsks, after)
  BY <1>1, <1>2, <1>5, <1>6, <1>7, <1>8, ChainTurn
<1>10. /\ renderSeen' \in [RenderContexts -> Seen] /\ renderSeen'[c] = after
       /\ \A d \in RenderContexts \ {c} : renderSeen'[d] = renderSeen[d]
  BY <1>1
<1>11. SwapHolds(swapped', renderSeen')
  <2>1. ~seen.careless => /\ Len(seen.put) <= Len(after.put)
                          /\ \A j \in 1..Len(seen.put) : after.put[j] = seen.put[j]
    <3>1. seen.put \in Seq(Chainable)
      BY <1>1 DEF Seen
    <3>. QED BY <1>8, <3>1, ConcatProperties
  <2>2. swapped' = swapped
    BY DEF Chain
  <2>3. SwapHolds(swapped, renderSeen')
    BY <1>8, <1>10, <2>1, SwapStays DEF seen
  <2>. QED BY <2>2, <2>3
<1>12. renderAsks' = renderAsks /\ templateCache' = templateCache
  BY DEF Chain
<1>13. /\ templateCache = [l \in DOMAIN TemplateOf |-> templateCache[l]]
       /\ \A l \in DOMAIN TemplateOf : templateCache[l] \in {NoValue, TemplateOf[l]}
  BY DEF RendersInv, RendersTyped
<1>14. 0 \in Nat
  OBVIOUS
<1>. QED BY <1>4, <1>5, <1>6, <1>9, <1>10, <1>11, <1>12, <1>13, <1>14, ContextSteps

LEMMA SeqLarger ==
    ASSUME NEW S, NEW T, S \subseteq T, NEW s \in Seq(S) PROVE s \in Seq(T)
<1>1. Len(s) \in Nat /\ s \in [1..Len(s) -> S]
  BY LenProperties
<1>2. s \in [1..Len(s) -> T]
  BY <1>1
<1>. QED BY <1>1, <1>2, SeqDef

LEMMA RendersStart == RendersInit => RendersInv
<1>. SUFFICES ASSUME RendersInit PROVE RendersInv
  OBVIOUS
<1>1. ASSUME NEW p \in Programs
      PROVE  SeenOf(p) \in Seen
  <2>1. p.first \in Seq(ToSet(p.first)) /\ p.later \in Seq(ToSet(p.later))
    BY ProgramsAssumption DEF IsChained
  <2>2. ToSet(p.first) \subseteq Chainable /\ ToSet(p.later) \subseteq Chainable
    <3>1. ChainedOf(p) \subseteq Chained
      BY DEF Chained
    <3>. QED BY <3>1 DEF ChainedOf, Chainable
  <2>3. p.first \in Seq(Chainable) /\ p.later \in Seq(Chainable)
    BY <2>1, <2>2, SeqLarger
  <2>4. <<>> \in Seq(Chainable) /\ <<>> \in Seq(Nat)
    OBVIOUS
  <2>. QED BY <2>3, <2>4 DEF SeenOf, Seen
<1>2. renderSeen \in [RenderContexts -> {SeenOf(p) : p \in Programs}]
  BY DEF RendersInit
<1>3. \A c \in RenderContexts : \E p \in Programs : renderSeen[c] = SeenOf(p)
  BY <1>2
<1>4. renderSeen \in [RenderContexts -> Seen]
  BY <1>1, <1>2, <1>3
<1>5. IsContext(NewContext)
  BY MadeIsContext, MadeNone
<1>6. <<>> \in Seq(RenderContexts \X Nat)
  OBVIOUS
<1>7. RendersTyped
  BY <1>4, <1>5, <1>6 DEF RendersInit, RendersTyped
<1>8. ASSUME NEW c \in RenderContexts
      PROVE  InTurn(c, renders[c], renderTimers, renderAsks, renderSeen[c])
  <2>. DEFINE seen == renderSeen[c]
  <2>1. seen.put = <<>> /\ seen.begun = <<>>
    <3>1. PICK p \in Programs : seen = SeenOf(p)
      BY <1>3
    <3>. HIDE DEF seen
    <3>. QED BY <3>1 DEF SeenOf
  <2>2. Len(seen.put) = 0 /\ Len(seen.begun) = 0
    BY <2>1
  <2>3. renders[c] = NewContext /\ renderAsks = {} /\ NoTimer(renderTimers, c)
    BY DEF RendersInit, NoTimer
  <2>4. ~NewContext.waiting /\ NewContext.callbacks = <<>>
    BY DEF NewContext
  <2>5. Made(seen.put, 0) = NewContext
    BY MadeNone
  <2>. HIDE DEF seen
  <2>6. Rests_(c, renders[c], renderTimers, renderAsks, seen, 0, 0)
    BY <2>3, <2>4, <2>5 DEF Rests_, Stands, Has
  <2>. QED BY <2>2, <2>6 DEF InTurn, seen
<1>9. swapped.at = 0
  BY DEF RendersInit
<1>. QED BY <1>7, <1>8, <1>9 DEF RendersInv

LEMMA FirstChained ==
    ASSUME RendersInv, NEW c \in RenderContexts, ChainFirst(c) PROVE RendersInv'
<1>. DEFINE seen == renderSeen[c]
            after == [seen EXCEPT !.put = seen.first, !.first = <<>>]
<1>1. Chain(c, seen.first) /\ renderSeen' = [renderSeen EXCEPT ![c] = after]
      /\ seen \in Seen /\ seen.first \in Seq(Chainable) /\ seen.first # <<>>
      /\ seen.put \in Seq(Chainable)
  BY DEF ChainFirst, Chain, RendersInv, RendersTyped, Seen
<1>2. /\ after \in Seen /\ after.first = <<>> /\ after.put = seen.first
      /\ after.careless = seen.careless /\ after.broken = seen.broken
      /\ after.begun = seen.begun /\ after.ended = seen.ended
  <2>1. <<>> \in Seq(Chainable)
    OBVIOUS
  <2>. HIDE DEF seen
  <2>. QED BY <1>1, <2>1 DEF Seen
<1>3. ASSUME ~after.careless PROVE after.put = seen.put \o seen.first
  <2>1. InTurn(c, renders[c], renderTimers, renderAsks, seen)
    BY DEF RendersInv
  <2>2. Len(seen.put) = 0
    BY <1>1, <1>2, <1>3, <2>1 DEF InTurn
  <2>3. seen.put = <<>>
    BY <1>1, <2>2, EmptySeq
  <2>. QED BY <1>1, <1>2, <2>3, ConcatEmptySeq
<1>. HIDE DEF after
<1>. QED BY <1>1, <1>2, <1>3, ChainHolds

LEMMA LaterChained ==
    ASSUME RendersInv, NEW c \in RenderContexts, ChainLater(c) PROVE RendersInv'
<1>. DEFINE seen == renderSeen[c]
            after == [seen EXCEPT !.put = @ \o seen.later, !.later = <<>>]
<1>1. Chain(c, seen.later) /\ renderSeen' = [renderSeen EXCEPT ![c] = after]
      /\ seen \in Seen /\ seen.later \in Seq(Chainable) /\ seen.put \in Seq(Chainable)
      /\ seen.first = <<>>
  BY DEF ChainLater, Chain, RendersInv, RendersTyped, Seen
<1>2. /\ after \in Seen /\ after.first = <<>> /\ after.put = seen.put \o seen.later
      /\ after.careless = seen.careless /\ after.broken = seen.broken
      /\ after.begun = seen.begun /\ after.ended = seen.ended
  <2>1. <<>> \in Seq(Chainable) /\ seen.put \o seen.later \in Seq(Chainable)
    BY <1>1, ConcatProperties
  <2>. HIDE DEF seen
  <2>. QED BY <1>1, <2>1 DEF Seen
<1>. HIDE DEF after
<1>. QED BY <1>1, <1>2, ChainHolds

(***************************************************************************)
(* next(), whatever the context: the other contexts do not notice.         *)
(***************************************************************************)
LEMMA NextKeeps ==
    ASSUME NEW c \in RenderContexts, NEW r, IsContext(r), NEW value,
           NEW timers \in Seq(RenderContexts \X Nat)
    PROVE  LET m == NextOf(c, r, value)
           IN  /\ IsContext(m.context)
               /\ timers \o m.timers \in Seq(RenderContexts \X Nat)
               /\ OthersKeep(c, timers, timers \o m.timers)
<1>. DEFINE no == FALSE
            yes == TRUE
            g == Given(r, value)
            given == [g EXCEPT !.waiting = no]
            m == NextOf(c, r, value)
<1>1. IsContext(g)
  BY GivenIs
<1>2. no \in BOOLEAN /\ yes \in BOOLEAN
  OBVIOUS
<1>3. m = IF given.callbacks = <<>>
          THEN [context |-> given, timers |-> <<>>]
          ELSE [context |-> [given EXCEPT !.waiting = yes, !.callbacks = Tail(@)],
                timers |-> << <<c, Head(given.callbacks)>> >>]
  BY DEF NextOf, Taken_
<1>. HIDE DEF g, no, yes
<1>4. IsContext(given)
  BY <1>1, <1>2, WaitingSet
<1>. HIDE DEF given, m
<1>5. given.callbacks \in Seq(Nat)
  BY <1>4 DEF IsContext
<1>6. CASE given.callbacks = <<>>
  <2>1. m.context = given /\ m.timers = <<>>
    BY <1>3, <1>6
  <2>2. timers \o m.timers = timers
    BY <2>1, ConcatEmptySeq
  <2>. QED BY <1>4, <2>1, <2>2 DEF OthersKeep, m
<1>7. CASE given.callbacks # <<>>
  <2>. DEFINE s == [given EXCEPT !.waiting = yes]
              t == [s EXCEPT !.callbacks = Tail(given.callbacks)]
  <2>1. IsContext(s)
    BY <1>2, <1>4, WaitingSet
  <2>2. Tail(given.callbacks) \in Seq(Nat) /\ Head(given.callbacks) \in Nat
    BY <1>5, <1>7, HeadTailProperties
  <2>3. m.context = t /\ m.timers = << <<c, Head(given.callbacks)>> >>
    BY <1>3, <1>7
  <2>. HIDE DEF s
  <2>4. IsContext(t)
    BY <2>1, <2>2, CallbacksSet
  <2>. HIDE DEF t
  <2>. QED BY <2>2, <2>3, <2>4, TimersAppended DEF OthersKeep, m
<1>. QED BY <1>6, <1>7

(***************************************************************************)
(* What a beginning leaves of the turn: the place is not over yet.         *)
(***************************************************************************)
OwnOf(op, n) == IF op.then THEN <<n + 1>> ELSE <<>>

BegunSays(c, i, over) ==
    LET seen == renderSeen[c]
        then == renderSeen'[c]
        op == seen.put[i]
        n == Len(seen.put)
        w == Made(then.put, i - 1)
        r == renders[c]
    IN  /\ op.do # "wait" /\ then.put[i] = op /\ op \in Chainable
        /\ Len(then.begun) = i /\ \A j \in 1..i : then.begun[j] = j
        /\ then.first = <<>> /\ i <= Len(then.put)
        /\ r.waiting /\ NoTimer(Tail(renderTimers), c)
        /\ r.callbacks \o OwnOf(op, n) = PlacesFrom(i, Len(then.put))
        /\ \A a \in renderAsks : a[1] # c
        /\ 1..(i - 1) \subseteq then.ended /\ (over => 1..i \subseteq then.ended)
        /\ then.broken <=> seen.broken \/ op.do = "throw"
        /\ IsContext(w) /\ Has(r, w, w.engine)

LEMMA BegunIs ==
    ASSUME RendersInv, NEW c \in RenderContexts, NEW i \in 1..Len(renderSeen[c].put),
           NEW over \in BOOLEAN, Begins(c, i, over), ~renderSeen'[c].careless
    PROVE  BegunSays(c, i, over)
<1>. DEFINE seen == renderSeen[c]
            then == renderSeen'[c]
            op == seen.put[i]
            n == Len(seen.put)
            r == renders[c]
<1>1. /\ renderSeen \in [RenderContexts -> Seen] /\ seen \in Seen
      /\ renderTimers \in Seq(RenderContexts \X Nat)
      /\ InTurn(c, r, renderTimers, renderAsks, seen)
  BY DEF RendersInv, RendersTyped
<1>2. seen.put \in Seq(Chainable) /\ seen.begun \in Seq(Nat) /\ n \in Nat /\ i \in Nat
      /\ op \in Chainable
  BY <1>1 DEF Seen
<1>3. /\ then.put = PutAfter(seen.put, i) /\ then.first = seen.first
      /\ then.begun = Append(seen.begun, i)
      /\ then.ended = IF over THEN seen.ended \cup {i} ELSE seen.ended
      /\ then.broken <=> seen.broken \/ op.do = "throw"
      /\ then.careless <=> seen.careless \/ op.do = "wait"
  BY <1>1, <1>2, BeginsSeen
<1>4. renderTimers # <<>> /\ Head(renderTimers) = <<c, i>>
  BY DEF Begins
<1>5. ~seen.careless /\ op.do # "wait"
  BY <1>3
<1>. HIDE DEF seen, then, r
<1>6. /\ Len(seen.begun) = i - 1
      /\ \A j \in 1..(i - 1) : seen.begun[j] = j
      /\ seen.first = <<>>
      /\ r.waiting /\ r.callbacks = PlacesFrom(i, n) /\ NoTimer(Tail(renderTimers), c)
      /\ \A a \in renderAsks : a[1] # c
      /\ 1..(i - 1) \subseteq seen.ended
      /\ Has(r, Made(seen.put, i - 1), Made(seen.put, i - 1).engine)
  <2>1. seen \in Seen /\ i \in Nat /\ renderTimers \in Seq(RenderContexts \X Nat)
        /\ InTurn(c, r, renderTimers, renderAsks, seen) /\ ~seen.careless
        /\ renderTimers # <<>> /\ Head(renderTimers) = <<c, i>>
    BY <1>1, <1>2, <1>4, <1>5
  <2>2. AtHandSays(c, r, renderTimers, renderAsks, seen, i)
    BY <2>1, AtHand
  <2>. QED BY <2>2 DEF AtHandSays
<1>7. Len(then.begun) = i /\ \A j \in 1..i : then.begun[j] = j
  BY <1>2, <1>3, <1>6, AppendProperties
<1>8. /\ Len(then.put) = IF op.then THEN n + 1 ELSE n
      /\ then.put[i] = op
      /\ Made(then.put, i - 1) = Made(seen.put, i - 1)
  <2>1. i \in 1..Len(seen.put)
    BY DEF seen
  <2>2. i - 1 \in 0..n
    BY <1>2, <2>1
  <2>. QED BY <1>2, <1>3, <2>1, <2>2, PutAfterIs
<1>9. r.callbacks \o OwnOf(op, n) = PlacesFrom(i, Len(then.put))
  <2>0. i <= n /\ PlacesFrom(i, n) \in Seq(Nat)
    <3>1. i <= n
      BY <1>2 DEF seen
    <3>. HIDE DEF n
    <3>. QED BY <1>2, <3>1, PlacesFromTyped
  <2>1. CASE op.then
    <3>. DEFINE own == <<n + 1>>
    <3>1. own \in Seq(Nat) /\ Len(own) = 1 /\ own[1] = n + 1
      BY <1>2
    <3>2. \A j \in 1..1 : j = 1
      OBVIOUS
    <3>. HIDE DEF n, op, own
    <3>3. PlacesFrom(i, n) \o own = PlacesFrom(i, n + 1)
      <4>1. \A j \in 1..1 : own[j] = n + j
        BY <3>1, <3>2
      <4>2. 1 \in Nat /\ i \in Nat /\ n \in Nat /\ i <= n /\ own \in Seq(Nat) /\ Len(own) = 1
        BY <1>2, <2>0, <3>1
      <4>. QED BY <4>1, <4>2, PlacesAdded
    <3>. QED BY <1>6, <1>8, <2>1, <3>3 DEF OwnOf, own
  <2>2. CASE ~op.then
    BY <1>6, <1>8, <2>0, <2>2, ConcatEmptySeq DEF OwnOf
  <2>. QED BY <2>1, <2>2
<1>10. i <= Len(then.put)
  BY <1>2, <1>8 DEF seen
<1>11. 1..(i - 1) \subseteq then.ended /\ (over => 1..i \subseteq then.ended)
  <2>1. \A j \in 1..i : j = i \/ j \in 1..(i - 1)
    BY <1>2
  <2>. QED BY <1>3, <1>6, <2>1
<1>12. IsContext(Made(then.put, i - 1))
  <2>1. i - 1 \in Nat
    BY <1>2
  <2>. QED BY <2>1, MadeIsContext
<1>13. then.first = <<>> /\ (then.broken <=> seen.broken \/ op.do = "throw")
       /\ Has(r, Made(then.put, i - 1), Made(then.put, i - 1).engine)
  BY <1>3, <1>6, <1>8
<1>. HIDE DEF op
<1>. QED BY <1>2, <1>5, <1>6, <1>7, <1>8, <1>9, <1>10, <1>11, <1>12, <1>13
   DEF seen, then, op, r, BegunSays

(***************************************************************************)
(* What a beginning leaves of the rest.                                    *)
(***************************************************************************)
LEMMA BegunKeeps ==
    ASSUME RendersInv, NEW c \in RenderContexts, NEW i \in 1..Len(renderSeen[c].put),
           NEW over \in BOOLEAN, Begins(c, i, over)
    PROVE  /\ i \in Nat /\ renderSeen' \in [RenderContexts -> Seen]
           /\ \A d \in RenderContexts \ {c} : renderSeen'[d] = renderSeen[d]
           /\ renderSeen[c] \in Seen /\ IsContext(renders[c])
           /\ renderSeen[c].careless => renderSeen'[c].careless
           /\ Tail(renderTimers) \in Seq(RenderContexts \X Nat)
           /\ OthersKeep(c, renderTimers, Tail(renderTimers))
           /\ SwapHolds(swapped, renderSeen')
           /\ \A j \in 0..Len(renderSeen[c].put) :
                 Made(renderSeen'[c].put, j) = Made(renderSeen[c].put, j)
<1>. DEFINE seen == renderSeen[c]
            then == renderSeen'[c]
<1>1. /\ renderSeen \in [RenderContexts -> Seen] /\ seen \in Seen
      /\ renderTimers \in Seq(RenderContexts \X Nat) /\ IsContext(renders[c])
  BY DEF RendersInv, RendersTyped
<1>2. seen.put \in Seq(Chainable) /\ i \in Nat /\ i \in 1..Len(seen.put)
  BY <1>1 DEF Seen
<1>3. /\ renderSeen' \in [RenderContexts -> Seen]
      /\ \A d \in RenderContexts \ {c} : renderSeen'[d] = renderSeen[d]
      /\ then.put = PutAfter(seen.put, i)
      /\ then.careless <=> seen.careless \/ seen.put[i].do = "wait"
  BY <1>1, <1>2, BeginsSeen
<1>4. renderTimers # <<>> /\ Head(renderTimers) = <<c, i>>
  BY DEF Begins
<1>5. /\ Tail(renderTimers) \in Seq(RenderContexts \X Nat)
      /\ OthersKeep(c, renderTimers, Tail(renderTimers))
  BY <1>1, <1>2, <1>4, TimersTail DEF OthersKeep
<1>6. /\ Len(seen.put) <= Len(then.put)
      /\ \A j \in 1..Len(seen.put) : then.put[j] = seen.put[j]
      /\ \A j \in 0..Len(seen.put) : Made(then.put, j) = Made(seen.put, j)
  BY <1>2, <1>3, PutAfterIs
<1>. HIDE DEF seen, then
<1>7. SwapHolds(swapped, renderSeen')
  BY <1>3, <1>6, SwapStays DEF seen, then
<1>. QED BY <1>1, <1>2, <1>3, <1>5, <1>6, <1>7 DEF seen, then

(***************************************************************************)
(* A place that begins and is over at once.                                *)
(***************************************************************************)
LEMMA GoesOnAtOnce ==
    ASSUME RendersInv, NEW c \in RenderContexts, NEW i \in 1..Len(renderSeen[c].put),
           NEW over \in BOOLEAN, Begins(c, i, over), NEW r, IsContext(r),
           r.content = renders[c].content, r.previous = renders[c].previous,
           r.engine = EngineAfter(renders[c], renderSeen[c].put[i]),
           r.callbacks = renders[c].callbacks
                           \o OwnOf(renderSeen[c].put[i], Len(renderSeen[c].put)),
           NEW value, GoesNext(c, r, value, Tail(renderTimers)),
           ~renderSeen'[c].careless =>
             /\ over /\ renderAsks' = renderAsks
             /\ value = ValueOf(renders[c], renderSeen[c].put[i]),
           \A a : a # <<c, i>> => (a \in renderAsks <=> a \in renderAsks'),
           templateCache' = templateCache, SwapHolds(swapped', renderSeen')
    PROVE  RendersInv'
<1>. DEFINE seen == renderSeen[c]
            then == renderSeen'[c]
            op == seen.put[i]
            before == renders[c]
            timers == Tail(renderTimers)
            m == NextOf(c, r, value)
            w == Made(then.put, i - 1)
<1>1. /\ i \in Nat /\ renderSeen' \in [RenderContexts -> Seen]
      /\ \A d \in RenderContexts \ {c} : renderSeen'[d] = renderSeen[d]
      /\ then \in Seen /\ IsContext(before)
      /\ timers \in Seq(RenderContexts \X Nat)
      /\ OthersKeep(c, renderTimers, timers)
  BY BegunKeeps
<1>2. /\ IsContext(m.context)
      /\ timers \o m.timers \in Seq(RenderContexts \X Nat)
      /\ OthersKeep(c, timers, timers \o m.timers)
  BY <1>1, NextKeeps
<1>3. renders' = [renders EXCEPT ![c] = m.context] /\ renderTimers' = timers \o m.timers
  BY DEF GoesNext
<1>4. OthersKeep(c, renderTimers, timers \o m.timers)
  BY <1>1, <1>2 DEF OthersKeep
<1>5. ASSUME ~then.careless
      PROVE  InTurn(c, m.context, timers \o m.timers, renderAsks', then)
  <2>1. /\ then.put[i] = op
        /\ Len(then.begun) = i /\ \A j \in 1..i : then.begun[j] = j
        /\ then.first = <<>> /\ i <= Len(then.put)
        /\ NoTimer(timers, c)
        /\ before.callbacks \o OwnOf(op, Len(seen.put)) = PlacesFrom(i, Len(then.put))
        /\ \A a \in renderAsks : a[1] # c
        /\ over => 1..i \subseteq then.ended
        /\ IsContext(w) /\ Has(before, w, w.engine)
    <3>1. BegunSays(c, i, over)
      BY <1>5, BegunIs
    <3>. QED BY <3>1 DEF BegunSays
  <2>2. over /\ renderAsks' = renderAsks /\ value = ValueOf(before, op)
    BY <1>5
  <2>3. Len(then.put) \in Nat
    BY <1>1 DEF Seen
  <2>. HIDE DEF seen, before, timers, m, op, then
  <2>4. ValueOf(before, op) = ValueOf(w, op) /\ EngineAfter(before, op) = EngineAfter(w, op)
    BY <2>1 DEF ValueOf, EngineAfter, Has, Rendered_
  <2>5. Has(r, w, EngineAfter(w, op))
    BY <2>1, <2>4 DEF Has, before, op, seen
  <2>6. Made(then.put, i) = Work(w, op)
    <3>1. i \in Nat \ {0}
      BY <1>1
    <3>. QED BY <2>1, <3>1, MadeNext
  <2>7. /\ Has(Given(r, value), Made(then.put, i), Given(r, value).engine)
        /\ r.engine = Made(then.put, i).engine
    BY <2>1, <2>2, <2>4, <2>5, <2>6, WorkFollows
  <2>8. r.callbacks = PlacesFrom(i, Len(then.put))
    BY <2>1 DEF before, op, seen
  <2>9. InTurn(c, m.context, timers \o m.timers, renderAsks, then)
    BY <1>1, <2>1, <2>2, <2>3, <2>7, <2>8, MovesOn DEF m
  <2>. QED BY <2>2, <2>9
<1>6. InTurn(c, m.context, timers \o m.timers, renderAsks', then)
  BY <1>5 DEF InTurn
<1>7. /\ templateCache = [l \in DOMAIN TemplateOf |-> templateCache[l]]
      /\ \A l \in DOMAIN TemplateOf : templateCache[l] \in {NoValue, TemplateOf[l]}
  BY DEF RendersInv, RendersTyped
<1>. HIDE DEF m, timers
<1>. QED BY <1>1, <1>2, <1>3, <1>4, <1>6, <1>7, ContextSteps

(***************************************************************************)
(* A place that begins and waits.                                          *)
(***************************************************************************)
LEMMA WaitsForIt ==
    ASSUME RendersInv, NEW c \in RenderContexts, NEW i \in 1..Len(renderSeen[c].put),
           Begins(c, i, FALSE), NEW r, IsContext(r),
           renderSeen[c].put[i].do \in {"load", "send", "throw"},
           r.waiting = renders[c].waiting,
           r.content = renders[c].content, r.previous = renders[c].previous,
           r.engine = EngineAfter(renders[c], renderSeen[c].put[i]),
           r.callbacks = renders[c].callbacks
                           \o OwnOf(renderSeen[c].put[i], Len(renderSeen[c].put)),
           renders' = [renders EXCEPT ![c] = r], renderTimers' = Tail(renderTimers),
           renderAsks' = IF renderSeen[c].put[i].do = "throw" THEN renderAsks
                         ELSE renderAsks \cup {<<c, i>>},
           templateCache' = templateCache, swapped' = swapped
    PROVE  RendersInv'
<1>. DEFINE seen == renderSeen[c]
            then == renderSeen'[c]
            op == seen.put[i]
            before == renders[c]
            timers == Tail(renderTimers)
            w == Made(then.put, i - 1)
            no == FALSE
<1>0. no \in BOOLEAN /\ Begins(c, i, no)
  OBVIOUS
<1>. HIDE DEF no
<1>1. /\ i \in Nat /\ renderSeen' \in [RenderContexts -> Seen]
      /\ \A d \in RenderContexts \ {c} : renderSeen'[d] = renderSeen[d]
      /\ then \in Seen /\ timers \in Seq(RenderContexts \X Nat)
      /\ OthersKeep(c, renderTimers, timers) /\ SwapHolds(swapped, renderSeen')
  BY <1>0, BegunKeeps
<1>2. ASSUME ~then.careless
      PROVE  InTurn(c, r, timers, renderAsks', then)
  <2>1. /\ then.put[i] = op
        /\ Len(then.begun) = i /\ \A j \in 1..i : then.begun[j] = j
        /\ then.first = <<>> /\ i <= Len(then.put)
        /\ before.waiting /\ NoTimer(timers, c)
        /\ before.callbacks \o OwnOf(op, Len(seen.put)) = PlacesFrom(i, Len(then.put))
        /\ \A a \in renderAsks : a[1] # c
        /\ 1..(i - 1) \subseteq then.ended
        /\ then.broken <=> seen.broken \/ op.do = "throw"
        /\ IsContext(w) /\ Has(before, w, w.engine)
    <3>1. BegunSays(c, i, no)
      BY <1>0, <1>2, BegunIs
    <3>. QED BY <3>1 DEF BegunSays
  <2>2. /\ r.waiting = before.waiting
        /\ r.content = before.content /\ r.previous = before.previous
        /\ r.engine = EngineAfter(before, op)
        /\ r.callbacks = before.callbacks \o OwnOf(op, Len(seen.put))
        /\ renderAsks' = IF op.do = "throw" THEN renderAsks ELSE renderAsks \cup {<<c, i>>}
        /\ op.do \in {"load", "send", "throw"}
    OBVIOUS
  <2>. HIDE DEF seen, before, timers, op, then
  <2>3. Has(r, w, IF op.do = "load" THEN EngineOf[op.at] ELSE w.engine)
    BY <2>1, <2>2 DEF EngineAfter, Has
  <2>4. \A a \in renderAsks' : a[1] = c => a = <<c, i>>
    BY <2>1, <2>2
  <2>5. then.broken \/ <<c, i>> \in renderAsks'
    BY <2>1, <2>2
  <2>6. Busy(c, r, timers, renderAsks', then, Len(then.put), i)
    <3>1. i > 0
      BY <1>1
    <3>. QED BY <2>1, <2>2, <2>3, <2>4, <2>5, <3>1 DEF Busy
  <2>. QED BY <2>1, <2>6 DEF InTurn
<1>3. InTurn(c, r, timers, renderAsks', then)
  BY <1>2 DEF InTurn
<1>4. /\ templateCache = [l \in DOMAIN TemplateOf |-> templateCache[l]]
      /\ \A l \in DOMAIN TemplateOf : templateCache[l] \in {NoValue, TemplateOf[l]}
  BY DEF RendersInv, RendersTyped
<1>5. \A a : a # <<c, i>> => (a \in renderAsks <=> a \in renderAsks')
  OBVIOUS
<1>. HIDE DEF timers
<1>. QED BY <1>1, <1>3, <1>4, <1>5, ContextSteps DEF timers

LEMMA OpIs ==
    ASSUME RendersInv, NEW c \in RenderContexts, NEW i \in 1..Len(renderSeen[c].put)
    PROVE  /\ renderSeen[c].put[i] \in Chainable /\ IsContext(renders[c]) /\ i \in Nat
           /\ renderSeen[c].put \in Seq(Chainable)
           /\ renders[c].callbacks \in Seq(Nat)
           /\ OwnOf(renderSeen[c].put[i], Len(renderSeen[c].put)) \in Seq(Nat)
           /\ renderSeen[c].put[i].do # "load" =>
                 renders[c].callbacks
                   \o OwnOf(renderSeen[c].put[i], Len(renderSeen[c].put)) = renders[c].callbacks
<1>. DEFINE put == renderSeen[c].put
            op == put[i]
<1>1. put \in Seq(Chainable) /\ IsContext(renders[c]) /\ renders[c].callbacks \in Seq(Nat)
  BY DEF RendersInv, RendersTyped, Seen, IsContext
<1>. HIDE DEF put
<1>2. op \in Chainable /\ i \in Nat /\ Len(put) \in Nat /\ Len(put) + 1 \in Nat
  BY <1>1 DEF put
<1>3. OwnOf(op, Len(put)) \in Seq(Nat)
  BY <1>2 DEF OwnOf
<1>4. op.do # "load" => OwnOf(op, Len(put)) = <<>>
  BY <1>2, ChainableIs, ProgramsAssumption DEF OwnOf
<1>. QED BY <1>1, <1>2, <1>3, <1>4, ConcatEmptySeq DEF put

LEMMA LoadHolds ==
    ASSUME RendersInv, NEW c \in RenderContexts, NEW i \in 1..Len(renderSeen[c].put), Load(c, i)
    PROVE  RendersInv'
<1>. DEFINE op == renderSeen[c].put[i]
            before == renders[c]
            own == OwnOf(op, Len(renderSeen[c].put))
            s == [before EXCEPT !.engine = EngineOf[op.at]]
            r == [s EXCEPT !.callbacks = before.callbacks \o own]
            cached == templateCache[op.at]
            hit == op.cache /\ cached \notin {NoValue, EmptyTemplate}
            no == FALSE
<1>1. /\ op \in Chainable /\ IsContext(before) /\ i \in Nat
      /\ before.callbacks \in Seq(Nat) /\ own \in Seq(Nat)
  BY OpIs
<1>2. op.do = "load" /\ op.at \in DOMAIN TemplateOf /\ cached \in {NoValue, TemplateOf[op.at]}
  <2>1. op.do = "load"
    BY DEF Load
  <2>2. op.at \in DOMAIN TemplateOf
    BY <1>1, <2>1, ChainableIs, ProgramsAssumption
  <2>. QED BY <2>1, <2>2 DEF RendersInv, RendersTyped
<1>3. /\ IsContext(r) /\ r.waiting = before.waiting /\ r.content = before.content
      /\ r.previous = before.previous /\ r.engine = EngineOf[op.at]
      /\ r.callbacks = before.callbacks \o own
  <2>1. before.callbacks \o own \in Seq(Nat)
    BY <1>1, ConcatProperties
  <2>2. /\ IsContext(s) /\ s.waiting = before.waiting /\ s.content = before.content
        /\ s.previous = before.previous /\ s.engine = EngineOf[op.at]
    BY <1>1, EngineSet
  <2>. HIDE DEF s, before, op, own
  <2>. QED BY <2>1, <2>2, CallbacksSet
<1>4. r = [before EXCEPT !.engine = EngineOf[op.at], !.callbacks = @ \o own]
  <2>1. s.callbacks = before.callbacks
    BY <1>1, EngineSet
  <2>. QED BY <2>1
<1>5. r.engine = EngineAfter(before, op)
  BY <1>2, <1>3 DEF EngineAfter
<1>6. ValueOf(before, op) = TemplateOf[op.at]
  BY <1>2 DEF ValueOf
<1>7. ~GoesOn("load")
  BY DEF GoesOn
<1>8. /\ Begins(c, i, hit) /\ templateCache' = templateCache /\ swapped' = swapped
      /\ IF hit
         THEN GoesNext(c, r, cached, Tail(renderTimers)) /\ renderAsks' = renderAsks
         ELSE /\ renderAsks' = renderAsks \cup {<<c, i>>}
              /\ renders' = [renders EXCEPT ![c] = r]
              /\ renderTimers' = Tail(renderTimers)
  <2>. HIDE DEF r
  <2>. QED BY <1>4, <1>7 DEF Load, OwnOf
<1>. HIDE DEF r
<1>9. CASE hit
  <2>. DEFINE over == hit
  <2>1. over \in BOOLEAN /\ over /\ Begins(c, i, over)
    BY <1>8, <1>9
  <2>. HIDE DEF over
  <2>2. cached = ValueOf(before, op)
    BY <1>2, <1>6, <1>9
  <2>3. SwapHolds(swapped', renderSeen')
    BY <1>8, <2>1, BegunKeeps
  <2>4. GoesNext(c, r, cached, Tail(renderTimers)) /\ renderAsks' = renderAsks
    BY <1>8, <1>9
  <2>. QED BY <1>3, <1>5, <1>8, <2>1, <2>2, <2>3, <2>4, GoesOnAtOnce
<1>10. CASE ~hit
  <2>1. Begins(c, i, no)
    <3>1. hit = no
      BY <1>10
    <3>. QED BY <1>8, <3>1
  <2>2. renderAsks' = renderAsks \cup {<<c, i>>} /\ renders' = [renders EXCEPT ![c] = r]
        /\ renderTimers' = Tail(renderTimers)
    BY <1>8, <1>10
  <2>3. op.do \in {"load", "send", "throw"} /\ op.do # "throw"
    BY <1>2
  <2>. QED BY <1>3, <1>5, <1>8, <2>1, <2>2, <2>3, WaitsForIt
<1>. QED BY <1>9, <1>10

LEMMA RenderHolds ==
    ASSUME RendersInv, NEW c \in RenderContexts, NEW i \in 1..Len(renderSeen[c].put), Render(c, i)
    PROVE  RendersInv'
<1>. DEFINE op == renderSeen[c].put[i]
            before == renders[c]
            r == AfterRender(before, op)
            value == Rendered_(before, op)
            over == TRUE
<1>1. over \in BOOLEAN /\ over /\ Begins(c, i, over)
  BY DEF Render
<1>2. /\ op.do \in {"interpolate", "each"} /\ GoesNext(c, r, value, Tail(renderTimers))
      /\ renderAsks' = renderAsks /\ templateCache' = templateCache /\ swapped' = swapped
  BY DEF Render
<1>3. /\ IsContext(before)
      /\ before.callbacks \o OwnOf(op, Len(renderSeen[c].put)) = before.callbacks
  BY <1>2, OpIs
<1>4. /\ IsContext(r) /\ r.content = before.content /\ r.previous = before.previous
      /\ r.callbacks = before.callbacks
      /\ r.engine = IF op.do = "interpolate" THEN NoEngine ELSE before.engine
  BY <1>3, RenderIs
<1>5. r.engine = EngineAfter(before, op) /\ value = ValueOf(before, op)
  BY <1>2, <1>4 DEF EngineAfter, ValueOf
<1>. HIDE DEF over, r, value
<1>6. SwapHolds(swapped', renderSeen')
  BY <1>1, <1>2, BegunKeeps
<1>. QED BY <1>1, <1>2, <1>3, <1>4, <1>5, <1>6, GoesOnAtOnce

LEMMA SwapHoldsOn ==
    ASSUME RendersInv, NEW c \in RenderContexts, NEW i \in 1..Len(renderSeen[c].put), Swap(c, i)
    PROVE  RendersInv'
<1>. DEFINE seen == renderSeen[c]
            then == renderSeen'[c]
            op == seen.put[i]
            before == renders[c]
            over == TRUE
<1>1. over \in BOOLEAN /\ over /\ Begins(c, i, over)
  BY DEF Swap
<1>2. /\ op.do = "swap" /\ GoesNext(c, before, NoValue, Tail(renderTimers))
      /\ renderAsks' = renderAsks /\ templateCache' = templateCache
      /\ swapped' = [by |-> c, at |-> i, content |-> before.content]
  BY DEF Swap
<1>3. /\ op \in Chainable /\ IsContext(before)
      /\ before.callbacks \o OwnOf(op, Len(seen.put)) = before.callbacks
  BY <1>2, OpIs
<1>4. before.engine = EngineAfter(before, op) /\ ValueOf(before, op) = NoValue
  <2>1. op.value = NoValue
    BY <1>2, <1>3, ChainableIs, ProgramsAssumption
  <2>. QED BY <1>2, <2>1 DEF EngineAfter, ValueOf
<1>. HIDE DEF over
<1>5. SwapHolds(swapped', renderSeen')
  <2>1. ASSUME ~then.careless
        PROVE  i \in 1..Len(then.put) /\ before.content = Made(then.put, i - 1).content
    <3>1. BegunSays(c, i, over)
      BY <1>1, <2>1, BegunIs
    <3>2. i <= Len(then.put) /\ Has(before, Made(then.put, i - 1), Made(then.put, i - 1).engine)
      BY <3>1 DEF BegunSays
    <3>3. Len(then.put) \in Nat
      BY <1>1, BegunKeeps DEF Seen
    <3>. QED BY <3>2, <3>3 DEF Has
  <2>. HIDE DEF then
  <2>. QED BY <1>2, <2>1 DEF SwapHolds, MadeBy, then
<1>. QED BY <1>1, <1>2, <1>3, <1>4, <1>5, GoesOnAtOnce

LEMMA CallHolds ==
    ASSUME RendersInv, NEW c \in RenderContexts, NEW i \in 1..Len(renderSeen[c].put), CallOwn(c, i)
    PROVE  RendersInv'
<1>. DEFINE seen == renderSeen[c]
            op == seen.put[i]
            before == renders[c]
            over == op.do = "call"
            no == FALSE
            value == IF op.do = "call" THEN op.value ELSE NoValue
<1>1. /\ over \in BOOLEAN /\ Begins(c, i, over) /\ op.do \in {"call", "throw", "send", "wait"}
      /\ templateCache' = templateCache /\ swapped' = swapped
      /\ renderAsks' = IF op.do \in {"send", "wait"} THEN renderAsks \cup {<<c, i>>}
                       ELSE renderAsks
  BY DEF CallOwn
<1>2. IF op.do \in {"call", "wait"} THEN GoesNext(c, before, value, Tail(renderTimers))
      ELSE renders' = renders /\ renderTimers' = Tail(renderTimers)
  BY DEF CallOwn, GoesOn
<1>3. /\ IsContext(before) /\ renders = [renders EXCEPT ![c] = before]
      /\ before.callbacks \o OwnOf(op, Len(seen.put)) = before.callbacks
  BY <1>1, OpIs DEF RendersInv, RendersTyped
<1>4. before.engine = EngineAfter(before, op) /\ ValueOf(before, op) = op.value
  BY <1>1 DEF EngineAfter, ValueOf
<1>5. over <=> op.do = "call"
  OBVIOUS
<1>6. CASE op.do \in {"call", "wait"}
  <2>. HIDE DEF over
  <2>1. SwapHolds(swapped', renderSeen')
    BY <1>1, BegunKeeps
  <2>2. ~renderSeen'[c].careless => op.do # "wait"
    <3>1. i \in Nat /\ renderSeen \in [RenderContexts -> Seen]
      BY DEF RendersInv, RendersTyped
    <3>. QED BY <1>1, <3>1, BeginsSeen
  <2>3. ~renderSeen'[c].careless =>
           over /\ renderAsks' = renderAsks /\ value = ValueOf(before, op)
    BY <1>1, <1>4, <1>5, <1>6, <2>2
  <2>4. \A a : a # <<c, i>> => (a \in renderAsks <=> a \in renderAsks')
    BY <1>1
  <2>5. GoesNext(c, before, value, Tail(renderTimers))
    BY <1>2, <1>6
  <2>. HIDE DEF value
  <2>. QED BY <1>1, <1>3, <1>4, <2>1, <2>3, <2>4, <2>5, GoesOnAtOnce
<1>7. CASE op.do \notin {"call", "wait"}
  <2>1. Begins(c, i, no)
    <3>1. over = no
      BY <1>7
    <3>. QED BY <1>1, <3>1
  <2>2. op.do \in {"load", "send", "throw"}
        /\ renders' = [renders EXCEPT ![c] = before] /\ renderTimers' = Tail(renderTimers)
        /\ renderAsks' = IF op.do = "throw" THEN renderAsks ELSE renderAsks \cup {<<c, i>>}
    BY <1>1, <1>2, <1>3, <1>7
  <2>. QED BY <1>1, <1>3, <1>4, <2>1, <2>2, WaitsForIt
<1>. QED BY <1>6, <1>7

(***************************************************************************)
(* The request of a context is for the place that has begun last.          *)
(***************************************************************************)
BusySays(c, i) ==
    LET seen == renderSeen[c]
        w == Made(seen.put, i - 1)
        op == seen.put[i]
        r == renders[c]
    IN  /\ Len(seen.begun) = i /\ i <= Len(seen.put)
        /\ \A j \in 1..i : seen.begun[j] = j
        /\ seen.first = <<>>
        /\ r.waiting /\ r.callbacks = PlacesFrom(i, Len(seen.put)) /\ NoTimer(renderTimers, c)
        /\ \A a \in renderAsks : a[1] = c => a = <<c, i>>
        /\ 1..(i - 1) \subseteq seen.ended
        /\ op.do \notin {"call", "interpolate", "each", "swap"}
        /\ IsContext(w) /\ Has(r, w, EngineAfter(w, op))

LEMMA AskIs ==
    ASSUME RendersInv, NEW c \in RenderContexts, NEW i \in 1..Len(renderSeen[c].put),
           <<c, i>> \in renderAsks, ~renderSeen[c].careless
    PROVE  BusySays(c, i)
<1>. DEFINE seen == renderSeen[c]
            r == renders[c]
            k == Len(seen.begun)
            n == Len(seen.put)
            w == Made(seen.put, i - 1)
            op == seen.put[i]
<1>1. seen \in Seen /\ k \in Nat /\ n \in Nat /\ i \in Nat
      /\ InTurn(c, r, renderTimers, renderAsks, seen)
  BY DEF RendersInv, RendersTyped, Seen
<1>2. <<c, i>>[1] = c
  OBVIOUS
<1>. HIDE DEF seen, r, k, n
<1>3. /\ k <= n /\ \A j \in 1..k : seen.begun[j] = j
      /\ seen.first # <<>> => n = 0
      /\ Busy(c, r, renderTimers, renderAsks, seen, n, k)
  BY <1>1, <1>2 DEF InTurn, Rests_, seen, k, n
<1>4. <<c, i>> = <<c, k>>
  BY <1>2, <1>3 DEF Busy
<1>5. k = i
  BY <1>4
<1>6. n # 0
  BY <1>1, <1>3, <1>5 DEF n, seen
<1>7. seen.first = <<>>
  BY <1>3, <1>6
<1>8. IsContext(w)
  <2>1. i - 1 \in Nat
    BY <1>1
  <2>. QED BY <2>1, MadeIsContext
<1>9. Has(r, w, EngineAfter(w, op))
  <2>1. op.do \notin {"call", "interpolate", "each", "swap"}
        /\ Has(r, w, IF op.do = "load" THEN EngineOf[op.at] ELSE w.engine)
    BY <1>3, <1>5 DEF Busy
  <2>. QED BY <2>1 DEF EngineAfter
<1>. QED BY <1>3, <1>5, <1>7, <1>8, <1>9 DEF BusySays, Busy, seen, r, k, n

LEMMA AnswerHolds ==
    ASSUME RendersInv, NEW c \in RenderContexts, NEW i \in 1..Len(renderSeen[c].put),
           RenderAnswer(c, i)
    PROVE  RendersInv'
<1>. DEFINE seen == renderSeen[c]
            after == [seen EXCEPT !.ended = @ \cup {i}]
            op == seen.put[i]
            r == renders[c]
            data == IF op.do = "load" THEN TemplateOf[op.at] ELSE op.value
            m == NextOf(c, r, data)
            w == Made(seen.put, i - 1)
            n == Len(seen.put)
<1>1. /\ seen \in Seen /\ IsContext(r) /\ renderTimers \in Seq(RenderContexts \X Nat)
      /\ renderSeen \in [RenderContexts -> Seen] /\ op \in Chainable /\ i \in Nat
  BY OpIs DEF RendersInv, RendersTyped
<1>2. /\ after \in Seen /\ after.put = seen.put /\ after.first = seen.first
      /\ after.begun = seen.begun /\ after.ended = seen.ended \cup {i}
      /\ after.careless = seen.careless /\ after.broken = seen.broken
  <2>. HIDE DEF seen
  <2>. QED BY <1>1 DEF Seen
<1>3. /\ <<c, i>> \in renderAsks /\ renderAsks' = renderAsks \ {<<c, i>>}
      /\ renderSeen' = [renderSeen EXCEPT ![c] = after] /\ swapped' = swapped
      /\ GoesNext(c, r, data, renderTimers)
      /\ templateCache' = IF op.do = "load" /\ op.cache THEN CachedAt(op.at, data)
                          ELSE templateCache
  BY DEF RenderAnswer
<1>4. /\ renderSeen' \in [RenderContexts -> Seen] /\ renderSeen'[c] = after
      /\ \A d \in RenderContexts \ {c} : renderSeen'[d] = renderSeen[d]
  <2>. HIDE DEF after
  <2>. QED BY <1>1, <1>2, <1>3
<1>. HIDE DEF after
<1>5. /\ IsContext(m.context)
      /\ renderTimers \o m.timers \in Seq(RenderContexts \X Nat)
      /\ OthersKeep(c, renderTimers, renderTimers \o m.timers)
  BY <1>1, NextKeeps
<1>6. renders' = [renders EXCEPT ![c] = m.context] /\ renderTimers' = renderTimers \o m.timers
  BY <1>3 DEF GoesNext
<1>7. /\ templateCache' = [l \in DOMAIN TemplateOf |-> templateCache'[l]]
      /\ \A l \in DOMAIN TemplateOf : templateCache'[l] \in {NoValue, TemplateOf[l]}
  <2>1. /\ templateCache = [l \in DOMAIN TemplateOf |-> templateCache[l]]
        /\ \A l \in DOMAIN TemplateOf : templateCache[l] \in {NoValue, TemplateOf[l]}
    BY DEF RendersInv, RendersTyped
  <2>2. CASE op.do = "load" /\ op.cache /\ data # NoValue
    <3>1. op.at \in DOMAIN TemplateOf /\ data = TemplateOf[op.at]
      BY <1>1, <2>2, ChainableIs, ProgramsAssumption
    <3>2. templateCache' = [templateCache EXCEPT ![op.at] = data]
      BY <1>3, <2>2 DEF CachedAt
    <3>. QED BY <2>1, <3>1, <3>2
  <2>3. CASE ~(op.do = "load" /\ op.cache /\ data # NoValue)
    <3>1. templateCache' = templateCache
      BY <1>3, <2>3 DEF CachedAt
    <3>. QED BY <2>1, <3>1
  <2>. QED BY <2>2, <2>3
<1>8. ASSUME ~after.careless
      PROVE  InTurn(c, m.context, renderTimers \o m.timers, renderAsks', after)
  <2>1. BusySays(c, i)
    BY <1>2, <1>3, <1>8, AskIs
  <2>2. /\ Len(after.begun) = i /\ i <= Len(after.put)
        /\ \A j \in 1..i : after.begun[j] = j
        /\ after.first = <<>>
        /\ r.callbacks = PlacesFrom(i, Len(after.put)) /\ NoTimer(renderTimers, c)
        /\ op.do \notin {"call", "interpolate", "each", "swap"}
        /\ IsContext(w) /\ Has(r, w, EngineAfter(w, op))
    BY <1>2, <2>1 DEF BusySays
  <2>3. \A a \in renderAsks' : a[1] # c
    BY <1>3, <2>1 DEF BusySays
  <2>4. 1..i \subseteq after.ended
    <3>1. \A j \in 1..i : j = i \/ j \in 1..(i - 1)
      BY <1>1
    <3>. QED BY <1>2, <2>1, <3>1 DEF BusySays
  <2>5. data = ValueOf(w, op)
    BY <2>2 DEF ValueOf
  <2>6. Len(after.put) \in Nat
    BY <1>2 DEF Seen
  <2>7. Made(after.put, i) = Work(w, op)
    <3>1. i \in Nat \ {0}
      BY <1>1
    <3>. QED BY <1>2, <3>1, MadeNext
  <2>. HIDE DEF seen, r, m, op, w, data
  <2>8. /\ Has(Given(r, data), Made(after.put, i), Given(r, data).engine)
        /\ r.engine = Made(after.put, i).engine
    BY <1>1, <2>2, <2>5, <2>7, WorkFollows
  <2>. QED BY <1>1, <1>2, <2>2, <2>3, <2>4, <2>6, <2>8, MovesOn DEF m
<1>9. InTurn(c, m.context, renderTimers \o m.timers, renderAsks', after)
  BY <1>8 DEF InTurn
<1>10. SwapHolds(swapped', renderSeen')
  <2>1. Len(seen.put) \in Nat
    BY <1>1 DEF Seen
  <2>. HIDE DEF seen
  <2>2. SwapHolds(swapped, renderSeen')
    BY <1>2, <1>4, <2>1, SwapStays DEF seen
  <2>. QED BY <1>3, <2>2
<1>. HIDE DEF m
<1>11. \A a : a # <<c, i>> => (a \in renderAsks <=> a \in renderAsks')
  BY <1>3
<1>. QED BY <1>1, <1>4, <1>5, <1>6, <1>7, <1>9, <1>10, <1>11, ContextSteps

LEMMA FailureHolds ==
    ASSUME RendersInv, NEW c \in RenderContexts, NEW i \in 1..Len(renderSeen[c].put),
           RenderFails(c, i)
    PROVE  RendersInv'
<1>. DEFINE seen == renderSeen[c]
            yes == TRUE
            after == [seen EXCEPT !.broken = yes]
            r == renders[c]
<1>1. /\ seen \in Seen /\ IsContext(r) /\ renderTimers \in Seq(RenderContexts \X Nat)
      /\ renderSeen \in [RenderContexts -> Seen] /\ i \in Nat
      /\ renders = [d \in RenderContexts |-> renders[d]]
  BY OpIs DEF RendersInv, RendersTyped
<1>2. /\ after \in Seen /\ after.put = seen.put /\ after.first = seen.first
      /\ after.begun = seen.begun /\ after.ended = seen.ended
      /\ after.careless = seen.careless /\ after.broken
  <2>1. yes \in BOOLEAN /\ yes
    OBVIOUS
  <2>. HIDE DEF seen, yes
  <2>. QED BY <1>1, <2>1 DEF Seen
<1>3. /\ <<c, i>> \in renderAsks /\ renderAsks' = renderAsks \ {<<c, i>>}
      /\ renderSeen' = [renderSeen EXCEPT ![c] = after]
      /\ renders' = renders /\ renderTimers' = renderTimers
      /\ templateCache' = templateCache /\ swapped' = swapped
  BY DEF RenderFails
<1>4. /\ renderSeen' \in [RenderContexts -> Seen] /\ renderSeen'[c] = after
      /\ \A d \in RenderContexts \ {c} : renderSeen'[d] = renderSeen[d]
  <2>. HIDE DEF after
  <2>. QED BY <1>1, <1>2, <1>3
<1>. HIDE DEF after
<1>5. ASSUME ~after.careless
      PROVE  InTurn(c, r, renderTimers, renderAsks', after)
  <2>1. BusySays(c, i)
    BY <1>2, <1>3, <1>5, AskIs
  <2>2. InTurn(c, r, renderTimers, renderAsks, seen)
    BY DEF RendersInv
  <2>3. Busy(c, r, renderTimers, renderAsks, seen, Len(seen.put), i)
    <3>1. <<c, i>>[1] = c
      OBVIOUS
    <3>. QED BY <1>2, <1>3, <1>5, <2>1, <2>2, <3>1 DEF InTurn, Rests_, BusySays
  <2>4. Busy(c, r, renderTimers, renderAsks', after, Len(after.put), i)
    BY <1>2, <1>3, <2>3 DEF Busy
  <2>5. /\ Len(after.begun) = i /\ i <= Len(after.put)
        /\ \A j \in 1..i : after.begun[j] = j
        /\ after.first = <<>>
    BY <1>2, <2>1 DEF BusySays
  <2>. QED BY <2>4, <2>5 DEF InTurn
<1>6. InTurn(c, r, renderTimers', renderAsks', after)
  BY <1>3, <1>5 DEF InTurn
<1>7. SwapHolds(swapped', renderSeen')
  <2>1. Len(seen.put) \in Nat
    BY <1>1 DEF Seen
  <2>. HIDE DEF seen
  <2>2. SwapHolds(swapped, renderSeen')
    BY <1>2, <1>4, <2>1, SwapStays DEF seen
  <2>. QED BY <1>3, <2>2
<1>8. /\ templateCache = [l \in DOMAIN TemplateOf |-> templateCache[l]]
      /\ \A l \in DOMAIN TemplateOf : templateCache[l] \in {NoValue, TemplateOf[l]}
  BY DEF RendersInv, RendersTyped
<1>9. renders' = [renders EXCEPT ![c] = r] /\ OthersKeep(c, renderTimers, renderTimers')
  BY <1>1, <1>3 DEF OthersKeep
<1>10. \A a : a # <<c, i>> => (a \in renderAsks <=> a \in renderAsks')
  BY <1>3
<1>. QED BY <1>1, <1>3, <1>4, <1>6, <1>7, <1>8, <1>9, <1>10, ContextSteps

LEMMA RendersStep == RendersInv /\ [RendersNext]_renderVars => RendersInv'
<1>. SUFFICES ASSUME RendersInv, [RendersNext]_renderVars PROVE RendersInv'
  OBVIOUS
<1>1. ASSUME NEW c \in RenderContexts, ChainFirst(c) \/ ChainLater(c) PROVE RendersInv'
  BY <1>1, FirstChained, LaterChained
<1>2. ASSUME NEW c \in RenderContexts, NEW i \in 1..Len(renderSeen[c].put),
             \/ Load(c, i) \/ Render(c, i) \/ Swap(c, i) \/ CallOwn(c, i)
             \/ RenderAnswer(c, i) \/ RenderFails(c, i)
      PROVE  RendersInv'
  BY <1>2, LoadHolds, RenderHolds, SwapHoldsOn, CallHolds, AnswerHolds, FailureHolds
<1>3. ASSUME UNCHANGED renderVars PROVE RendersInv'
  BY <1>3 DEF renderVars, RendersInv, RendersTyped, PageIsRendered
<1>. QED BY <1>1, <1>2, <1>3 DEF RendersNext

LEMMA QueueHolds ==
    ASSUME RendersInv, NEW c \in RenderContexts
    PROVE  QueueIsInOrder(c)
<1>. DEFINE seen == renderSeen[c]
            r == renders[c]
            k == Len(seen.begun)
            n == Len(seen.put)
            timers == {j \in DOMAIN renderTimers : renderTimers[j][1] = c}
            due == Cardinality(timers)
<1>. SUFFICES ASSUME ~seen.careless PROVE QueueIsInOrder(c)
  BY DEF QueueIsInOrder
<1>1. seen \in Seen /\ k \in Nat /\ n \in Nat /\ InTurn(c, r, renderTimers, renderAsks, seen)
  BY DEF RendersInv, RendersTyped, Seen
<1>2. /\ k <= n /\ \A j \in 1..k : seen.begun[j] = j
      /\ \/ Rests_(c, r, renderTimers, renderAsks, seen, n, k)
         \/ Busy(c, r, renderTimers, renderAsks, seen, n, k)
  BY <1>1 DEF InTurn
<1>3. QueueIsInOrder(c) <=>
        /\ \A j \in 1..k : seen.begun[j] = j /\ (j < k => j \in seen.ended)
        /\ due <= 1 /\ \A j \in timers : renderTimers[j][2] = k + 1
        /\ r.callbacks = [j \in 1..(n - k - due) |-> k + due + j]
        /\ ~seen.broken /\ timers = {} /\ (\A j \in 1..k : <<c, j>> \notin renderAsks) =>
             k = n /\ ~r.waiting
  BY DEF QueueIsInOrder
<1>4. NoTimer(renderTimers, c) => timers = {} /\ due = 0
  BY FS_EmptySet DEF NoTimer
<1>5. OneTimer(renderTimers, c, k + 1) =>
        timers # {} /\ due = 1 /\ \A j \in timers : renderTimers[j][2] = k + 1
  <2>. SUFFICES ASSUME OneTimer(renderTimers, c, k + 1)
                PROVE  timers # {} /\ due = 1 /\ \A j \in timers : renderTimers[j][2] = k + 1
    OBVIOUS
  <2>1. PICK j \in DOMAIN renderTimers :
            /\ renderTimers[j] = <<c, k + 1>>
            /\ \A l \in DOMAIN renderTimers : renderTimers[l][1] = c => l = j
    BY DEF OneTimer
  <2>2. renderTimers[j][1] = c /\ renderTimers[j][2] = k + 1
    BY <2>1
  <2>3. timers = {j}
    BY <2>1, <2>2
  <2>4. Cardinality({j}) = 1
    BY FS_Singleton
  <2>. QED BY <2>2, <2>3, <2>4
<1>. HIDE DEF seen, r, k, n, timers, due
<1>6. CASE Rests_(c, r, renderTimers, renderAsks, seen, n, k) /\ n = k
  <2>1. /\ ~r.waiting /\ r.callbacks = <<>> /\ timers = {} /\ due = 0
        /\ 1..k \subseteq seen.ended
    BY <1>1, <1>4, <1>6 DEF Rests_, Stands
  <2>2. [j \in 1..(n - k - due) |-> k + due + j] = <<>>
    <3>1. 1..(n - k - due) = {}
      BY <1>1, <1>6, <2>1
    <3>. QED BY <3>1
  <2>3. \A j \in 1..k : j \in seen.ended
    BY <2>1
  <2>. QED BY <1>1, <1>2, <1>3, <1>6, <2>1, <2>2, <2>3
<1>7. CASE Rests_(c, r, renderTimers, renderAsks, seen, n, k) /\ n # k
  <2>1. /\ k < n /\ r.callbacks = PlacesFrom(k + 1, n) /\ timers # {} /\ due = 1
        /\ \A j \in timers : renderTimers[j][2] = k + 1
        /\ 1..k \subseteq seen.ended
    BY <1>1, <1>5, <1>7 DEF Rests_, Stands
  <2>2. r.callbacks = [j \in 1..(n - k - due) |-> k + due + j]
    <3>1. n - (k + 1) = n - k - due /\ \A j \in Nat : k + 1 + j = k + due + j
      BY <1>1, <2>1
    <3>2. PlacesFrom(k + 1, n) = [j \in 1..(n - (k + 1)) |-> k + 1 + j]
      BY DEF PlacesFrom
    <3>. QED BY <2>1, <3>1, <3>2
  <2>3. \A j \in 1..k : j \in seen.ended
    BY <2>1
  <2>. QED BY <1>2, <1>3, <2>1, <2>2, <2>3
<1>8. CASE Busy(c, r, renderTimers, renderAsks, seen, n, k)
  <2>1. /\ k > 0 /\ r.callbacks = PlacesFrom(k, n) /\ timers = {} /\ due = 0
        /\ 1..(k - 1) \subseteq seen.ended
        /\ seen.broken \/ <<c, k>> \in renderAsks
    BY <1>4, <1>8 DEF Busy
  <2>2. r.callbacks = [j \in 1..(n - k - due) |-> k + due + j]
    <3>1. n - k = n - k - due /\ \A j \in Nat : k + j = k + due + j
      BY <1>1, <2>1
    <3>2. PlacesFrom(k, n) = [j \in 1..(n - k) |-> k + j]
      BY DEF PlacesFrom
    <3>. QED BY <2>1, <3>1, <3>2
  <2>3. \A j \in 1..k : j < k => j \in seen.ended
    <3>1. \A j \in 1..k : j < k => j \in 1..(k - 1)
      BY <1>1
    <3>. QED BY <2>1, <3>1
  <2>4. k \in 1..k
    BY <1>1, <2>1
  <2>5. timers = {} => due <= 1 /\ \A j \in timers : renderTimers[j][2] = k + 1
    BY <2>1
  <2>. QED BY <1>2, <1>3, <2>1, <2>2, <2>3, <2>4, <2>5
<1>. QED BY <1>2, <1>6, <1>7, <1>8

LEMMA OrderHolds == RendersInv => RendersInOrder
<1>1. RendersInv => \A c \in RenderContexts : QueueIsInOrder(c)
  BY QueueHolds
<1>2. RendersInv => PageIsRendered
  BY DEF RendersInv, PageIsRendered
<1>. QED BY <1>1, <1>2 DEF RendersInOrder

(***************************************************************************)
(* Whatever is chained and in whatever order the answers come: the queue   *)
(* of a RenderContext runs in the order of the chain, stands still only    *)
(* for a request or a failure, and what it swaps into the page is what the *)
(* chain makes, though its templates came from a cache it shares.          *)
(***************************************************************************)
THEOREM TemplatesInOrder == RendersSpec => []RendersInOrder
<1>. QED BY RendersStart, RendersStep, OrderHolds, PTL DEF RendersSpec

-------------------------------------------------------------------------------
(* Lists of callbacks and Deferreds: nobody loses a call. *)

SteadyList == [list : Seq(Function), gone : BOOLEAN, stack : Seq(Payload), locked : BOOLEAN,
               memory : Payload \cup {Undefined, Halted}, firing : BOOLEAN,
               index : Nat, start : {0}, length : Nat]

Loops == [list : ListName, fn : Function \cup {Nothing}, due : SUBSET Function,
          heard : SUBSET Function]

CallbackTypes ==
    /\ flags = DeferredFlags \/ DOMAIN flags = {"plain"}
    /\ lists \in [DOMAIN flags -> SteadyList]
    /\ \A l \in DOMAIN flags \ {"done", "fail"} : lists[l].list \in Seq(Listener)
    /\ state \in {"pending", "resolved", "rejected"}
    /\ calls \in Seq(Loops)
    /\ uses \in 0..MaxUses
    /\ attached \in [DOMAIN flags -> Seq(Listener)]
    /\ called \in [DOMAIN flags -> Seq(Listener \X (Payload \cup {Undefined, Halted}))]
    /\ crashed \in BOOLEAN

(***************************************************************************)
(* A loop stands at the function that it calls, or before the next one;    *)
(* what it owes a call it has called or has ahead of it.                   *)
(***************************************************************************)
Past(fr, c) == IF fr.fn = Nothing THEN c.index ELSE c.index + 1

Ahead(fr, c) == {c.list[p] : p \in {q \in DOMAIN c.list : q >= Past(fr, c)}}

LoopStands(fr, c) ==
    /\ c.firing
    /\ ~c.gone => /\ c.length = Len(c.list)
                  /\ Past(fr, c) \in 1..(c.length + 1)
                  /\ fr.due \subseteq fr.heard \cup Ahead(fr, c)

(***************************************************************************)
(* Each loop under way is of a list of its own that is fired, and all but  *)
(* the innermost wait for a function of a user.                            *)
(***************************************************************************)
StackHolds(cs, ls) ==
    \A i \in DOMAIN cs :
        /\ cs[i].list \in DOMAIN ls
        /\ LoopStands(cs[i], ls[cs[i].list])
        /\ i < Len(cs) => cs[i].fn \in Listener
        /\ \A j \in DOMAIN cs : cs[i].list = cs[j].list => i = j

(***************************************************************************)
(* A list that is fired has a loop, unless a function threw out of it.     *)
(***************************************************************************)
NoneLost(cs, ls, thrown) ==
    ~thrown => \A l \in DOMAIN ls : ls[l].firing => \E i \in DOMAIN cs : cs[i].list = l

LoopsHold == StackHolds(calls, lists) /\ NoneLost(calls, lists, crashed)

(***************************************************************************)
(* What a Deferred puts on a side before anybody comes, and what a side is *)
(* like that nobody has settled.                                           *)
(***************************************************************************)
OwnBefore(l) == NewDeferred[l].list

NoLoop(l) == \A i \in DOMAIN calls : calls[i].list # l

Untouched(l) ==
    LET c == lists[l]
    IN  /\ ~c.gone /\ ~c.locked /\ ~c.firing /\ c.memory = Undefined
        /\ c.list = OwnBefore(l) \o attached[l]

Quiet(l) == NoLoop(l) /\ called[l] = <<>>

(***************************************************************************)
(* The side that lost is disabled.                                         *)
(***************************************************************************)
PutOff(l) == lists[l].gone /\ lists[l].locked /\ ~lists[l].firing

(***************************************************************************)
(* The side l runs the Deferred's own functions, for the state s: they set *)
(* it, disable the other side o and lock `progress'.                       *)
(***************************************************************************)
Settling(l, s, o) ==
    LET c == lists[l]
    IN  /\ calls # <<>> /\ Current.list = l
        /\ c.index \in 1..3 /\ Current.fn \in {Nothing, OwnBefore(l)[c.index]}
        /\ ~c.gone /\ c.memory \in Payload /\ c.list = OwnBefore(l) \o attached[l]
        /\ called[l] = <<>> /\ Quiet(o)
        /\ state = IF c.index = 1 /\ Current.fn = Nothing THEN "pending" ELSE s
        /\ ~lists[o].firing
        /\ c.index = 3 \/ (c.index = 2 /\ Current.fn # Nothing) => PutOff(o)

(***************************************************************************)
(* A settled side has called the first of those that were attached, and    *)
(* the others are what its loop comes to, in their order.                  *)
(***************************************************************************)
CalledInOrder(l) ==
    /\ Len(called[l]) <= Len(attached[l])
    /\ \A i \in DOMAIN called[l] : called[l][i] = <<attached[l][i], lists[l].memory>>

StillToCome(fr, c, given, made) ==
    /\ fr.fn \in Listener \cup {Nothing}
    /\ (Len(c.list) + 1) + made = Len(given) + Past(fr, c)
    /\ \A p \in DOMAIN c.list :
          p >= Past(fr, c) => c.list[p] = given[((p + 1) + made) - Past(fr, c)]

Settled(l, s, o) ==
    LET c == lists[l]
    IN  /\ state = s /\ Quiet(o) /\ PutOff(o)
        /\ ~c.gone /\ c.memory \in Payload
        /\ CalledInOrder(l)
        /\ ~c.firing => c.list = <<>> /\ Len(called[l]) = Len(attached[l])
        /\ \A i \in DOMAIN calls : calls[i].list = l =>
              StillToCome(calls[i], c, attached[l], Len(called[l]))

Unsettled == /\ state = "pending"
             /\ \A l \in {"done", "fail"} : Untouched(l) /\ Quiet(l)

HoldsFor(l, s, o) == Settling(l, s, o) \/ Settled(l, s, o)

DeferredHolds == \/ Unsettled
                 \/ HoldsFor("done", "resolved", "fail")
                 \/ HoldsFor("fail", "rejected", "done")

(***************************************************************************)
(* A list without a function: the others move up by as many as have gone   *)
(* before them.                                                            *)
(***************************************************************************)
Others(s, fn) == {i \in DOMAIN s : s[i] # fn}
Those(s, fn) == {i \in DOMAIN s : s[i] = fn}

LEMMA WithoutIs ==
    ASSUME NEW S, NEW s \in Seq(S), NEW fn
    PROVE  /\ Without(s, fn) \in Seq(S)
           /\ Len(Without(s, fn)) = Cardinality(Others(s, fn))
           /\ \A i \in Others(s, fn) :
                 /\ UpTo(Others(s, fn), i) \in 1..Len(Without(s, fn))
                 /\ Without(s, fn)[UpTo(Others(s, fn), i)] = s[i]
<1>. DEFINE K == Others(s, fn)
            m == Cardinality(K)
            n == Len(s)
            w == Without(s, fn)
<1>1. n \in Nat /\ K \in SUBSET (1..n) /\ DOMAIN s = 1..n
  BY DEF Others
<1>2. m \in Nat
  BY <1>1, UpToTyped
<1>3. w = [k \in 1..m |-> s[CHOOSE i \in K : UpTo(K, i) = k]]
  BY DEF Without, Others, UpTo
<1>. HIDE DEF w, m, K
<1>4. ASSUME NEW k \in 1..m
      PROVE  \E i \in K : UpTo(K, i) = k /\ w[k] = s[i]
  <2>. DEFINE i == CHOOSE j \in K : UpTo(K, j) = k
  <2>1. \E j \in K : UpTo(K, j) = k
    BY <1>1, UpToReached DEF m
  <2>2. i \in K /\ UpTo(K, i) = k
    BY <2>1
  <2>3. w[k] = s[i]
    BY <1>3
  <2>. HIDE DEF i
  <2>. QED BY <2>2, <2>3
<1>5. ASSUME NEW k \in 1..m PROVE w[k] \in S
  <2>1. PICK i \in K : w[k] = s[i]
    BY <1>4
  <2>2. i \in 1..n
    BY <1>1
  <2>. QED BY <2>1, <2>2
<1>6. w \in Seq(S) /\ Len(w) = m
  BY <1>2, <1>3, <1>5
<1>7. ASSUME NEW i \in K PROVE UpTo(K, i) \in 1..m /\ w[UpTo(K, i)] = s[i]
  <2>1. i \in Nat /\ 0 < i /\ 0 \in Nat
    BY <1>1
  <2>2. UpTo(K, i) \in 0..m /\ UpTo(K, 0) \in 0..m
    BY <1>1, <2>1, UpToTyped DEF m
  <2>3. UpTo(K, 0) < UpTo(K, i)
    <3>1. 0 <= i
      BY <2>1
    <3>. QED BY <1>1, <2>1, <3>1, UpToGrows
  <2>4. UpTo(K, i) \in 1..m
    BY <1>2, <2>2, <2>3
  <2>5. PICK j \in K : UpTo(K, j) = UpTo(K, i) /\ w[UpTo(K, i)] = s[j]
    BY <1>4, <2>4
  <2>6. j \in Nat
    BY <1>1
  <2>7. ~(j < i) /\ ~(i < j)
    <3>1. UpTo(K, i) \in Nat /\ UpTo(K, j) \in Nat
      BY <1>2, <2>2, <2>5
    <3>2. j < i => UpTo(K, j) < UpTo(K, i)
      BY <1>1, <2>1, <2>6, UpToLess
    <3>3. i < j => UpTo(K, i) < UpTo(K, j)
      BY <1>1, <2>1, <2>6, UpToLess
    <3>. QED BY <2>5, <3>1, <3>2, <3>3
  <2>8. i = j
    BY <2>1, <2>6, <2>7
  <2>. QED BY <2>4, <2>5, <2>8
<1>. QED BY <1>6, <1>7 DEF w, m, K

LEMMA UpToSplits ==
    ASSUME NEW S, NEW s \in Seq(S), NEW fn, NEW i \in 0..Len(s)
    PROVE  UpTo(Others(s, fn), i) + UpTo(Those(s, fn), i) = i
<1>. DEFINE n == Len(s)
            A == {j \in Others(s, fn) : j <= i}
            B == {j \in Those(s, fn) : j <= i}
<1>1. n \in Nat /\ DOMAIN s = 1..n /\ i \in Nat
  OBVIOUS
<1>2. Others(s, fn) \in SUBSET (1..n) /\ Those(s, fn) \in SUBSET (1..n)
  BY <1>1 DEF Others, Those
<1>3. IsFiniteSet(A) /\ IsFiniteSet(B)
  BY <1>1, <1>2, UpToTyped
<1>4. A \cup B = 1..i /\ A \cap B = {}
  BY <1>1 DEF Others, Those
<1>. HIDE DEF A, B, n
<1>5. Cardinality(1..i) = i
  BY <1>1, FS_Interval
<1>6. Cardinality(A \cup B) = Cardinality(A) + Cardinality(B) - Cardinality(A \cap B)
  BY <1>3, FS_Union
<1>7. Cardinality(A \cap B) = 0
  BY <1>4, FS_EmptySet
<1>8. Cardinality(A) \in Nat /\ Cardinality(B) \in Nat
  BY <1>3, FS_CardinalityType
<1>9. Cardinality(A) + Cardinality(B) = i
  <2>1. Cardinality(A \cup B) = i
    BY <1>4, <1>5
  <2>. QED BY <1>1, <1>6, <1>7, <1>8, <2>1
<1>. QED BY <1>9 DEF UpTo, A, B

LEMMA UpToBelow ==
    ASSUME NEW n \in Nat, NEW K \in SUBSET (1..n), NEW i \in Nat
    PROVE  UpTo(K, i) \in 0..i
<1>. DEFINE A == {j \in K : j <= i}
<1>1. A \in SUBSET (1..i)
  <2>1. ASSUME NEW j \in A PROVE j \in 1..i
    <3>1. j \in 1..n /\ j <= i
      OBVIOUS
    <3>. QED BY <3>1
  <2>. QED BY <2>1
<1>. HIDE DEF A
<1>2. IsFiniteSet(1..i) /\ Cardinality(1..i) = i
  BY FS_Interval
<1>3. IsFiniteSet(A) /\ Cardinality(A) <= i
  BY <1>1, <1>2, FS_Subset
<1>4. Cardinality(A) \in Nat
  BY <1>3, FS_CardinalityType
<1>. QED BY <1>3, <1>4 DEF UpTo, A

-------------------------------------------------------------------------------
(***************************************************************************)
(* What happens to one list.                                               *)
(***************************************************************************)
Memories == Payload \cup {Undefined, Halted}

LEMMA FiresIs ==
    ASSUME NEW c \in ListState, NEW f, NEW v \in Payload
    PROVE  LET d == Fires(c, f, v)
           IN  /\ d \in SteadyList
               /\ d.list = c.list /\ d.gone = c.gone /\ d.stack = c.stack /\ d.locked = c.locked
               /\ d.memory = IF "memory" \in f THEN v ELSE Halted
               /\ d.firing /\ d.index = c.start + 1 /\ d.length = Len(c.list)
<1>. DEFINE m == IF "memory" \in f THEN v ELSE Halted
            k == c.start + 1
            n == Len(c.list)
            d == Fires(c, f, v)
<1>1. m \in Memories /\ k \in Nat /\ n \in Nat
  BY DEF ListState, Memories
<1>2. d = [c EXCEPT !.memory = m, !.firing = TRUE, !.index = k, !.start = 0, !.length = n]
  BY DEF Fires
<1>. HIDE DEF m, k, n, d
<1>3. /\ d \in SteadyList
      /\ d.list = c.list /\ d.gone = c.gone /\ d.stack = c.stack /\ d.locked = c.locked
      /\ d.memory = m /\ d.firing = TRUE /\ d.index = k /\ d.length = n
  BY <1>1, <1>2 DEF ListState, SteadyList, Memories
<1>. QED BY <1>3 DEF m, k, n, d

LEMMA SteadyIs ==
    ASSUME NEW c \in SteadyList
    PROVE  /\ c \in ListState
           /\ c.list \in Seq(Function) /\ Len(c.list) \in Nat
           /\ c.gone \in BOOLEAN /\ c.stack \in Seq(Payload) /\ c.locked \in BOOLEAN
           /\ c.memory \in Memories /\ c.firing \in BOOLEAN
           /\ c.index \in Nat /\ c.start = 0 /\ c.length \in Nat
BY DEF ListState, SteadyList, Memories

LEMMA RememberedIs ==
    ASSUME NEW c \in SteadyList, Remembers(c) PROVE c.memory \in Payload /\ ~c.firing
BY DEF Remembers, SteadyList

LEMMA ListenersAre ==
    /\ Listener \subseteq Function /\ Own \subseteq Function
    /\ Listener \cap Own = {} /\ Nothing \notin Listener /\ Nothing \notin Own
    /\ Nothing \notin Function
    /\ Undefined \notin Payload /\ Halted \notin Payload /\ Undefined # Halted
BY CallbacksAssumption DEF CallbacksAssumption, Function, Own, Nothing, Undefined, Halted

LEMMA LongerIs ==
    ASSUME NEW S, NEW c, c.list \in Seq(S), NEW f, NEW fn \in S
    PROVE  /\ Longer(c, f, fn) \in Seq(S)
           /\ Len(Longer(c, f, fn)) = IF IsNew(c, f, fn) THEN Len(c.list) + 1 ELSE Len(c.list)
           /\ \A i \in DOMAIN c.list : Longer(c, f, fn)[i] = c.list[i]
           /\ IsNew(c, f, fn) => Longer(c, f, fn)[Len(c.list) + 1] = fn
BY DEF Longer

LEMMA AddsIs ==
    ASSUME NEW c \in SteadyList, NEW f, NEW fn \in Listener
    PROVE  LET d == Adds(c, f, fn)
           IN  /\ d \in SteadyList
               /\ c.gone => d = c
               /\ d.gone = c.gone /\ d.stack = c.stack /\ d.locked = c.locked
               /\ ~c.gone => d.list = Longer(c, f, fn)
               /\ ~c.gone /\ c.firing => /\ d.firing /\ d.length = Len(d.list)
                                         /\ d.index = c.index /\ d.memory = c.memory
               /\ ~c.gone /\ ~c.firing /\ Remembers(c) =>
                     /\ d.firing /\ d.index = Len(c.list) + 1 /\ d.length = Len(d.list)
                     /\ d.memory = IF "memory" \in f THEN c.memory ELSE Halted
               /\ ~c.gone /\ ~c.firing /\ ~Remembers(c) =>
                     ~d.firing /\ d.memory = c.memory
<1>. DEFINE d == Adds(c, f, fn)
            longer == Longer(c, f, fn)
            c1 == [c EXCEPT !.list = longer]
            c2 == [c1 EXCEPT !.start = Len(c.list)]
<1>1. /\ c.list \in Seq(Function) /\ Len(c.list) \in Nat /\ c \in SteadyList
      /\ c.start = 0 /\ fn \in Function
  BY SteadyIs, ListenersAre
<1>2. longer \in Seq(Function) /\ Len(longer) \in Nat
  BY <1>1, LongerIs
<1>3. /\ c1 \in SteadyList /\ c1.list = longer /\ c1.gone = c.gone /\ c1.stack = c.stack
      /\ c1.locked = c.locked /\ c1.memory = c.memory /\ c1.firing = c.firing
      /\ c1.index = c.index
  BY <1>1, <1>2 DEF SteadyList
<1>4. /\ c2 \in ListState /\ c2.list = longer /\ c2.gone = c.gone /\ c2.stack = c.stack
      /\ c2.locked = c.locked /\ c2.start = Len(c.list)
  BY <1>1, <1>2 DEF SteadyList, ListState
<1>5. CASE c.gone
  <2>1. d = c
    BY <1>5 DEF Adds
  <2>. QED BY <1>5, <2>1
<1>6. CASE ~c.gone /\ c.firing
  <2>1. d = [c1 EXCEPT !.length = Len(c1.list)]
    BY <1>6 DEF Adds, Remembers
  <2>. HIDE DEF c1, longer
  <2>2. /\ d \in SteadyList /\ d.list = c1.list /\ d.gone = c1.gone /\ d.stack = c1.stack
        /\ d.locked = c1.locked /\ d.memory = c1.memory /\ d.firing = c1.firing
        /\ d.index = c1.index /\ d.length = Len(c1.list)
    BY <2>1, <1>2, <1>3 DEF SteadyList
  <2>. HIDE DEF d
  <2>. QED BY <1>3, <1>6, <2>2 DEF longer, d
<1>7. CASE ~c.gone /\ ~c.firing /\ Remembers(c)
  <2>1. d = Fires(c2, f, c.memory)
    BY <1>7 DEF Adds
  <2>2. c.memory \in Payload
    BY <1>7, RememberedIs
  <2>. HIDE DEF c2, d
  <2>3. /\ d \in SteadyList
        /\ d.list = c2.list /\ d.gone = c2.gone /\ d.stack = c2.stack /\ d.locked = c2.locked
        /\ d.memory = IF "memory" \in f THEN c.memory ELSE Halted
        /\ d.firing /\ d.index = c2.start + 1 /\ d.length = Len(c2.list)
    BY <1>4, <2>1, <2>2, FiresIs
  <2>. QED BY <1>4, <1>7, <2>3 DEF d
<1>8. CASE ~c.gone /\ ~c.firing /\ ~Remembers(c)
  <2>1. d = c1
    BY <1>8 DEF Adds
  <2>. HIDE DEF c1, d
  <2>. QED BY <1>3, <1>8, <2>1 DEF d
<1>. QED BY <1>5, <1>6, <1>7, <1>8

LEMMA DisabledIs ==
    ASSUME NEW c \in SteadyList
    PROVE  /\ Disabled(c) \in SteadyList
           /\ Disabled(c).list = <<>> /\ Disabled(c).gone /\ Disabled(c).locked
           /\ Disabled(c).firing = c.firing
<1>1. <<>> \in Seq(Function) /\ <<>> \in Seq(Payload) /\ Undefined \in Memories
  BY DEF Memories
<1>. QED BY <1>1 DEF Disabled, SteadyList, Memories

LEMMA LocksIs ==
    ASSUME NEW c \in SteadyList
    PROVE  /\ Locks(c) \in SteadyList /\ Locks(c).firing = c.firing
           /\ Locks(c).list \in {c.list, <<>>}
           /\ Locks(c).gone \/ (/\ Locks(c).list = c.list /\ Locks(c).gone = c.gone
                                /\ Locks(c).index = c.index /\ Locks(c).length = c.length)
<1>1. CASE c.memory \in {Undefined, Halted}
  BY <1>1, DisabledIs DEF Locks
<1>2. CASE c.memory \notin {Undefined, Halted}
  <2>1. <<>> \in Seq(Payload)
    OBVIOUS
  <2>2. Locks(c) = [c EXCEPT !.stack = <<>>, !.locked = TRUE]
    BY <1>2 DEF Locks
  <2>3. /\ Locks(c) \in SteadyList /\ Locks(c).firing = c.firing
        /\ Locks(c).list = c.list /\ Locks(c).gone = c.gone
        /\ Locks(c).index = c.index /\ Locks(c).length = c.length
    BY <2>1, <2>2 DEF SteadyList
  <2>. QED BY <2>3
<1>. QED BY <1>1, <1>2

(***************************************************************************)
(* To fire a list: it starts, or waits, or does not.                       *)
(***************************************************************************)
LEMMA RefiresIs ==
    ASSUME NEW c \in SteadyList, NEW f, NEW v \in Payload
    PROVE  LET d == Refires(c, f, v)
           IN  /\ d \in SteadyList /\ d.list = c.list /\ d.gone = c.gone
               /\ ~c.locked /\ ~c.firing /\ c.memory = Undefined => d.firing
               /\ \/ d.firing = c.firing /\ d.index = c.index /\ d.length = c.length
                     /\ d.memory = c.memory
                  \/ /\ ~c.firing /\ d.firing /\ d.index = 1 /\ d.length = Len(c.list)
                     /\ d.memory = IF "memory" \in f THEN v ELSE Halted
                     /\ ~c.locked /\ ("once" \in f => c.memory = Undefined)
<1>. DEFINE d == Refires(c, f, v)
<1>1. CASE \/ c.locked \/ (c.firing /\ "once" \in f)
           \/ (~c.firing /\ "once" \in f /\ c.memory # Undefined)
  <2>1. d = c
    BY <1>1 DEF Refires
  <2>. QED BY <1>1, <2>1
<1>2. CASE ~c.locked /\ c.firing /\ "once" \notin f
  <2>1. d = [c EXCEPT !.stack = Append(c.stack, v)]
    BY <1>2 DEF Refires
  <2>2. Append(c.stack, v) \in Seq(Payload)
    BY SteadyIs
  <2>3. /\ d \in SteadyList /\ d.list = c.list /\ d.gone = c.gone /\ d.firing = c.firing
        /\ d.index = c.index /\ d.length = c.length /\ d.memory = c.memory
    BY <2>1, <2>2 DEF SteadyList
  <2>. QED BY <1>2, <2>3
<1>3. CASE ~c.locked /\ ~c.firing /\ ~("once" \in f /\ c.memory # Undefined)
  <2>1. d = Fires(c, f, v)
    BY <1>3 DEF Refires
  <2>2. c \in ListState /\ c.start = 0
    BY SteadyIs
  <2>. HIDE DEF d
  <2>3. /\ d \in SteadyList /\ d.list = c.list /\ d.gone = c.gone
        /\ d.memory = IF "memory" \in f THEN v ELSE Halted
        /\ d.firing /\ d.index = c.start + 1 /\ d.length = Len(c.list)
    BY <2>1, <2>2, FiresIs
  <2>4. d.index = 1
    BY <2>2, <2>3
  <2>. QED BY <1>3, <2>3, <2>4 DEF d
<1>4. c.locked \in BOOLEAN /\ c.firing \in BOOLEAN
  BY SteadyIs
<1>. QED BY <1>1, <1>2, <1>3, <1>4

LEMMA EndsIs ==
    ASSUME NEW c \in SteadyList, NEW f
    PROVE  LET d == Ends(c, f)
           IN  /\ d \in SteadyList /\ d.list \in {c.list, <<>>}
               /\ c.gone => ~d.firing /\ d.gone /\ d.locked = c.locked
               /\ ~c.gone /\ "once" \in f /\ c.memory # Halted =>
                     ~d.firing /\ ~d.gone /\ d.list = <<>> /\ d.memory = c.memory
               /\ d.firing => ~d.gone /\ d.index = 1 /\ d.length = Len(d.list)
<1>. DEFINE d == Ends(c, f)
            c1 == [c EXCEPT !.firing = FALSE]
            c2 == [c1 EXCEPT !.stack = Tail(c.stack)]
<1>0. c \in ListState /\ c.stack \in Seq(Payload) /\ c.gone \in BOOLEAN
  BY SteadyIs
<1>1. /\ c1 \in SteadyList /\ c1.list = c.list /\ c1.gone = c.gone /\ c1.locked = c.locked
      /\ c1.memory = c.memory /\ c1.firing = FALSE
  BY DEF SteadyList
<1>2. CASE c.gone
  <2>1. d = c1
    BY <1>2 DEF Ends
  <2>. HIDE DEF c1, d
  <2>. QED BY <1>1, <1>2, <2>1 DEF d
<1>3. CASE ~c.gone /\ "once" \in f /\ c.memory = Halted
  <2>1. d = Disabled(c1)
    BY <1>3 DEF Ends
  <2>. HIDE DEF c1, d
  <2>2. d \in SteadyList /\ d.list = <<>> /\ ~d.firing
    BY <1>1, <2>1, DisabledIs
  <2>. QED BY <1>3, <2>2 DEF d
<1>4. CASE ~c.gone /\ "once" \in f /\ c.memory # Halted
  <2>1. d = [c1 EXCEPT !.list = <<>>]
    BY <1>4 DEF Ends
  <2>2. <<>> \in Seq(Function)
    OBVIOUS
  <2>. HIDE DEF c1, d
  <2>3. /\ d \in SteadyList /\ d.list = <<>> /\ d.gone = c1.gone /\ d.memory = c1.memory
        /\ d.firing = c1.firing
    BY <1>1, <2>1, <2>2 DEF SteadyList
  <2>. QED BY <1>1, <1>4, <2>3 DEF d
<1>5. CASE ~c.gone /\ "once" \notin f /\ c.stack # <<>>
  <2>1. d = Refires(c2, f, Head(c.stack))
    BY <1>5 DEF Ends
  <2>2. Head(c.stack) \in Payload /\ Tail(c.stack) \in Seq(Payload)
    BY <1>0, <1>5
  <2>. HIDE DEF c1
  <2>3. /\ c2 \in SteadyList /\ c2.list = c1.list /\ c2.gone = c1.gone /\ c2.firing = c1.firing
    BY <1>1, <2>2 DEF SteadyList
  <2>. HIDE DEF c2, d
  <2>4. /\ d \in SteadyList /\ d.list = c2.list /\ d.gone = c2.gone
        /\ d.firing => d.index = 1 /\ d.length = Len(c2.list)
    BY <1>1, <2>1, <2>2, <2>3, RefiresIs
  <2>. QED BY <1>1, <1>5, <2>3, <2>4 DEF d
<1>6. CASE ~c.gone /\ "once" \notin f /\ c.stack = <<>>
  <2>1. d = c1
    BY <1>6 DEF Ends
  <2>. HIDE DEF c1, d
  <2>. QED BY <1>1, <1>6, <2>1 DEF d
<1>. QED BY <1>0, <1>2, <1>3, <1>4, <1>5, <1>6

LEMMA RemovesIs ==
    ASSUME NEW c \in SteadyList, c.list \in Seq(Listener), NEW fn
    PROVE  LET d == Removes(c, fn)
               gap(n) == UpTo(Those(c.list, fn), n)
           IN  /\ d \in SteadyList
               /\ d.list = Without(c.list, fn) /\ d.list \in Seq(Listener)
               /\ d.gone = c.gone /\ d.firing = c.firing
               /\ c.firing => /\ d.length = c.length - gap(c.length)
                              /\ d.index = c.index - gap(c.index)
<1>. DEFINE K == Those(c.list, fn)
            c1 == [c EXCEPT !.list = Without(c.list, fn)]
            d == Removes(c, fn)
            a == c.length - UpTo(K, c.length)
            b == c.index - UpTo(K, c.index)
<1>1. Len(c.list) \in Nat /\ c.length \in Nat /\ c.index \in Nat /\ c.firing \in BOOLEAN
  BY SteadyIs
<1>2. K \in SUBSET (1..Len(c.list))
  BY DEF Those
<1>3. Without(c.list, fn) \in Seq(Listener) /\ Without(c.list, fn) \in Seq(Function)
  <2>1. c.list \in Seq(Function)
    BY SteadyIs
  <2>. QED BY <2>1, WithoutIs
<1>4. UpTo(K, c.length) \in 0..c.length /\ UpTo(K, c.index) \in 0..c.index
  BY <1>1, <1>2, UpToBelow
<1>5. a \in Nat /\ b \in Nat
  BY <1>1, <1>4
<1>6. /\ c1 \in SteadyList /\ c1.list = Without(c.list, fn) /\ c1.gone = c.gone
      /\ c1.firing = c.firing /\ c1.length = c.length /\ c1.index = c.index
  BY <1>3 DEF SteadyList
<1>7. ASSUME NEW n \in Nat
      PROVE  {i \in 1..Len(c.list) : c.list[i] = fn /\ i <= n} = {i \in K : i <= n}
  BY DEF Those
<1>8. CASE c.firing
  <2>1. d = [c1 EXCEPT !.length = c1.length - UpTo(K, c.length),
                       !.index = c1.index - UpTo(K, c.index)]
    BY <1>1, <1>7, <1>8 DEF Removes, UpTo
  <2>. HIDE DEF c1, d, K
  <2>2. d = [c1 EXCEPT !.length = a, !.index = b]
    BY <1>6, <2>1
  <2>. HIDE DEF a, b
  <2>3. /\ d \in SteadyList /\ d.list = c1.list /\ d.gone = c1.gone /\ d.firing = c1.firing
        /\ d.length = a /\ d.index = b
    BY <1>5, <1>6, <2>2 DEF SteadyList
  <2>. QED BY <1>3, <1>6, <2>3 DEF d, a, b, K
<1>9. CASE ~c.firing
  <2>1. d = c1
    BY <1>9 DEF Removes
  <2>. HIDE DEF c1, d
  <2>. QED BY <1>3, <1>6, <1>9, <2>1 DEF d
<1>. QED BY <1>1, <1>8, <1>9

-------------------------------------------------------------------------------
(***************************************************************************)
(* What that does to a loop over the list.                                 *)
(***************************************************************************)
LEMMA LoopIs ==
    ASSUME NEW fr \in Loops
    PROVE  /\ fr.list \in ListName /\ fr.fn \in Function \cup {Nothing}
           /\ fr.due \in SUBSET Function /\ fr.heard \in SUBSET Function
BY DEF Loops

LEMMA StandsStarting ==
    ASSUME NEW c \in SteadyList, NEW l \in ListName,
           c.firing, c.length = Len(c.list), c.index \in 1..(c.length + 1)
    PROVE  /\ Starts(l, c) \in Loops /\ Starts(l, c).list = l /\ Starts(l, c).fn = Nothing
           /\ LoopStands(Starts(l, c), c)
<1>. DEFINE fr == Starts(l, c)
            due == ToSet(SubSeq(c.list, c.index, Len(c.list)))
            n == Len(c.list)
            k == c.index
            s == SubSeq(c.list, k, n)
<1>1. c.list \in Seq(Function) /\ n \in Nat /\ k \in Nat /\ k \in 1..(n + 1)
  BY SteadyIs
<1>2. ASSUME NEW x \in due
      PROVE  \E p \in DOMAIN c.list : p >= k /\ c.list[p] = x
  <2>. DEFINE m == (n - k) + 1
  <2>1. m \in Nat
    BY <1>1
  <2>2. s \in Seq(Function) /\ Len(s) = m /\ \A i \in 1..m : s[i] = c.list[(k + i) - 1]
    <3>1. c.list \in Seq(Function) /\ k \in 1..(Len(c.list) + 1) /\ n \in (k - 1)..Len(c.list)
      BY <1>1
    <3>2. k \in 1..(n + 1) /\ n \in (k - 1)..n
      BY <1>1
    <3>3. s \in Seq(Function) /\ Len(s) = (n - k) + 1
      BY <1>1, <3>1, SubSeqProperties
    <3>4. \A i \in 1..m : s[i] = c.list[(k + i) - 1]
      BY <1>1, <3>1, SubSeqProperties
    <3>. QED BY <3>3, <3>4
  <2>. HIDE DEF s, m
  <2>3. PICK i \in 1..m : x = s[i]
    BY <2>2 DEF ToSet, s
  <2>. DEFINE p == (k + i) - 1
  <2>4. p \in 1..n /\ p >= k
    BY <1>1, <2>1, <2>3 DEF m
  <2>5. c.list[p] = x
    BY <2>2, <2>3
  <2>. QED BY <1>1, <2>4, <2>5
<1>3. due \in SUBSET Function
  BY <1>1, <1>2
<1>. HIDE DEF due
<1>4. fr = [Loop(l) EXCEPT !.due = due]
  BY DEF Starts, due
<1>. DEFINE fresh == Loop(l)
<1>5. /\ fresh \in Loops /\ fresh.list = l /\ fresh.fn = Nothing
      /\ fresh.heard = {} /\ fresh.due = {}
  BY DEF Loop, Loops
<1>. HIDE DEF fr, fresh
<1>6. fr \in Loops /\ fr.list = l /\ fr.fn = Nothing /\ fr.due = due /\ fr.heard = {}
  <2>1. fr = [fresh EXCEPT !.due = due]
    BY <1>4 DEF fresh
  <2>. QED BY <1>3, <1>5, <2>1 DEF Loops
<1>7. Past(fr, c) = k
  BY <1>6 DEF Past
<1>8. due \subseteq Ahead(fr, c)
  BY <1>2, <1>7 DEF Ahead
<1>9. LoopStands(fr, c)
  BY <1>1, <1>6, <1>7, <1>8 DEF LoopStands
<1>. QED BY <1>6, <1>9 DEF fr

LEMMA StandsGiven ==
    ASSUME NEW fr \in Loops, NEW c \in SteadyList, LoopStands(fr, c),
           NEW f, NEW fn \in Listener
    PROVE  LET more == IF IsNew(c, f, fn) THEN {fn} ELSE {}
           IN  LoopStands([fr EXCEPT !.due = (@ \cup more) \ {}], Adds(c, f, fn))
<1>. DEFINE more == IF IsNew(c, f, fn) THEN {fn} ELSE {}
            g == [fr EXCEPT !.due = (@ \cup more) \ {}]
            d == Adds(c, f, fn)
            n == Len(c.list)
<1>1. /\ c.list \in Seq(Function) /\ n \in Nat /\ fn \in Function /\ c.firing
      /\ c.gone \in BOOLEAN /\ c.index \in Nat
  BY SteadyIs, ListenersAre DEF LoopStands
<1>2. /\ d \in SteadyList /\ (c.gone => d = c) /\ d.gone = c.gone
      /\ ~c.gone => /\ d.list = Longer(c, f, fn) /\ d.firing /\ d.length = Len(d.list)
                    /\ d.index = c.index
  BY <1>1, AddsIs
<1>3. /\ Len(Longer(c, f, fn)) = IF IsNew(c, f, fn) THEN n + 1 ELSE n
      /\ Longer(c, f, fn) \in Seq(Function)
      /\ \A i \in 1..n : Longer(c, f, fn)[i] = c.list[i]
      /\ IsNew(c, f, fn) => Longer(c, f, fn)[n + 1] = fn
  BY <1>1, LongerIs
<1>4. g.fn = fr.fn /\ g.due = fr.due \cup more /\ g.heard = fr.heard
  BY DEF Loops
<1>. HIDE DEF g, d
<1>5. ASSUME c.gone PROVE LoopStands(g, d)
  BY <1>1, <1>2, <1>5 DEF LoopStands
<1>6. ASSUME ~c.gone PROVE LoopStands(g, d)
  <2>1. Past(g, d) = Past(fr, c)
    BY <1>2, <1>4, <1>6 DEF Past
  <2>2. /\ c.length = n /\ Past(fr, c) \in 1..(n + 1)
        /\ fr.due \subseteq fr.heard \cup Ahead(fr, c)
    BY <1>6 DEF LoopStands
  <2>3. Past(g, d) \in 1..(d.length + 1)
    BY <1>1, <1>2, <1>3, <1>6, <2>1, <2>2
  <2>4. Ahead(fr, c) \subseteq Ahead(g, d)
    <3>1. SUFFICES ASSUME NEW p \in 1..n, p >= Past(fr, c)
                   PROVE  c.list[p] \in Ahead(g, d)
      BY <1>1 DEF Ahead
    <3>2. p \in DOMAIN d.list /\ d.list[p] = c.list[p]
      BY <1>1, <1>2, <1>3, <1>6
    <3>. QED BY <2>1, <3>1, <3>2 DEF Ahead
  <2>5. more \subseteq Ahead(g, d)
    <3>1. SUFFICES ASSUME IsNew(c, f, fn) PROVE fn \in Ahead(g, d)
      OBVIOUS
    <3>2. n + 1 \in DOMAIN d.list /\ d.list[n + 1] = fn /\ n + 1 >= Past(g, d)
      BY <1>1, <1>2, <1>3, <1>6, <2>1, <2>2, <3>1
    <3>. QED BY <3>2 DEF Ahead
  <2>. HIDE DEF more
  <2>. QED BY <1>2, <1>4, <1>6, <2>2, <2>3, <2>4, <2>5 DEF LoopStands
<1>. QED BY <1>1, <1>5, <1>6 DEF g, d

LEMMA StandsWithdrawn ==
    ASSUME NEW fr \in Loops, fr.fn # Nothing, NEW c \in SteadyList, c.list \in Seq(Listener),
           LoopStands(fr, c), ~c.gone, NEW fn
    PROVE  LoopStands([fr EXCEPT !.due = (@ \cup {}) \ {fn}], Removes(c, fn))
<1>. DEFINE g == [fr EXCEPT !.due = (@ \cup {}) \ {fn}]
            d == Removes(c, fn)
            n == Len(c.list)
            x == c.index
            K == Others(c.list, fn)
            T == Those(c.list, fn)
            w == Without(c.list, fn)
<1>1. n \in Nat /\ x \in Nat /\ DOMAIN c.list = 1..n
  BY SteadyIs
<1>2. c.firing /\ c.length = n /\ Past(fr, c) = x + 1 /\ x + 1 \in 1..(n + 1)
      /\ fr.due \subseteq fr.heard \cup Ahead(fr, c)
  BY DEF LoopStands, Past
<1>3. x \in 0..n /\ n \in 0..n
  BY <1>1, <1>2
<1>4. /\ d.list = w /\ d.list \in Seq(Listener) /\ d.gone = c.gone /\ d.firing = c.firing
      /\ d.length = n - UpTo(T, n) /\ d.index = x - UpTo(T, x)
  BY <1>2, RemovesIs
<1>5. g.fn = fr.fn /\ g.due = fr.due \ {fn} /\ g.heard = fr.heard
  BY DEF Loops
<1>6. K \in SUBSET (1..n) /\ T \in SUBSET (1..n)
  BY <1>1 DEF Others, Those
<1>7. /\ Len(w) = Cardinality(K)
      /\ \A i \in K : UpTo(K, i) \in 1..Len(w) /\ w[UpTo(K, i)] = c.list[i]
  BY WithoutIs
<1>8. UpTo(K, x) + UpTo(T, x) = x /\ UpTo(K, n) + UpTo(T, n) = n
  BY <1>3, UpToSplits
<1>. HIDE DEF K, T, w, g, d, n
<1>9. UpTo(K, n) = Cardinality(K)
  BY <1>1, <1>6, UpToAll
<1>10. /\ UpTo(K, x) \in 0..x /\ UpTo(T, x) \in 0..x
       /\ UpTo(K, n) \in 0..n /\ UpTo(T, n) \in 0..n
  BY <1>1, <1>6, UpToBelow
<1>11. d.index = UpTo(K, x) /\ d.length = Len(w)
  BY <1>1, <1>4, <1>7, <1>8, <1>9, <1>10
<1>12. Past(g, d) = UpTo(K, x) + 1
  BY <1>5, <1>11 DEF Past
<1>13. UpTo(K, x) <= UpTo(K, n)
  <2>1. x <= n
    BY <1>1, <1>3
  <2>. QED BY <1>1, <1>6, <2>1, UpToGrows
<1>14. Past(g, d) \in 1..(d.length + 1)
  BY <1>1, <1>7, <1>9, <1>10, <1>11, <1>12, <1>13
<1>15. ASSUME NEW p \in 1..n, p >= x + 1, c.list[p] # fn
       PROVE  c.list[p] \in Ahead(g, d)
  <2>1. p \in K /\ x < p
    BY <1>1, <1>15 DEF K, Others
  <2>2. UpTo(K, x) < UpTo(K, p)
    BY <1>1, <1>6, <2>1, UpToLess
  <2>3. UpTo(K, p) \in 1..Len(w) /\ w[UpTo(K, p)] = c.list[p]
    BY <1>7, <2>1
  <2>4. UpTo(K, p) \in DOMAIN d.list
    BY <1>4, <2>3
  <2>5. UpTo(K, p) >= Past(g, d)
    BY <1>7, <1>10, <1>12, <2>2, <2>3, <1>1
  <2>. QED BY <1>4, <2>3, <2>4, <2>5 DEF Ahead
<1>16. g.due \subseteq g.heard \cup Ahead(g, d)
  <2>1. SUFFICES ASSUME NEW y \in fr.due, y # fn, y \notin fr.heard PROVE y \in Ahead(g, d)
    BY <1>5
  <2>2. y \in Ahead(fr, c)
    BY <1>2, <2>1
  <2>3. PICK p \in DOMAIN c.list : p >= Past(fr, c) /\ c.list[p] = y
    BY <2>2 DEF Ahead
  <2>. QED BY <1>1, <1>2, <1>15, <2>1, <2>3
<1>17. d.length = Len(d.list)
  BY <1>4, <1>11
<1>. QED BY <1>2, <1>4, <1>14, <1>16, <1>17 DEF LoopStands, g, d

LEMMA StandsCalling ==
    ASSUME NEW fr \in Loops, NEW c \in SteadyList, LoopStands(fr, c), fr.fn = Nothing, Goes(c)
    PROVE  LET fn == c.list[c.index]
               g == [fr EXCEPT !.fn = fn, !.heard = @ \cup {fn}]
           IN  /\ c.index \in DOMAIN c.list /\ fn \in Function
               /\ g \in Loops /\ g.list = fr.list /\ g.fn = fn /\ LoopStands(g, c)
<1>. DEFINE fn == c.list[c.index]
            g == [fr EXCEPT !.fn = fn, !.heard = @ \cup {fn}]
<1>1. /\ c.list \in Seq(Function) /\ c.index \in Nat /\ Len(c.list) \in Nat
      /\ ~c.gone /\ c.index <= c.length
  BY SteadyIs DEF Goes
<1>2. c.firing /\ c.length = Len(c.list) /\ Past(fr, c) \in 1..(c.length + 1)
      /\ fr.due \subseteq fr.heard \cup Ahead(fr, c) /\ Past(fr, c) = c.index
  BY <1>1 DEF LoopStands, Past
<1>3. c.index \in 1..Len(c.list) /\ c.index \in DOMAIN c.list
  BY <1>1, <1>2
<1>4. fn \in Function /\ fn # Nothing
  BY <1>1, <1>3, ListenersAre
<1>. HIDE DEF fn
<1>5. g \in Loops /\ g.list = fr.list /\ g.fn = fn /\ g.due = fr.due /\ g.heard = fr.heard \cup {fn}
  BY <1>4 DEF Loops
<1>. HIDE DEF g
<1>6. Past(g, c) = c.index + 1
  BY <1>4, <1>5 DEF Past
<1>7. Ahead(fr, c) \subseteq Ahead(g, c) \cup {fn}
  <2>1. SUFFICES ASSUME NEW p \in DOMAIN c.list, p >= c.index, c.list[p] # fn
                 PROVE  c.list[p] \in Ahead(g, c)
    BY <1>2 DEF Ahead
  <2>2. p # c.index /\ p \in Nat
    BY <1>1, <2>1 DEF fn
  <2>3. p >= c.index + 1
    BY <1>1, <2>1, <2>2
  <2>. QED BY <1>6, <2>3 DEF Ahead
<1>8. LoopStands(g, c)
  BY <1>1, <1>2, <1>3, <1>5, <1>6, <1>7 DEF LoopStands
<1>. QED BY <1>3, <1>4, <1>5, <1>8 DEF g, fn

LEMMA StandsReturning ==
    ASSUME NEW fr \in Loops, NEW c \in SteadyList, LoopStands(fr, c), fr.fn # Nothing
    PROVE  LET g == [fr EXCEPT !.fn = Nothing]
               d == [c EXCEPT !.index = c.index + 1]
           IN  /\ g \in Loops /\ g.list = fr.list /\ g.fn = Nothing
               /\ d \in SteadyList /\ d.list = c.list /\ d.gone = c.gone /\ d.locked = c.locked
               /\ d.memory = c.memory /\ d.firing = c.firing /\ d.index = c.index + 1
               /\ d.length = c.length
               /\ LoopStands(g, d)
<1>. DEFINE g == [fr EXCEPT !.fn = Nothing]
            k == c.index + 1
            d == [c EXCEPT !.index = k]
<1>1. c.index \in Nat /\ k \in Nat
  BY SteadyIs
<1>2. g \in Loops /\ g.list = fr.list /\ g.fn = Nothing /\ g.due = fr.due /\ g.heard = fr.heard
  BY DEF Loops
<1>3. Past(fr, c) = k
  BY DEF Past
<1>. HIDE DEF g, k
<1>4. /\ d \in SteadyList /\ d.list = c.list /\ d.gone = c.gone /\ d.locked = c.locked
      /\ d.memory = c.memory /\ d.firing = c.firing /\ d.index = k
      /\ d.length = c.length
  BY <1>1 DEF SteadyList
<1>. HIDE DEF d
<1>5. Past(g, d) = k /\ Ahead(g, d) = Ahead(fr, c)
  BY <1>2, <1>3, <1>4 DEF Past, Ahead
<1>6. LoopStands(g, d)
  BY <1>2, <1>3, <1>4, <1>5 DEF LoopStands
<1>. QED BY <1>2, <1>4, <1>6 DEF g, d, k

LEMMA StandsStopping ==
    ASSUME NEW fr \in Loops, NEW c \in SteadyList, LoopStands(fr, c), fr.fn # Nothing
    PROVE  LET g == [fr EXCEPT !.fn = Nothing, !.due = {}]
               d == [c EXCEPT !.memory = Halted, !.index = c.length + 1]
           IN  /\ g \in Loops /\ g.list = fr.list /\ g.fn = Nothing
               /\ d \in SteadyList /\ d.list = c.list /\ d.firing = c.firing
               /\ LoopStands(g, d)
<1>. DEFINE g == [fr EXCEPT !.fn = Nothing, !.due = {}]
            k == c.length + 1
            d == [c EXCEPT !.memory = Halted, !.index = k]
<1>1. c.length \in Nat /\ k \in Nat /\ k \in 1..(c.length + 1)
  BY SteadyIs
<1>2. g \in Loops /\ g.list = fr.list /\ g.fn = Nothing /\ g.due = {}
  BY DEF Loops
<1>. HIDE DEF g
<1>3. /\ d \in SteadyList /\ d.list = c.list /\ d.gone = c.gone
      /\ d.firing = c.firing /\ d.index = k /\ d.length = c.length
  <2>. HIDE DEF k
  <2>. QED BY <1>1 DEF SteadyList
<1>. HIDE DEF d
<1>4. Past(g, d) = k
  BY <1>2, <1>3 DEF Past
<1>5. LoopStands(g, d)
  BY <1>1, <1>2, <1>3, <1>4 DEF LoopStands
<1>. QED BY <1>2, <1>3, <1>5 DEF g, d

(***************************************************************************)
(* The stack: its loops go on, one comes on top, the top one goes.         *)
(***************************************************************************)
LEMMA StackGoesOn ==
    ASSUME NEW cs \in Seq(Loops), NEW ls, StackHolds(cs, ls),
           NEW ds \in Seq(Loops), NEW ms, DOMAIN ms = DOMAIN ls, Len(ds) = Len(cs),
           \A i \in DOMAIN cs : /\ ds[i].list = cs[i].list
                                /\ i < Len(cs) => ds[i].fn = cs[i].fn
                                /\ LoopStands(ds[i], ms[cs[i].list])
    PROVE  /\ StackHolds(ds, ms)
           /\ \A thrown : /\ NoneLost(cs, ls, thrown)
                          /\ \A l \in DOMAIN ls : ms[l].firing => ls[l].firing
                          => NoneLost(ds, ms, thrown)
<1>1. DOMAIN ds = DOMAIN cs
  OBVIOUS
<1>2. StackHolds(ds, ms)
  BY <1>1 DEF StackHolds
<1>3. ASSUME NEW thrown, NoneLost(cs, ls, thrown), \A l \in DOMAIN ls : ms[l].firing => ls[l].firing
      PROVE  NoneLost(ds, ms, thrown)
  BY <1>1, <1>3 DEF NoneLost
<1>. QED BY <1>2, <1>3

LEMMA StackGrows ==
    ASSUME NEW cs \in Seq(Loops), NEW ls, StackHolds(cs, ls), NEW fr \in Loops,
           NEW c, fr.list \in DOMAIN ls, LoopStands(fr, c),
           cs # <<>> => cs[Len(cs)].fn \in Listener,
           \A i \in DOMAIN cs : cs[i].list # fr.list
    PROVE  LET ds == Append(cs, fr)
               ms == [ls EXCEPT ![fr.list] = c]
           IN  /\ ds \in Seq(Loops) /\ StackHolds(ds, ms)
               /\ \A thrown : NoneLost(cs, ls, thrown) => NoneLost(ds, ms, thrown)
<1>. DEFINE ds == Append(cs, fr)
            ms == [ls EXCEPT ![fr.list] = c]
            n == Len(cs)
<1>1. /\ ds \in Seq(Loops) /\ Len(ds) = n + 1 /\ ds[n + 1] = fr
      /\ DOMAIN ds = 1..(n + 1) /\ DOMAIN cs = 1..n /\ n \in Nat
      /\ \A i \in 1..n : ds[i] = cs[i]
  OBVIOUS
<1>2. /\ DOMAIN ms = DOMAIN ls /\ ms[fr.list] = c
      /\ \A l \in DOMAIN ls : l # fr.list => ms[l] = ls[l]
  OBVIOUS
<1>. HIDE DEF ds, ms
<1>3. ASSUME NEW i \in 1..(n + 1), i # n + 1
      PROVE  /\ i \in 1..n /\ ds[i].list \in DOMAIN ms /\ ds[i].list # fr.list
             /\ LoopStands(ds[i], ms[ds[i].list])
             /\ ds[i].fn \in Listener
             /\ \A j \in 1..(n + 1) : ds[i].list = ds[j].list => i = j
  <2>1. i \in 1..n
    BY <1>1, <1>3
  <2>2. /\ cs[i].list \in DOMAIN ls /\ LoopStands(cs[i], ls[cs[i].list])
        /\ i < n => cs[i].fn \in Listener
        /\ \A j \in 1..n : cs[i].list = cs[j].list => i = j
        /\ cs[i].list # fr.list /\ ds[i] = cs[i]
    BY <1>1, <2>1 DEF StackHolds
  <2>3. i = n => cs[i].fn \in Listener
    BY <1>1, <2>1
  <2>4. cs[i].fn \in Listener
    <3>1. n \in Nat
      OBVIOUS
    <3>. HIDE DEF n
    <3>2. i < n \/ i = n
      BY <2>1, <3>1
    <3>. QED BY <2>2, <2>3, <3>2
  <2>5. ASSUME NEW j \in 1..(n + 1), ds[i].list = ds[j].list PROVE i = j
    <3>1. j # n + 1
      BY <1>1, <2>2, <2>5
    <3>2. j \in 1..n
      BY <1>1, <3>1
    <3>. QED BY <1>1, <2>2, <2>5, <3>2
  <2>. QED BY <1>2, <2>1, <2>2, <2>4, <2>5
<1>4. StackHolds(ds, ms)
  <2>1. SUFFICES ASSUME NEW i \in 1..(n + 1)
                 PROVE  /\ ds[i].list \in DOMAIN ms
                        /\ LoopStands(ds[i], ms[ds[i].list])
                        /\ i < n + 1 => ds[i].fn \in Listener
                        /\ \A j \in 1..(n + 1) : ds[i].list = ds[j].list => i = j
    BY <1>1 DEF StackHolds
  <2>2. CASE i # n + 1
    BY <1>3, <2>2
  <2>3. CASE i = n + 1
    <3>1. ASSUME NEW j \in 1..(n + 1), j # n + 1 PROVE ds[j].list # fr.list
      BY <1>3, <3>1
    <3>. QED BY <1>1, <1>2, <2>3, <3>1
  <2>. QED BY <2>2, <2>3
<1>5. ASSUME NEW thrown, NoneLost(cs, ls, thrown) PROVE NoneLost(ds, ms, thrown)
  <2>1. SUFFICES ASSUME ~thrown, NEW l \in DOMAIN ls, ms[l].firing
                 PROVE  \E i \in 1..(n + 1) : ds[i].list = l
    BY <1>1, <1>2 DEF NoneLost
  <2>2. CASE l = fr.list
    BY <1>1, <2>2
  <2>3. CASE l # fr.list
    <3>1. PICK i \in 1..n : cs[i].list = l
      BY <1>1, <1>2, <1>5, <2>1, <2>3 DEF NoneLost
    <3>. QED BY <1>1, <3>1
  <2>. QED BY <2>2, <2>3
<1>. QED BY <1>1, <1>4, <1>5 DEF ds, ms

LEMMA StackShrinks ==
    ASSUME NEW cs \in Seq(Loops), NEW ls, StackHolds(cs, ls), cs # <<>>,
           NEW c, ~c.firing
    PROVE  LET ds == Front(cs)
               ms == [ls EXCEPT ![cs[Len(cs)].list] = c]
           IN  /\ ds \in Seq(Loops) /\ StackHolds(ds, ms)
               /\ Len(ds) = Len(cs) - 1 /\ (\A i \in DOMAIN ds : i \in DOMAIN cs /\ ds[i] = cs[i])
               /\ ds # <<>> => ds[Len(ds)].fn \in Listener
               /\ \A i \in DOMAIN ds : ds[i].list # cs[Len(cs)].list
               /\ \A thrown : NoneLost(cs, ls, thrown) => NoneLost(ds, ms, thrown)
<1>. DEFINE ds == Front(cs)
            top == cs[Len(cs)].list
            ms == [ls EXCEPT ![top] = c]
            n == Len(cs) - 1
<1>1. n \in Nat /\ Len(cs) = n + 1 /\ DOMAIN cs = 1..(n + 1)
  BY EmptySeq
<1>2. ds \in Seq(Loops) /\ Len(ds) = n /\ DOMAIN ds = 1..n /\ \A i \in 1..n : ds[i] = cs[i]
  <2>. HIDE DEF n
  <2>1. ds \in Seq(Loops) /\ Len(ds) = n /\ \A i \in 1..n : ds[i] = cs[i]
    BY <1>1, FrontOf
  <2>. QED BY <2>1
<1>3. /\ DOMAIN ms = DOMAIN ls /\ (top \in DOMAIN ls => ms[top] = c)
      /\ \A l \in DOMAIN ls : l # top => ms[l] = ls[l]
  OBVIOUS
<1>. HIDE DEF ds, ms, n
<1>4. ASSUME NEW i \in 1..n
      PROVE  /\ i \in 1..(n + 1) /\ i < n + 1 /\ i # n + 1
             /\ ds[i] = cs[i] /\ ds[i].list \in DOMAIN ms /\ ds[i].list # top
             /\ LoopStands(ds[i], ms[ds[i].list])
             /\ ds[i].fn \in Listener
             /\ \A j \in 1..n : ds[i].list = ds[j].list => i = j
  <2>1. i \in 1..(n + 1) /\ i < n + 1 /\ i # n + 1 /\ n + 1 \in 1..(n + 1)
    BY <1>1
  <2>2. /\ cs[i].list \in DOMAIN ls /\ LoopStands(cs[i], ls[cs[i].list])
        /\ cs[i].fn \in Listener
        /\ \A j \in 1..(n + 1) : cs[i].list = cs[j].list => i = j
    BY <1>1, <2>1 DEF StackHolds
  <2>3. cs[i].list # top
    BY <1>1, <2>1, <2>2
  <2>4. \A j \in 1..n : j \in 1..(n + 1)
    BY <1>1
  <2>. QED BY <1>2, <1>3, <2>1, <2>2, <2>3, <2>4
<1>5. StackHolds(ds, ms)
  BY <1>2, <1>4 DEF StackHolds
<1>6. ASSUME NEW thrown, NoneLost(cs, ls, thrown) PROVE NoneLost(ds, ms, thrown)
  <2>1. SUFFICES ASSUME ~thrown, NEW l \in DOMAIN ls, ms[l].firing
                 PROVE  \E i \in 1..n : ds[i].list = l
    BY <1>2, <1>3 DEF NoneLost
  <2>2. l # top
    BY <1>3, <2>1
  <2>3. PICK i \in 1..(n + 1) : cs[i].list = l
    BY <1>1, <1>3, <1>6, <2>1, <2>2 DEF NoneLost
  <2>4. i # n + 1
    BY <1>1, <2>2, <2>3
  <2>5. i \in 1..n
    BY <1>1, <2>4
  <2>. QED BY <1>2, <2>3, <2>5
<1>7. ds # <<>> => ds[Len(ds)].fn \in Listener
  <2>1. SUFFICES ASSUME ds # <<>> PROVE n \in 1..n
    BY <1>2, <1>4
  <2>2. n # 0
    BY <1>2, <2>1, EmptySeq
  <2>. QED BY <1>1, <2>2
<1>8. Len(ds) = Len(cs) - 1
  BY <1>1, <1>2
<1>9. \A i \in DOMAIN ds : i \in DOMAIN cs /\ ds[i] = cs[i] /\ ds[i].list # top
  BY <1>1, <1>2, <1>4
<1>. QED BY <1>2, <1>5, <1>6, <1>7, <1>8, <1>9 DEF ds, ms

-------------------------------------------------------------------------------
(***************************************************************************)
(* The steps, as far as the loops go.                                      *)
(***************************************************************************)
ListsAre(ls) ==
    /\ ls \in [DOMAIN flags -> SteadyList]
    /\ \A l \in DOMAIN flags \ {"done", "fail"} : ls[l].list \in Seq(Listener)

LEMMA KnownIs ==
    ASSUME CallbackTypes
    PROVE  /\ DOMAIN flags \subseteq ListName
           /\ DOMAIN lists = DOMAIN flags
           /\ \A l \in DOMAIN flags : lists[l] \in SteadyList
           /\ ListsAre(lists)
<1>1. DOMAIN flags \subseteq ListName
  <2>1. DOMAIN DeferredFlags = {"done", "fail", "progress"}
    BY DEF DeferredFlags
  <2>. QED BY <2>1 DEF CallbackTypes, ListName
<1>. QED BY <1>1 DEF CallbackTypes, ListsAre

LEMMA CurrentIs ==
    ASSUME CallbackTypes, LoopsHold, calls # <<>>
    PROVE  /\ Len(calls) \in Nat /\ Len(calls) \in DOMAIN calls /\ DOMAIN calls = 1..Len(calls)
           /\ Current \in Loops /\ Current.list \in DOMAIN flags
           /\ lists[Current.list] \in SteadyList
           /\ LoopStands(Current, lists[Current.list])
           /\ \A i \in DOMAIN calls : calls[i].list = Current.list => i = Len(calls)
<1>1. calls \in Seq(Loops)
  BY DEF CallbackTypes
<1>2. Len(calls) \in Nat /\ Len(calls) # 0 /\ DOMAIN calls = 1..Len(calls)
  BY <1>1, EmptySeq
<1>3. Len(calls) \in DOMAIN calls
  BY <1>2
<1>4. Current \in Loops
  BY <1>1, <1>2, <1>3 DEF Current
<1>5. Current.list \in DOMAIN lists /\ LoopStands(Current, lists[Current.list])
      /\ \A i \in DOMAIN calls : calls[i].list = Current.list => i = Len(calls)
  BY <1>3 DEF LoopsHold, StackHolds, Current
<1>. QED BY <1>2, <1>3, <1>4, <1>5, KnownIs

LEMMA ListChanges ==
    ASSUME CallbackTypes, NEW ls, ListsAre(ls), NEW l \in DOMAIN flags, NEW c \in SteadyList,
           l \notin {"done", "fail"} => c.list \in Seq(Listener)
    PROVE  ListsAre([ls EXCEPT ![l] = c])
BY DEF ListsAre

LEMMA TypesGoOn ==
    ASSUME CallbackTypes, UNCHANGED flags, ListsAre(lists'), calls' \in Seq(Loops),
           state' \in {"pending", "resolved", "rejected"}, uses' \in 0..MaxUses,
           crashed' \in BOOLEAN,
           attached' \in [DOMAIN flags -> Seq(Listener)],
           called' \in [DOMAIN flags -> Seq(Listener \X Memories)]
    PROVE  CallbackTypes'
BY DEF CallbackTypes, ListsAre, Memories

LEMMA UseIs ==
    ASSUME CallbackTypes, Use
    PROVE  /\ UNCHANGED <<flags, state, crashed, called>>
           /\ uses' \in 0..MaxUses
           /\ calls = <<>> \/ Current.fn \in Listener
<1>1. MaxUses \in Nat
  BY CallbacksAssumption DEF CallbacksAssumption
<1>2. uses \in 0..MaxUses
  BY DEF CallbackTypes
<1>. QED BY <1>1, <1>2 DEF Use, Running

LEMMA OweIs ==
    ASSUME calls \in Seq(Loops), NEW l, NEW more \in SUBSET Function, NEW less, Owe(l, more, less)
    PROVE  /\ calls' \in Seq(Loops) /\ Len(calls') = Len(calls)
           /\ DOMAIN calls' = DOMAIN calls
           /\ \A i \in DOMAIN calls :
                 /\ calls'[i].list = calls[i].list /\ calls'[i].fn = calls[i].fn
                 /\ calls'[i] = IF calls[i].list = l
                                THEN [calls[i] EXCEPT !.due = (@ \cup more) \ less]
                                ELSE calls[i]
<1>. DEFINE n == Len(calls)
            New1(i) == IF calls[i].list = l THEN [calls[i] EXCEPT !.due = (@ \cup more) \ less]
                       ELSE calls[i]
<1>1. n \in Nat /\ DOMAIN calls = 1..n
  OBVIOUS
<1>2. ASSUME NEW i \in 1..n
      PROVE  New1(i) \in Loops /\ New1(i).list = calls[i].list /\ New1(i).fn = calls[i].fn
  <2>1. calls[i] \in Loops
    BY <1>2
  <2>2. (calls[i].due \cup more) \ less \in SUBSET Function
    BY <2>1, LoopIs
  <2>. QED BY <2>1, <2>2 DEF Loops
<1>3. calls' = [i \in 1..n |-> New1(i)]
  BY <1>1 DEF Owe
<1>. HIDE DEF New1, n
<1>4. calls' \in Seq(Loops) /\ Len(calls') = n
  BY <1>1, <1>2, <1>3
<1>5. \A i \in 1..n : calls'[i] = New1(i)
  BY <1>3
<1>6. DOMAIN calls' = 1..n
  BY <1>4
<1>7. \A i \in 1..n : calls'[i].list = calls[i].list /\ calls'[i].fn = calls[i].fn
  BY <1>2, <1>5
<1>8. \A i \in 1..n :
          calls'[i] = IF calls[i].list = l THEN [calls[i] EXCEPT !.due = (@ \cup more) \ less]
                      ELSE calls[i]
  BY <1>5 DEF New1
<1>. QED BY <1>1, <1>4, <1>6, <1>7, <1>8 DEF n

LEMMA NotFired ==
    ASSUME CallbackTypes, LoopsHold, NEW l \in DOMAIN flags, ~lists[l].firing
    PROVE  NoLoop(l)
BY DEF LoopsHold, StackHolds, LoopStands, NoLoop

LEMMA StandsTheSame ==
    ASSUME NEW fr, NEW c, NEW d, LoopStands(fr, c),
           d.firing = c.firing,
           d.gone \/ (/\ d.list = c.list /\ d.index = c.index /\ d.length = c.length
                      /\ d.gone = c.gone)
    PROVE  LoopStands(fr, d)
<1>1. CASE d.gone
  BY <1>1 DEF LoopStands
<1>2. CASE d.list = c.list /\ d.index = c.index /\ d.length = c.length /\ d.gone = c.gone
  <2>1. Past(fr, d) = Past(fr, c) /\ Ahead(fr, d) = Ahead(fr, c)
    BY <1>2 DEF Past, Ahead
  <2>. QED BY <1>2, <2>1 DEF LoopStands
<1>. QED BY <1>1, <1>2

(***************************************************************************)
(* A list changes, and all its loop notices is that it is gone.            *)
(***************************************************************************)
LEMMA QuietChange ==
    ASSUME CallbackTypes, LoopsHold, NEW l \in DOMAIN flags, NEW c \in SteadyList,
           c.firing = lists[l].firing,
           \/ c.gone \/ ~c.firing
           \/ /\ c.list = lists[l].list /\ c.index = lists[l].index
              /\ c.length = lists[l].length /\ c.gone = lists[l].gone,
           lists' = [lists EXCEPT ![l] = c], UNCHANGED <<flags, calls, crashed>>
    PROVE  LoopsHold'
<1>1. calls \in Seq(Loops) /\ DOMAIN lists = DOMAIN flags
  BY KnownIs DEF CallbackTypes
<1>2. DOMAIN lists' = DOMAIN lists /\ lists'[l] = c
      /\ \A k \in DOMAIN lists : k # l => lists'[k] = lists[k]
  BY <1>1
<1>3. ASSUME NEW i \in DOMAIN calls PROVE LoopStands(calls[i], lists'[calls[i].list])
  <2>1. calls[i].list \in DOMAIN lists /\ LoopStands(calls[i], lists[calls[i].list])
    BY DEF LoopsHold, StackHolds
  <2>2. CASE calls[i].list = l
    <3>1. lists[l].firing
      BY <2>1, <2>2 DEF LoopStands
    <3>. QED BY <1>2, <2>1, <2>2, <3>1, StandsTheSame
  <2>3. CASE calls[i].list # l
    BY <1>2, <2>1, <2>3
  <2>. QED BY <2>2, <2>3
<1>4. \A k \in DOMAIN lists : lists'[k].firing => lists[k].firing
  BY <1>2
<1>5. StackHolds(calls, lists) /\ NoneLost(calls, lists, crashed)
  BY DEF LoopsHold
<1>6. StackHolds(calls, lists') /\ NoneLost(calls, lists', crashed)
  BY <1>1, <1>2, <1>3, <1>4, <1>5, StackGoesOn
<1>. QED BY <1>6 DEF LoopsHold

LEMMA ListComes ==
    ASSUME CallbackTypes, LoopsHold, NEW l \in DOMAIN flags, NEW c \in SteadyList,
           calls = <<>> \/ Current.fn \in Listener,
           ~lists[l].firing, c.firing => c.length = Len(c.list) /\ c.index \in 1..(c.length + 1),
           Becomes(l, c), UNCHANGED <<flags, crashed>>
    PROVE  calls' \in Seq(Loops) /\ LoopsHold'
<1>1. calls \in Seq(Loops) /\ DOMAIN lists = DOMAIN flags /\ l \in ListName
  BY KnownIs DEF CallbackTypes
<1>2. lists' = [lists EXCEPT ![l] = c]
  BY DEF Becomes
<1>3. CASE ~c.firing
  <2>1. calls' = calls
    BY <1>3 DEF Becomes
  <2>2. lists[l].firing \in BOOLEAN /\ c.firing \in BOOLEAN
    BY KnownIs, SteadyIs
  <2>3. c.firing = lists[l].firing
    BY <1>3, <2>2
  <2>. QED BY <1>1, <1>2, <1>3, <2>1, <2>3, QuietChange
<1>4. CASE c.firing
  <2>. DEFINE fr == Starts(l, c)
  <2>1. fr \in Loops /\ fr.list = l /\ LoopStands(fr, c)
    BY <1>1, <1>4, StandsStarting
  <2>2. calls' = Append(calls, fr)
    BY <1>4 DEF Becomes
  <2>. HIDE DEF fr
  <2>3. \A i \in DOMAIN calls : calls[i].list # l
    BY NotFired DEF NoLoop
  <2>4. calls # <<>> => calls[Len(calls)].fn \in Listener
    BY DEF Current
  <2>5. StackHolds(calls, lists) /\ NoneLost(calls, lists, crashed)
    BY DEF LoopsHold
  <2>6. calls' \in Seq(Loops) /\ StackHolds(calls', lists') /\ NoneLost(calls', lists', crashed)
    BY <1>1, <1>2, <2>1, <2>2, <2>3, <2>4, <2>5, StackGrows
  <2>. QED BY <2>6 DEF LoopsHold
<1>. QED BY <1>3, <1>4

CallsHold == CallbackTypes /\ LoopsHold

LEMMA GiveLoops ==
    ASSUME CallsHold, NEW l \in DOMAIN flags, NEW fn \in Listener, Give(l, fn)
    PROVE  CallsHold'
<1>. DEFINE c == lists[l]
            d == Adds(c, flags[l], fn)
            more == IF IsNew(c, flags[l], fn) THEN {fn} ELSE {}
<1>1. CallbackTypes /\ LoopsHold
  BY DEF CallsHold
<1>2. /\ UNCHANGED <<flags, state, crashed, called>> /\ uses' \in 0..MaxUses
      /\ calls = <<>> \/ Current.fn \in Listener
      /\ attached' \in [DOMAIN flags -> Seq(Listener)]
      /\ IF c.firing THEN lists' = [lists EXCEPT ![l] = d] /\ Owe(l, more, {})
         ELSE Becomes(l, d)
  <2>1. Use /\ attached \in [DOMAIN flags -> Seq(Listener)]
    BY <1>1 DEF Give, CallbackTypes
  <2>2. Append(attached[l], fn) \in Seq(Listener)
    BY <2>1
  <2>3. attached' \in [DOMAIN flags -> Seq(Listener)]
    BY <2>1, <2>2 DEF Give
  <2>4. IF c.firing THEN lists' = [lists EXCEPT ![l] = d] /\ Owe(l, more, {})
        ELSE Becomes(l, d)
    BY DEF Give
  <2>. QED BY <1>1, <2>1, <2>3, <2>4, UseIs
<1>3. c \in SteadyList /\ c.list \in Seq(Function) /\ c.firing \in BOOLEAN /\ c.gone \in BOOLEAN
      /\ ListsAre(lists) /\ DOMAIN lists = DOMAIN flags
  BY <1>1, KnownIs, SteadyIs
<1>4. /\ d \in SteadyList /\ (c.gone => d = c) /\ d.gone = c.gone
      /\ ~c.gone => d.list = Longer(c, flags[l], fn)
      /\ ~c.gone /\ c.firing => d.firing /\ d.length = Len(d.list) /\ d.index = c.index
      /\ ~c.gone /\ ~c.firing /\ Remembers(c) =>
            d.firing /\ d.index = Len(c.list) + 1 /\ d.length = Len(d.list)
      /\ ~c.gone /\ ~c.firing /\ ~Remembers(c) => ~d.firing
  BY <1>3, AddsIs
<1>5. l \notin {"done", "fail"} => d.list \in Seq(Listener)
  <2>1. SUFFICES ASSUME c.list \in Seq(Listener) PROVE d.list \in Seq(Listener)
    BY <1>3 DEF ListsAre
  <2>2. Longer(c, flags[l], fn) \in Seq(Listener)
    BY <2>1, LongerIs
  <2>. QED BY <1>3, <1>4, <2>1, <2>2
<1>6. lists' = [lists EXCEPT ![l] = d]
  BY <1>2 DEF Becomes
<1>7. ListsAre(lists')
  BY <1>1, <1>3, <1>4, <1>5, <1>6, ListChanges
<1>8. CASE c.firing
  <2>1. calls \in Seq(Loops) /\ more \in SUBSET Function
    BY <1>1, ListenersAre DEF CallbackTypes
  <2>2. /\ calls' \in Seq(Loops) /\ Len(calls') = Len(calls)
        /\ \A i \in DOMAIN calls :
              /\ calls'[i].list = calls[i].list /\ calls'[i].fn = calls[i].fn
              /\ calls'[i] = IF calls[i].list = l THEN [calls[i] EXCEPT !.due = (@ \cup more) \ {}]
                             ELSE calls[i]
    <3>1. Owe(l, more, {})
      BY <1>2, <1>8
    <3>. HIDE DEF more
    <3>. QED BY <2>1, <3>1, OweIs
  <2>3. ASSUME NEW i \in DOMAIN calls PROVE LoopStands(calls'[i], lists'[calls[i].list])
    <3>1. /\ calls[i] \in Loops /\ calls[i].list \in DOMAIN lists
          /\ LoopStands(calls[i], lists[calls[i].list])
      BY <1>1, <2>1 DEF LoopsHold, StackHolds
    <3>2. CASE calls[i].list = l
      <4>1. LoopStands([calls[i] EXCEPT !.due = (@ \cup more) \ {}], d)
        BY <1>3, <3>1, <3>2, StandsGiven
      <4>2. lists'[l] = d
        BY <1>3, <1>6
      <4>. QED BY <2>2, <3>2, <4>1, <4>2
    <3>3. CASE calls[i].list # l
      <4>1. lists'[calls[i].list] = lists[calls[i].list]
        BY <1>6, <3>1, <3>3
      <4>. QED BY <2>2, <3>1, <3>3, <4>1
    <3>. QED BY <3>2, <3>3
  <2>4. DOMAIN lists' = DOMAIN lists /\ \A k \in DOMAIN lists : lists'[k].firing => lists[k].firing
    BY <1>3, <1>6, <1>8
  <2>5. StackHolds(calls, lists) /\ NoneLost(calls, lists, crashed)
    BY <1>1 DEF LoopsHold
  <2>6. StackHolds(calls', lists') /\ NoneLost(calls', lists', crashed)
    BY <2>1, <2>2, <2>3, <2>4, <2>5, StackGoesOn
  <2>7. LoopsHold'
    BY <1>2, <2>6 DEF LoopsHold
  <2>8. CallbackTypes'
    BY <1>1, <1>2, <1>7, <2>2, TypesGoOn DEF CallbackTypes, Memories
  <2>. QED BY <2>7, <2>8 DEF CallsHold
<1>9. CASE ~c.firing
  <2>1. d.firing => d.length = Len(d.list) /\ d.index \in 1..(d.length + 1)
    <3>1. SUFFICES ASSUME d.firing PROVE d.length = Len(d.list) /\ d.index \in 1..(d.length + 1)
      OBVIOUS
    <3>2. ~c.gone /\ Remembers(c)
      BY <1>3, <1>4, <1>9, <3>1
    <3>3. d.length = Len(d.list) /\ d.index = Len(c.list) + 1 /\ d.list = Longer(c, flags[l], fn)
      BY <1>3, <1>4, <1>9, <3>2
    <3>4. Len(d.list) \in {Len(c.list), Len(c.list) + 1} /\ Len(c.list) \in Nat
      BY <1>3, <3>3, LongerIs, ListenersAre
    <3>. QED BY <3>3, <3>4
  <2>2. calls' \in Seq(Loops) /\ LoopsHold'
    BY <1>1, <1>2, <1>3, <1>4, <1>9, <2>1, ListComes
  <2>3. CallbackTypes'
    BY <1>1, <1>2, <1>7, <2>2, TypesGoOn DEF CallbackTypes, Memories
  <2>. QED BY <2>2, <2>3 DEF CallsHold
<1>. QED BY <1>3, <1>8, <1>9

LEMMA FireLoops ==
    ASSUME CallsHold, NEW l \in DOMAIN flags, NEW v \in Payload, FireWith(l, v)
    PROVE  CallsHold'
<1>. DEFINE c == lists[l]
            d == Refires(c, flags[l], v)
<1>1. CallbackTypes /\ LoopsHold
  BY DEF CallsHold
<1>2. /\ UNCHANGED <<flags, state, crashed, called, attached>> /\ uses' \in 0..MaxUses
      /\ calls = <<>> \/ Current.fn \in Listener
      /\ Becomes(l, d)
  BY <1>1, UseIs DEF FireWith
<1>3. c \in SteadyList /\ Len(c.list) \in Nat /\ c.firing \in BOOLEAN
      /\ ListsAre(lists)
  BY <1>1, KnownIs, SteadyIs
<1>4. /\ d \in SteadyList /\ d.list = c.list /\ d.gone = c.gone
      /\ \/ d.firing = c.firing /\ d.index = c.index /\ d.length = c.length
         \/ ~c.firing /\ d.firing /\ d.index = 1 /\ d.length = Len(c.list)
  BY <1>3, RefiresIs
<1>. HIDE DEF d
<1>5. lists' = [lists EXCEPT ![l] = d]
  BY <1>2 DEF Becomes
<1>6. ListsAre(lists')
  <2>1. l \notin {"done", "fail"} => d.list \in Seq(Listener)
    BY <1>3, <1>4 DEF ListsAre
  <2>. QED BY <1>1, <1>3, <1>4, <1>5, <2>1, ListChanges
<1>7. calls' \in Seq(Loops) /\ LoopsHold'
  <2>1. CASE c.firing
    <3>1. UNCHANGED calls
      BY <1>2, <2>1 DEF Becomes
    <3>2. d.firing = c.firing /\ d.index = c.index /\ d.length = c.length
      BY <1>4, <2>1
    <3>3. calls' \in Seq(Loops)
      BY <1>1, <3>1 DEF CallbackTypes
    <3>. QED BY <1>1, <1>2, <1>4, <1>5, <3>1, <3>2, <3>3, QuietChange
  <2>2. CASE ~c.firing
    <3>1. d.firing \in BOOLEAN
      BY <1>4, SteadyIs
    <3>2. d.firing => d.length = Len(d.list) /\ d.index \in 1..(d.length + 1)
      <4>1. SUFFICES ASSUME d.firing PROVE d.length = Len(d.list) /\ d.index \in 1..(d.length + 1)
        OBVIOUS
      <4>2. d.index = 1 /\ d.length = Len(c.list)
        BY <1>4, <2>2, <4>1
      <4>. QED BY <1>3, <1>4, <4>2
    <3>. QED BY <1>1, <1>2, <1>4, <2>2, <3>2, ListComes
  <2>. QED BY <1>3, <2>1, <2>2
<1>8. CallbackTypes'
  BY <1>1, <1>2, <1>6, <1>7, TypesGoOn DEF CallbackTypes, Memories
<1>. QED BY <1>7, <1>8 DEF CallsHold

LEMMA WithdrawLoops ==
    ASSUME CallsHold, NEW l \in DOMAIN flags, NEW fn \in Listener, Withdraw(l, fn)
    PROVE  CallsHold'
<1>. DEFINE c == lists[l]
            d == Removes(c, fn)
<1>1. CallbackTypes /\ LoopsHold
  BY DEF CallsHold
<1>2. /\ UNCHANGED <<flags, state, crashed, called, attached>> /\ uses' \in 0..MaxUses
      /\ calls = <<>> \/ Current.fn \in Listener
      /\ l = "plain" /\ ~c.gone /\ Owe(l, {}, {fn})
      /\ lists' = [lists EXCEPT ![l] = d]
  BY <1>1, UseIs DEF Withdraw
<1>3. DOMAIN flags = {"plain"}
  <2>1. DOMAIN DeferredFlags = {"done", "fail", "progress"}
    BY DEF DeferredFlags
  <2>2. "plain" \notin DOMAIN DeferredFlags
    BY <2>1
  <2>. QED BY <1>1, <1>2, <2>2 DEF CallbackTypes
<1>4. c \in SteadyList /\ c.list \in Seq(Listener) /\ ListsAre(lists) /\ DOMAIN lists = DOMAIN flags
  BY <1>1, <1>2, KnownIs DEF ListsAre
<1>5. d \in SteadyList /\ d.list \in Seq(Listener) /\ d.firing = c.firing
  BY <1>4, RemovesIs
<1>6. ListsAre(lists')
  BY <1>1, <1>2, <1>4, <1>5, ListChanges
<1>7. calls \in Seq(Loops)
  BY <1>1 DEF CallbackTypes
<1>8. /\ calls' \in Seq(Loops) /\ Len(calls') = Len(calls)
      /\ \A i \in DOMAIN calls :
            /\ calls'[i].list = calls[i].list /\ calls'[i].fn = calls[i].fn
            /\ calls'[i] = IF calls[i].list = l THEN [calls[i] EXCEPT !.due = (@ \cup {}) \ {fn}]
                           ELSE calls[i]
  <2>1. {} \in SUBSET Function /\ Owe(l, {}, {fn})
    BY <1>2
  <2>. QED BY <1>7, <2>1, OweIs
<1>9. ASSUME NEW i \in DOMAIN calls PROVE LoopStands(calls'[i], lists'[calls[i].list])
  <2>1. calls # <<>>
    BY <1>9, <1>7
  <2>2. calls[i].list \in DOMAIN flags /\ Current.list \in DOMAIN flags /\ calls[i] \in Loops
        /\ LoopStands(calls[i], lists[calls[i].list])
    BY <1>1, <1>4, <1>7, <2>1, CurrentIs DEF LoopsHold, StackHolds
  <2>3. calls[i].list = l /\ Current.list = l
    BY <1>2, <1>3, <2>2
  <2>4. calls[i] = Current
    BY <1>1, <2>1, <2>3, CurrentIs DEF Current
  <2>5. calls[i].fn # Nothing
    BY <1>2, <2>1, <2>4, ListenersAre
  <2>6. LoopStands([calls[i] EXCEPT !.due = (@ \cup {}) \ {fn}], d)
    BY <1>2, <1>4, <2>2, <2>3, <2>5, StandsWithdrawn
  <2>7. lists'[l] = d
    BY <1>2, <1>4
  <2>. QED BY <1>8, <2>3, <2>6, <2>7
<1>10. DOMAIN lists' = DOMAIN lists /\ \A k \in DOMAIN lists : lists'[k].firing => lists[k].firing
  BY <1>2, <1>4, <1>5
<1>11. StackHolds(calls, lists) /\ NoneLost(calls, lists, crashed)
  BY <1>1 DEF LoopsHold
<1>12. StackHolds(calls', lists') /\ NoneLost(calls', lists', crashed)
  BY <1>7, <1>8, <1>9, <1>10, <1>11, StackGoesOn
<1>13. LoopsHold'
  BY <1>2, <1>12 DEF LoopsHold
<1>14. CallbackTypes'
  BY <1>1, <1>2, <1>6, <1>8, TypesGoOn DEF CallbackTypes, Memories
<1>. QED BY <1>13, <1>14 DEF CallsHold

LEMMA PlainChange ==
    ASSUME CallsHold, Use, UNCHANGED <<calls, attached>>,
           NEW l \in DOMAIN flags, NEW c \in SteadyList,
           lists' = [lists EXCEPT ![l] = c],
           c.firing = lists[l].firing,
           \/ c.gone \/ ~c.firing
           \/ /\ c.list = lists[l].list /\ c.index = lists[l].index
              /\ c.length = lists[l].length /\ c.gone = lists[l].gone,
           l \notin {"done", "fail"} => c.list \in Seq(Listener)
    PROVE  CallsHold'
<1>1. CallbackTypes /\ LoopsHold
  BY DEF CallsHold
<1>2. UNCHANGED <<flags, state, crashed, called>> /\ uses' \in 0..MaxUses
  BY <1>1, UseIs
<1>3. ListsAre(lists')
  BY <1>1, KnownIs, ListChanges
<1>4. LoopsHold'
  BY <1>1, <1>2, QuietChange
<1>5. CallbackTypes'
  BY <1>1, <1>2, <1>3, TypesGoOn DEF CallbackTypes, Memories
<1>. QED BY <1>4, <1>5 DEF CallsHold

LEMMA PlainLoops ==
    ASSUME CallsHold, NEW l \in DOMAIN flags, Disable(l) \/ Lock(l) \/ Empty(l)
    PROVE  CallsHold'
<1>. DEFINE c == lists[l]
            e == [c EXCEPT !.list = <<>>, !.gone = FALSE]
<1>1. c \in SteadyList /\ (l \notin {"done", "fail"} => c.list \in Seq(Listener))
      /\ DOMAIN lists = DOMAIN flags
  BY KnownIs DEF CallsHold, ListsAre
<1>2. Use /\ UNCHANGED <<calls, attached>>
  BY DEF Disable, Lock, Empty
<1>3. <<>> \in Seq(Listener) /\ <<>> \in Seq(Function)
  OBVIOUS
<1>4. CASE Disable(l)
  <2>1. lists' = [lists EXCEPT ![l] = Disabled(c)]
    BY <1>4 DEF Disable
  <2>. QED BY <1>1, <1>2, <1>3, <2>1, DisabledIs, PlainChange
<1>5. CASE Lock(l)
  <2>1. lists' = [lists EXCEPT ![l] = Locks(c)]
    BY <1>5 DEF Lock
  <2>. DEFINE d == Locks(c)
  <2>2. /\ d \in SteadyList /\ d.firing = c.firing /\ d.list \in {c.list, <<>>}
        /\ d.gone \/ (d.list = c.list /\ d.gone = c.gone /\ d.index = c.index
                      /\ d.length = c.length)
    BY <1>1, LocksIs
  <2>. HIDE DEF d
  <2>3. l \notin {"done", "fail"} => d.list \in Seq(Listener)
    BY <1>1, <1>3, <2>2
  <2>4. lists' = [lists EXCEPT ![l] = d]
    BY <2>1 DEF d
  <2>. QED BY <1>2, <2>2, <2>3, <2>4, PlainChange
<1>6. CASE Empty(l)
  <2>1. lists' = [lists EXCEPT ![l].list = <<>>, ![l].gone = FALSE] /\ ~c.firing
    BY <1>6 DEF Empty
  <2>2. lists' = [lists EXCEPT ![l] = e]
    BY <1>1, <2>1
  <2>3. e \in SteadyList /\ e.list = <<>> /\ e.firing = c.firing
    BY <1>1, <1>3 DEF SteadyList
  <2>. HIDE DEF e
  <2>. QED BY <1>2, <1>3, <2>1, <2>2, <2>3, PlainChange
<1>. QED BY <1>4, <1>5, <1>6

(***************************************************************************)
(* What the first functions of a Deferred do to the other lists.           *)
(***************************************************************************)
After(fn) ==
    CASE fn = "failList.disable" -> [lists EXCEPT !.fail = Disabled(@)]
      [] fn = "doneList.disable" -> [lists EXCEPT !.done = Disabled(@)]
      [] fn = "progressList.lock" -> [lists EXCEPT !.progress = Locks(@)]
      [] OTHER -> lists

LEMMA AfterIs ==
    ASSUME CallbackTypes, NEW fn
    PROVE  /\ ListsAre(After(fn)) /\ DOMAIN After(fn) = DOMAIN lists
           /\ \A k \in DOMAIN lists :
                 /\ After(fn)[k].firing = lists[k].firing
                 /\ After(fn)[k].gone \/ (/\ After(fn)[k].list = lists[k].list
                                          /\ After(fn)[k].index = lists[k].index
                                          /\ After(fn)[k].length = lists[k].length
                                          /\ After(fn)[k].gone = lists[k].gone)
           /\ \A k \in DOMAIN lists :
                 After(fn)[k] = CASE fn = "failList.disable" /\ k = "fail" -> Disabled(lists[k])
                                  [] fn = "doneList.disable" /\ k = "done" -> Disabled(lists[k])
                                  [] fn = "progressList.lock" /\ k = "progress" -> Locks(lists[k])
                                  [] OTHER -> lists[k]
<1>. DEFINE m == After(fn)
            Which(k) == \/ fn = "failList.disable" /\ k = "fail"
                        \/ fn = "doneList.disable" /\ k = "done"
                        \/ fn = "progressList.lock" /\ k = "progress"
            E(k) == CASE fn = "failList.disable" /\ k = "fail" -> Disabled(lists[k])
                      [] fn = "doneList.disable" /\ k = "done" -> Disabled(lists[k])
                      [] fn = "progressList.lock" /\ k = "progress" -> Locks(lists[k])
                      [] OTHER -> lists[k]
<1>1. /\ ListsAre(lists) /\ DOMAIN lists = DOMAIN flags
      /\ \A k \in DOMAIN lists : lists[k] \in SteadyList
      /\ lists = [k \in DOMAIN lists |-> lists[k]]
  BY KnownIs DEF CallbackTypes
<1>2. m = [k \in DOMAIN lists |-> E(k)]
  <2>1. CASE fn = "failList.disable"
    <3>1. m = [lists EXCEPT !["fail"] = Disabled(@)]
      BY <2>1 DEF After
    <3>2. \A k \in DOMAIN lists : E(k) = IF k = "fail" THEN Disabled(lists[k]) ELSE lists[k]
      BY <2>1
    <3>. HIDE DEF m, E
    <3>. QED BY <1>1, <3>1, <3>2
  <2>2. CASE fn = "doneList.disable"
    <3>1. m = [lists EXCEPT !["done"] = Disabled(@)]
      BY <2>2 DEF After
    <3>2. \A k \in DOMAIN lists : E(k) = IF k = "done" THEN Disabled(lists[k]) ELSE lists[k]
      BY <2>2
    <3>. HIDE DEF m, E
    <3>. QED BY <1>1, <3>1, <3>2
  <2>3. CASE fn = "progressList.lock"
    <3>1. m = [lists EXCEPT !["progress"] = Locks(@)]
      BY <2>3 DEF After
    <3>2. \A k \in DOMAIN lists : E(k) = IF k = "progress" THEN Locks(lists[k]) ELSE lists[k]
      BY <2>3
    <3>. HIDE DEF m, E
    <3>. QED BY <1>1, <3>1, <3>2
  <2>4. CASE fn \notin {"failList.disable", "doneList.disable", "progressList.lock"}
    <3>1. m = lists
      BY <2>4 DEF After
    <3>2. \A k \in DOMAIN lists : E(k) = lists[k]
      BY <2>4
    <3>. HIDE DEF m, E
    <3>. QED BY <1>1, <3>1, <3>2
  <2>. QED BY <2>1, <2>2, <2>3, <2>4
<1>3. ASSUME NEW k \in DOMAIN lists
      PROVE  E(k) \in {Disabled(lists[k]), Locks(lists[k]), lists[k]}
  <2>1. CASE fn = "failList.disable"
    BY <2>1
  <2>2. CASE fn = "doneList.disable"
    BY <2>2
  <2>3. CASE fn = "progressList.lock"
    BY <2>3
  <2>4. CASE fn \notin {"failList.disable", "doneList.disable", "progressList.lock"}
    BY <2>4
  <2>. QED BY <2>1, <2>2, <2>3, <2>4
<1>. HIDE DEF m, E
<1>4. ASSUME NEW k \in DOMAIN lists
      PROVE  /\ E(k) \in SteadyList /\ E(k).firing = lists[k].firing
             /\ E(k).list \in {lists[k].list, <<>>}
             /\ E(k).gone \/ (/\ E(k).list = lists[k].list /\ E(k).index = lists[k].index
                              /\ E(k).length = lists[k].length /\ E(k).gone = lists[k].gone)
  <2>1. lists[k] \in SteadyList
    BY <1>1
  <2>2. CASE E(k) = Disabled(lists[k])
    BY <2>1, <2>2, DisabledIs
  <2>3. CASE E(k) = Locks(lists[k])
    BY <2>1, <2>3, LocksIs
  <2>4. CASE E(k) = lists[k]
    BY <2>1, <2>4
  <2>. QED BY <1>3, <2>2, <2>3, <2>4
<1>5. \A k \in DOMAIN lists : m[k] = E(k)
  BY <1>2
<1>6. DOMAIN m = DOMAIN lists
  BY <1>2
<1>7. ListsAre(m)
  <2>1. m \in [DOMAIN flags -> SteadyList]
    BY <1>1, <1>2, <1>4
  <2>2. <<>> \in Seq(Listener)
    OBVIOUS
  <2>3. ASSUME NEW k \in DOMAIN flags \ {"done", "fail"} PROVE m[k].list \in Seq(Listener)
    <3>1. lists[k].list \in Seq(Listener) /\ k \in DOMAIN lists
      BY <1>1 DEF ListsAre
    <3>. QED BY <1>4, <1>5, <2>2, <3>1
  <2>. QED BY <2>1, <2>3 DEF ListsAre
<1>8. \A k \in DOMAIN lists :
          /\ m[k].firing = lists[k].firing
          /\ m[k].gone \/ (/\ m[k].list = lists[k].list /\ m[k].index = lists[k].index
                           /\ m[k].length = lists[k].length /\ m[k].gone = lists[k].gone)
  BY <1>4, <1>5
<1>9. \A k \in DOMAIN lists :
          m[k] = CASE fn = "failList.disable" /\ k = "fail" -> Disabled(lists[k])
                   [] fn = "doneList.disable" /\ k = "done" -> Disabled(lists[k])
                   [] fn = "progressList.lock" /\ k = "progress" -> Locks(lists[k])
                   [] OTHER -> lists[k]
  BY <1>5 DEF E
<1>. QED BY <1>6, <1>7, <1>8, <1>9 DEF m

(***************************************************************************)
(* A turn of the innermost loop.                                           *)
(***************************************************************************)
LEMMA TopTurns ==
    ASSUME CallsHold, calls # <<>>, NEW g \in Loops, g.list = Current.list,
           calls' = Top(g), DOMAIN lists' = DOMAIN lists,
           LoopStands(g, lists'[Current.list]),
           \A i \in DOMAIN calls : i # Len(calls) =>
              LoopStands(calls[i], lists'[calls[i].list]),
           \A k \in DOMAIN lists : lists'[k].firing = lists[k].firing,
           UNCHANGED crashed
    PROVE  /\ calls' \in Seq(Loops) /\ LoopsHold'
           /\ Len(calls') = Len(calls) /\ calls'[Len(calls)] = g
           /\ \A i \in DOMAIN calls : i # Len(calls) => calls'[i] = calls[i]
<1>1. CallbackTypes /\ LoopsHold /\ calls \in Seq(Loops)
  BY DEF CallsHold, CallbackTypes
<1>2. Len(calls) \in Nat /\ Len(calls) \in DOMAIN calls /\ DOMAIN calls = 1..Len(calls)
  BY <1>1, CurrentIs
<1>3. calls' = [calls EXCEPT ![Len(calls)] = g]
  BY DEF Top
<1>4. /\ calls' \in Seq(Loops) /\ Len(calls') = Len(calls) /\ calls'[Len(calls)] = g
      /\ \A i \in DOMAIN calls : i # Len(calls) => calls'[i] = calls[i]
  BY <1>1, <1>2, <1>3
<1>5. ASSUME NEW i \in DOMAIN calls
      PROVE  /\ calls'[i].list = calls[i].list
             /\ i < Len(calls) => calls'[i].fn = calls[i].fn
             /\ LoopStands(calls'[i], lists'[calls[i].list])
  <2>1. CASE i = Len(calls)
    BY <1>2, <1>4, <2>1 DEF Current
  <2>2. CASE i # Len(calls)
    BY <1>2, <1>4, <2>2
  <2>. QED BY <2>1, <2>2
<1>6. StackHolds(calls, lists) /\ NoneLost(calls, lists, crashed)
  BY <1>1 DEF LoopsHold
<1>7. StackHolds(calls', lists') /\ NoneLost(calls', lists', crashed)
  <2>1. \A k \in DOMAIN lists : lists'[k].firing => lists[k].firing
    OBVIOUS
  <2>. DEFINE ds == calls'
              ms == lists'
  <2>2. /\ ds \in Seq(Loops) /\ Len(ds) = Len(calls) /\ DOMAIN ms = DOMAIN lists
        /\ \A i \in DOMAIN calls : /\ ds[i].list = calls[i].list
                                   /\ i < Len(calls) => ds[i].fn = calls[i].fn
                                   /\ LoopStands(ds[i], ms[calls[i].list])
        /\ \A k \in DOMAIN lists : ms[k].firing => lists[k].firing
    BY <1>4, <1>5, <2>1
  <2>. HIDE DEF ds, ms
  <2>3. StackHolds(ds, ms) /\ NoneLost(ds, ms, crashed)
    BY <1>1, <1>6, <2>2, StackGoesOn
  <2>. QED BY <2>3 DEF ds, ms
<1>8. LoopsHold'
  BY <1>7 DEF LoopsHold
<1>. QED BY <1>4, <1>8

LEMMA CallLoops ==
    ASSUME CallsHold, Call PROVE CallsHold'
<1>. DEFINE l == Current.list
            c == lists[l]
            fn == c.list[c.index]
            g == [Current EXCEPT !.fn = fn, !.heard = @ \cup {fn}]
<1>1. /\ calls # <<>> /\ Current.fn = Nothing /\ Goes(c)
      /\ calls' = Top(g) /\ lists' = After(fn)
      /\ called' = (IF fn \in Own THEN called
                    ELSE [called EXCEPT ![l] = Append(@, <<fn, c.memory>>)])
      /\ state' = (IF fn \in {"resolved", "rejected"} THEN fn ELSE state)
      /\ UNCHANGED <<flags, uses, attached, crashed>>
  BY DEF Call, After
<1>2. CallbackTypes /\ LoopsHold
  BY DEF CallsHold
<1>3. /\ Current \in Loops /\ l \in DOMAIN flags /\ c \in SteadyList /\ LoopStands(Current, c)
      /\ \A i \in DOMAIN calls : calls[i].list = l => i = Len(calls)
  BY <1>1, <1>2, CurrentIs
<1>4. fn \in Function /\ g \in Loops /\ g.list = l /\ LoopStands(g, c) /\ g.fn = fn
  BY <1>1, <1>3, StandsCalling
<1>. HIDE DEF g, fn, c
<1>5. /\ ListsAre(lists') /\ DOMAIN lists' = DOMAIN lists
      /\ \A k \in DOMAIN lists :
            /\ lists'[k].firing = lists[k].firing
            /\ lists'[k].gone \/ (/\ lists'[k].list = lists[k].list
                                  /\ lists'[k].index = lists[k].index
                                  /\ lists'[k].length = lists[k].length
                                  /\ lists'[k].gone = lists[k].gone)
  BY <1>1, <1>2, AfterIs
<1>6. DOMAIN lists = DOMAIN flags
  BY <1>2, KnownIs
<1>7. LoopStands(g, lists'[l])
  BY <1>3, <1>4, <1>5, <1>6, StandsTheSame DEF c
<1>8. ASSUME NEW i \in DOMAIN calls PROVE LoopStands(calls[i], lists'[calls[i].list])
  <2>1. calls[i].list \in DOMAIN lists /\ LoopStands(calls[i], lists[calls[i].list])
    BY <1>2 DEF LoopsHold, StackHolds
  <2>. QED BY <1>5, <2>1, StandsTheSame
<1>9. calls' \in Seq(Loops) /\ LoopsHold'
  BY <1>1, <1>4, <1>5, <1>7, <1>8, TopTurns
<1>10. called' \in [DOMAIN flags -> Seq(Listener \X Memories)]
  <2>1. called \in [DOMAIN flags -> Seq(Listener \X Memories)]
    BY <1>2 DEF CallbackTypes, Memories
  <2>2. CASE fn \in Own
    BY <1>1, <2>1, <2>2
  <2>3. CASE fn \notin Own
    <3>1. fn \in Listener /\ c.memory \in Memories
      BY <1>3, <1>4, <2>3, SteadyIs DEF Function
    <3>2. Append(called[l], <<fn, c.memory>>) \in Seq(Listener \X Memories)
      BY <1>3, <2>1, <3>1
    <3>. QED BY <1>1, <1>3, <2>1, <2>3, <3>2
  <2>. QED BY <2>2, <2>3
<1>11. state' \in {"pending", "resolved", "rejected"}
  BY <1>1, <1>2 DEF CallbackTypes
<1>12. CallbackTypes'
  BY <1>1, <1>2, <1>5, <1>9, <1>10, <1>11, TypesGoOn DEF CallbackTypes
<1>. QED BY <1>9, <1>12 DEF CallsHold

LEMMA ReturnIs ==
    ASSUME CallsHold, NEW b \in BOOLEAN, Return(b)
    PROVE  LET l == Current.list
           IN  \E g \in Loops, d \in SteadyList :
                  /\ g.list = l /\ g.fn = Nothing /\ d.list = lists[l].list
                  /\ d.firing = lists[l].firing /\ LoopStands(g, d)
                  /\ calls' = Top(g) /\ lists' = [lists EXCEPT ![l] = d]
                  /\ "stopOnFalse" \notin flags[l] =>
                        /\ d.gone = lists[l].gone /\ d.locked = lists[l].locked
                        /\ d.memory = lists[l].memory /\ d.index = lists[l].index + 1
                        /\ d.length = lists[l].length
<1>. DEFINE l == Current.list
            c == lists[l]
<1>1. calls # <<>> /\ Current.fn # Nothing
  BY DEF Return
<1>2. Current \in Loops /\ c \in SteadyList /\ LoopStands(Current, c) /\ l \in DOMAIN lists
  BY <1>1, CurrentIs, KnownIs DEF CallsHold
<1>3. CASE b /\ "stopOnFalse" \in flags[l]
  <2>. DEFINE g == [Current EXCEPT !.fn = Nothing, !.due = {}]
              d == [c EXCEPT !.memory = Halted, !.index = c.length + 1]
  <2>1. /\ lists' = [lists EXCEPT ![l].memory = Halted, ![l].index = c.length + 1]
        /\ calls' = Top(g)
    BY <1>3 DEF Return
  <2>2. lists' = [lists EXCEPT ![l] = d]
    BY <1>2, <2>1
  <2>3. /\ g \in Loops /\ g.list = Current.list /\ g.fn = Nothing
        /\ d \in SteadyList /\ d.list = c.list /\ d.firing = c.firing /\ LoopStands(g, d)
    BY <1>1, <1>2, StandsStopping
  <2>. HIDE DEF g, d
  <2>. QED BY <1>3, <2>1, <2>2, <2>3
<1>4. CASE ~(b /\ "stopOnFalse" \in flags[l])
  <2>. DEFINE g == [Current EXCEPT !.fn = Nothing]
              d == [c EXCEPT !.index = c.index + 1]
  <2>1. lists' = [lists EXCEPT ![l].index = @ + 1] /\ calls' = Top(g)
    BY <1>4 DEF Return
  <2>2. lists' = [lists EXCEPT ![l] = d]
    BY <1>2, <2>1
  <2>3. /\ g \in Loops /\ g.list = Current.list /\ g.fn = Nothing
        /\ d \in SteadyList /\ d.list = c.list /\ d.gone = c.gone /\ d.locked = c.locked
        /\ d.memory = c.memory /\ d.firing = c.firing /\ d.index = c.index + 1
        /\ d.length = c.length /\ LoopStands(g, d)
    BY <1>1, <1>2, StandsReturning
  <2>. HIDE DEF g, d
  <2>. QED BY <2>1, <2>2, <2>3
<1>. QED BY <1>3, <1>4

LEMMA ReturnLoops ==
    ASSUME CallsHold, NEW b \in BOOLEAN, Return(b) PROVE CallsHold'
<1>. DEFINE l == Current.list
<1>1. calls # <<>> /\ UNCHANGED <<flags, state, uses, attached, called, crashed>>
  BY DEF Return
<1>2. CallbackTypes /\ LoopsHold /\ calls \in Seq(Loops)
  BY DEF CallsHold, CallbackTypes
<1>3. PICK g \in Loops, d \in SteadyList :
           /\ g.list = l /\ d.list = lists[l].list
           /\ d.firing = lists[l].firing /\ LoopStands(g, d)
           /\ calls' = Top(g) /\ lists' = [lists EXCEPT ![l] = d]
  BY ReturnIs
<1>4. /\ l \in DOMAIN flags /\ DOMAIN lists = DOMAIN flags /\ ListsAre(lists)
      /\ \A i \in DOMAIN calls : calls[i].list = l => i = Len(calls)
  BY <1>1, <1>2, CurrentIs, KnownIs
<1>5. ListsAre(lists')
  <2>1. l \notin {"done", "fail"} => d.list \in Seq(Listener)
    BY <1>3, <1>4 DEF ListsAre
  <2>. QED BY <1>2, <1>3, <1>4, <2>1, ListChanges
<1>6. /\ DOMAIN lists' = DOMAIN lists /\ lists'[l] = d
      /\ \A k \in DOMAIN lists :
           lists'[k].firing = lists[k].firing /\ (k # l => lists'[k] = lists[k])
  BY <1>3, <1>4
<1>7. ASSUME NEW i \in DOMAIN calls, i # Len(calls)
      PROVE  LoopStands(calls[i], lists'[calls[i].list])
  <2>1. calls[i].list \in DOMAIN lists /\ LoopStands(calls[i], lists[calls[i].list])
    BY <1>2 DEF LoopsHold, StackHolds
  <2>. QED BY <1>4, <1>6, <1>7, <2>1
<1>8. calls' \in Seq(Loops) /\ LoopsHold'
  BY <1>1, <1>3, <1>6, <1>7, TopTurns
<1>9. CallbackTypes'
  BY <1>1, <1>2, <1>5, <1>8, TypesGoOn DEF CallbackTypes, Memories
<1>. QED BY <1>8, <1>9 DEF CallsHold

LEMMA FinishLoops ==
    ASSUME CallsHold, Finish PROVE CallsHold'
<1>. DEFINE l == Current.list
            d == Ends(lists[l], flags[l])
            fr == Starts(l, d)
<1>1. /\ calls # <<>> /\ lists' = [lists EXCEPT ![l] = d]
      /\ calls' = (IF d.firing THEN Top(fr) ELSE Front(calls))
      /\ UNCHANGED <<flags, state, uses, attached, called, crashed>>
  BY DEF Finish
<1>2. CallbackTypes /\ LoopsHold /\ calls \in Seq(Loops)
  BY DEF CallsHold, CallbackTypes
<1>3. /\ l \in DOMAIN flags /\ DOMAIN lists = DOMAIN flags /\ ListsAre(lists) /\ l \in ListName
      /\ lists[l] \in SteadyList /\ LoopStands(Current, lists[l])
      /\ \A i \in DOMAIN calls : calls[i].list = l => i = Len(calls)
  BY <1>1, <1>2, CurrentIs, KnownIs
<1>4. /\ d \in SteadyList /\ d.list \in {lists[l].list, <<>>}
      /\ d.firing => d.index = 1 /\ d.length = Len(d.list)
  BY <1>3, EndsIs
<1>. HIDE DEF d
<1>5. ListsAre(lists')
  <2>1. <<>> \in Seq(Listener)
    OBVIOUS
  <2>2. l \notin {"done", "fail"} => d.list \in Seq(Listener)
    BY <1>3, <1>4, <2>1 DEF ListsAre
  <2>. QED BY <1>1, <1>2, <1>3, <1>4, <2>2, ListChanges
<1>6. calls' \in Seq(Loops) /\ LoopsHold'
  <2>1. CASE d.firing
    <3>1. Len(d.list) \in Nat
      BY <1>4, SteadyIs
    <3>2. d.length = Len(d.list) /\ d.index \in 1..(d.length + 1)
      BY <1>4, <2>1, <3>1
    <3>3. fr \in Loops /\ fr.list = l /\ LoopStands(fr, d)
      BY <1>3, <1>4, <2>1, <3>2, StandsStarting
    <3>4. lists[l].firing
      BY <1>3 DEF LoopStands
    <3>5. lists[l].firing \in BOOLEAN /\ d.firing \in BOOLEAN
      BY <1>3, <1>4, SteadyIs
    <3>6. /\ DOMAIN lists' = DOMAIN lists /\ lists'[l] = d
          /\ \A k \in DOMAIN lists : /\ lists'[k].firing = lists[k].firing
                                     /\ k # l => lists'[k] = lists[k]
      BY <1>1, <1>3, <2>1, <3>4, <3>5
    <3>7. ASSUME NEW i \in DOMAIN calls, i # Len(calls)
          PROVE  LoopStands(calls[i], lists'[calls[i].list])
      <4>1. calls[i].list \in DOMAIN lists /\ LoopStands(calls[i], lists[calls[i].list])
        BY <1>2 DEF LoopsHold, StackHolds
      <4>. QED BY <1>3, <3>6, <3>7, <4>1
    <3>8. calls' = Top(fr)
      BY <1>1, <2>1
    <3>. HIDE DEF fr
    <3>. QED BY <1>1, <3>3, <3>6, <3>7, <3>8, TopTurns
  <2>2. CASE ~d.firing
    <3>1. calls' = Front(calls)
      BY <1>1, <2>2
    <3>2. StackHolds(calls, lists) /\ NoneLost(calls, lists, crashed)
      BY <1>2 DEF LoopsHold
    <3>3. lists' = [lists EXCEPT ![calls[Len(calls)].list] = d]
      BY <1>1 DEF Current
    <3>4. calls' \in Seq(Loops) /\ StackHolds(calls', lists') /\ NoneLost(calls', lists', crashed)
      <4>. DEFINE ds == Front(calls)
                  ms == [lists EXCEPT ![calls[Len(calls)].list] = d]
      <4>1. /\ ds \in Seq(Loops) /\ StackHolds(ds, ms)
            /\ \A thrown : NoneLost(calls, lists, thrown) => NoneLost(ds, ms, thrown)
        BY <1>1, <1>2, <2>2, <3>2, StackShrinks
      <4>. HIDE DEF ds, ms
      <4>2. calls' = ds /\ lists' = ms
        BY <3>1, <3>3 DEF ds, ms
      <4>. QED BY <3>2, <4>1, <4>2
    <3>. QED BY <1>1, <3>4 DEF LoopsHold
  <2>. QED BY <2>1, <2>2
<1>7. CallbackTypes'
  BY <1>1, <1>2, <1>5, <1>6, TypesGoOn DEF CallbackTypes, Memories
<1>. QED BY <1>6, <1>7 DEF CallsHold

LEMMA ThrowLoops ==
    ASSUME CallsHold, Throw PROVE CallsHold'
<1>1. CallbackTypes /\ calls' = <<>> /\ crashed' = TRUE
      /\ UNCHANGED <<flags, lists, state, uses, attached, called>>
  BY DEF CallsHold, Throw
<1>2. <<>> \in Seq(Loops) /\ DOMAIN <<>> = {}
  OBVIOUS
<1>3. CallbackTypes'
  BY <1>1, <1>2 DEF CallbackTypes
<1>4. LoopsHold'
  <2>1. DOMAIN calls' = {}
    BY <1>1, <1>2
  <2>. QED BY <1>1, <2>1 DEF LoopsHold, StackHolds, NoneLost
<1>. QED BY <1>3, <1>4 DEF CallsHold

-------------------------------------------------------------------------------
(***************************************************************************)
(* The lists of a Deferred.                                                *)
(***************************************************************************)
Pair(l, s, o) == \/ l = "done" /\ s = "resolved" /\ o = "fail"
                 \/ l = "fail" /\ s = "rejected" /\ o = "done"

DeferredInv == CallsHold /\ flags = DeferredFlags /\ DeferredHolds

LEMMA FlagsAre ==
    ASSUME flags = DeferredFlags
    PROVE  /\ DOMAIN flags = {"done", "fail", "progress"}
           /\ \A k \in {"done", "fail"} : "once" \in flags[k] /\ "memory" \in flags[k]
           /\ \A k \in DOMAIN flags : "unique" \notin flags[k] /\ "stopOnFalse" \notin flags[k]
BY DEF DeferredFlags

LEMMA OwnIs ==
    ASSUME NEW l, NEW s, NEW o, Pair(l, s, o)
    PROVE  /\ l \in {"done", "fail"} /\ o \in {"done", "fail"} /\ l # o
           /\ s \in {"resolved", "rejected"} /\ s # "pending"
           /\ OwnBefore(l) \in Seq(Own) /\ OwnBefore(l) \in Seq(Function) /\ Len(OwnBefore(l)) = 3
           /\ OwnBefore(l)[1] = s
           /\ OwnBefore(l)[2] = IF l = "done" THEN "failList.disable" ELSE "doneList.disable"
           /\ OwnBefore(l)[3] = "progressList.lock"
<1>1. CASE l = "done"
  <2>1. OwnBefore(l) = <<"resolved", "failList.disable", "progressList.lock">>
    BY <1>1 DEF OwnBefore, NewDeferred, EmptyList
  <2>2. \A i \in 1..3 : <<"resolved", "failList.disable", "progressList.lock">>[i] \in Own
    BY DEF Own
  <2>3. OwnBefore(l) \in Seq(Own)
    BY <2>1, <2>2
  <2>. QED BY <1>1, <2>1, <2>3, ListenersAre DEF Pair
<1>2. CASE l = "fail"
  <2>1. OwnBefore(l) = <<"rejected", "doneList.disable", "progressList.lock">>
    BY <1>2 DEF OwnBefore, NewDeferred, EmptyList
  <2>2. \A i \in 1..3 : <<"rejected", "doneList.disable", "progressList.lock">>[i] \in Own
    BY DEF Own
  <2>3. OwnBefore(l) \in Seq(Own)
    BY <2>1, <2>2
  <2>. QED BY <1>2, <2>1, <2>3, ListenersAre DEF Pair
<1>. QED BY <1>1, <1>2 DEF Pair

LEMMA OwnTyped == \A k \in {"done", "fail"} : OwnBefore(k) \in Seq(Function)
<1>1. Pair("done", "resolved", "fail") /\ Pair("fail", "rejected", "done")
  BY DEF Pair
<1>2. OwnBefore("done") \in Seq(Function) /\ OwnBefore("fail") \in Seq(Function)
  BY <1>1, OwnIs
<1>. QED BY <1>2

LEMMA PairsAre ==
    DeferredHolds <=> Unsettled \/ \E l, s, o : Pair(l, s, o) /\ HoldsFor(l, s, o)
<1>1. Pair("done", "resolved", "fail") /\ Pair("fail", "rejected", "done")
  BY DEF Pair
<1>2. ASSUME NEW l, NEW s, NEW o, Pair(l, s, o), HoldsFor(l, s, o) PROVE DeferredHolds
  <2>1. CASE l = "done"
    BY <1>2, <2>1 DEF Pair, DeferredHolds
  <2>2. CASE l = "fail"
    BY <1>2, <2>2 DEF Pair, DeferredHolds
  <2>. QED BY <1>2, <2>1, <2>2 DEF Pair
<1>3. DeferredHolds => Unsettled \/ \E l, s, o : Pair(l, s, o) /\ HoldsFor(l, s, o)
  BY <1>1 DEF DeferredHolds
<1>4. Unsettled => DeferredHolds
  BY DEF DeferredHolds
<1>. QED BY <1>2, <1>3, <1>4

LEMMA PairHolds ==
    ASSUME NEW l, NEW s, NEW o, Pair(l, s, o), HoldsFor(l, s, o)' PROVE DeferredHolds'
<1>1. CASE l = "done"
  BY <1>1 DEF Pair, DeferredHolds
<1>2. CASE l = "fail"
  BY <1>2 DEF Pair, DeferredHolds
<1>. QED BY <1>1, <1>2 DEF Pair

LEMMA DeferredKnown ==
    ASSUME DeferredInv
    PROVE  /\ CallbackTypes /\ LoopsHold /\ calls \in Seq(Loops)
           /\ DOMAIN flags = {"done", "fail", "progress"} /\ DOMAIN lists = DOMAIN flags
           /\ \A k \in DOMAIN flags :
                 /\ lists[k] \in SteadyList /\ lists[k].list \in Seq(Function)
                 /\ Len(lists[k].list) \in Nat /\ lists[k].index \in Nat
                 /\ lists[k].firing \in BOOLEAN /\ lists[k].gone \in BOOLEAN
                 /\ lists[k].locked \in BOOLEAN
                 /\ attached[k] \in Seq(Listener) /\ Len(attached[k]) \in Nat
                 /\ called[k] \in Seq(Listener \X Memories) /\ Len(called[k]) \in Nat
           /\ DOMAIN attached = DOMAIN flags /\ DOMAIN called = DOMAIN flags
<1>1. CallbackTypes /\ LoopsHold /\ flags = DeferredFlags
  BY DEF DeferredInv, CallsHold
<1>2. attached \in [DOMAIN flags -> Seq(Listener)] /\ calls \in Seq(Loops)
      /\ called \in [DOMAIN flags -> Seq(Listener \X Memories)]
  BY <1>1 DEF CallbackTypes, Memories
<1>. QED BY <1>1, <1>2, FlagsAre, KnownIs, SteadyIs

(***************************************************************************)
(* Nobody runs while a Deferred is being settled.                          *)
(***************************************************************************)
LEMMA NotWhileSettling ==
    ASSUME NEW l, NEW s, NEW o, Pair(l, s, o), Settling(l, s, o)
    PROVE  calls # <<>> /\ Current.fn \notin Listener /\ Current.list = l
<1>1. lists[l].index \in 1..3 /\ Current.fn \in {Nothing, OwnBefore(l)[lists[l].index]}
      /\ calls # <<>> /\ Current.list = l
  BY DEF Settling
<1>2. OwnBefore(l)[lists[l].index] \in Own
  BY <1>1, OwnIs
<1>. QED BY <1>1, <1>2, ListenersAre

(***************************************************************************)
(* What happens elsewhere leaves them alone.                               *)
(***************************************************************************)
NoMoreLoops ==
    \A i \in DOMAIN calls' : calls'[i].list \in {"done", "fail"} =>
        \E j \in DOMAIN calls : calls[j].list = calls'[i].list /\ calls[j].fn = calls'[i].fn

LEMMA SettledKept ==
    ASSUME NEW l, NEW s, NEW o, Pair(l, s, o), Settled(l, s, o), NoMoreLoops, state' = state,
           called'[o] = called[o], called'[l] = called[l], attached'[l] = attached[l],
           lists'[o].gone = lists[o].gone, lists'[o].locked = lists[o].locked,
           lists'[o].firing = lists[o].firing,
           lists'[l].list = lists[l].list, lists'[l].gone = lists[l].gone,
           lists'[l].memory = lists[l].memory, lists'[l].firing = lists[l].firing,
           lists'[l].index = lists[l].index
    PROVE  Settled(l, s, o)'
<1>1. l \in {"done", "fail"} /\ o \in {"done", "fail"}
  BY OwnIs
<1>2. NoLoop(o)'
  BY <1>1 DEF Settled, Quiet, NoLoop, NoMoreLoops
<1>3. Quiet(o)' /\ PutOff(o)'
  BY <1>2 DEF Settled, Quiet, PutOff
<1>4. CalledInOrder(l)'
  BY DEF Settled, CalledInOrder
<1>5. ASSUME NEW i \in DOMAIN calls', calls'[i].list = l
      PROVE  StillToCome(calls'[i], lists'[l], attached'[l], Len(called'[l]))
  <2>1. PICK j \in DOMAIN calls : calls[j].list = l /\ calls[j].fn = calls'[i].fn
    BY <1>1, <1>5 DEF NoMoreLoops
  <2>2. StillToCome(calls[j], lists[l], attached[l], Len(called[l]))
    BY <2>1 DEF Settled
  <2>3. Past(calls'[i], lists'[l]) = Past(calls[j], lists[l])
    BY <2>1 DEF Past
  <2>. QED BY <2>1, <2>2, <2>3 DEF StillToCome
<1>. QED BY <1>3, <1>4, <1>5 DEF Settled

LEMMA UnsettledKept ==
    ASSUME Unsettled, NoMoreLoops, state' = state,
           \A k \in {"done", "fail"} : /\ called'[k] = called[k] /\ attached'[k] = attached[k]
                                       /\ lists'[k] = lists[k]
    PROVE  Unsettled'
<1>1. ASSUME NEW k \in {"done", "fail"} PROVE Untouched(k)' /\ Quiet(k)'
  <2>1. Untouched(k) /\ Quiet(k)
    BY DEF Unsettled
  <2>2. NoLoop(k)'
    BY <2>1 DEF Quiet, NoLoop, NoMoreLoops
  <2>3. Untouched(k)'
    BY <2>1 DEF Untouched, OwnBefore
  <2>. QED BY <2>1, <2>2, <2>3 DEF Quiet
<1>. QED BY <1>1 DEF Unsettled

LEMMA DeferredKept ==
    ASSUME DeferredHolds, NoMoreLoops, state' = state,
           calls = <<>> \/ Current.fn \in Listener \/ Current.list = "progress",
           \A k \in {"done", "fail"} : /\ called'[k] = called[k] /\ attached'[k] = attached[k]
                                       /\ lists'[k] = lists[k]
    PROVE  DeferredHolds'
<1>1. ASSUME NEW l, NEW s, NEW o, Pair(l, s, o), HoldsFor(l, s, o) PROVE HoldsFor(l, s, o)'
  <2>1. ~Settling(l, s, o)
    BY <1>1, NotWhileSettling, OwnIs
  <2>2. Settled(l, s, o) /\ l \in {"done", "fail"} /\ o \in {"done", "fail"}
    BY <1>1, <2>1, OwnIs DEF HoldsFor
  <2>3. Settled(l, s, o)'
    BY <1>1, <2>2, SettledKept
  <2>. QED BY <2>3 DEF HoldsFor
<1>2. Unsettled => Unsettled'
  BY UnsettledKept
<1>3. Unsettled \/ \E l, s, o : Pair(l, s, o) /\ HoldsFor(l, s, o)
  BY PairsAre
<1>4. Unsettled' => DeferredHolds'
  BY DEF DeferredHolds
<1>. QED BY <1>1, <1>2, <1>3, <1>4, PairHolds

(***************************************************************************)
(* A function is given to one of the lists.                                *)
(***************************************************************************)
LEMMA OtherLists ==
    ASSUME DeferredInv, NEW k \in DOMAIN flags, NEW d, lists' = [lists EXCEPT ![k] = d]
    PROVE  lists'[k] = d /\ \A j \in DOMAIN flags : j # k => lists'[j] = lists[j]
BY DeferredKnown

LEMMA SameFrames ==
    ASSUME calls' = calls PROVE NoMoreLoops
BY DEF NoMoreLoops

LEMMA OwedFrames ==
    ASSUME DeferredInv, NEW l, NEW more \in SUBSET Function, NEW less, Owe(l, more, less)
    PROVE  NoMoreLoops
<1>1. calls \in Seq(Loops)
  BY DeferredKnown
<1>2. /\ DOMAIN calls' = DOMAIN calls
      /\ \A i \in DOMAIN calls : calls'[i].list = calls[i].list /\ calls'[i].fn = calls[i].fn
  BY <1>1, OweIs
<1>. QED BY <1>2 DEF NoMoreLoops

LEMMA PushedFrame ==
    ASSUME DeferredInv, NEW l, NEW c, calls' = Append(calls, Starts(l, c)),
           l \notin {"done", "fail"}
    PROVE  NoMoreLoops
<1>1. calls \in Seq(Loops)
  BY DeferredKnown
<1>2. Starts(l, c).list = l
  BY DEF Starts, Loop
<1>. DEFINE fr == Starts(l, c)
            n == Len(calls)
<1>. HIDE DEF fr
<1>3. /\ DOMAIN calls' = 1..(n + 1) /\ DOMAIN calls = 1..n /\ n \in Nat
      /\ calls'[n + 1] = fr /\ \A i \in 1..n : calls'[i] = calls[i]
  BY <1>1 DEF fr
<1>4. ASSUME NEW i \in 1..(n + 1), calls'[i].list \in {"done", "fail"}
      PROVE  i \in 1..n /\ calls'[i] = calls[i]
  <2>1. i # n + 1
    BY <1>2, <1>3, <1>4 DEF fr
  <2>2. i \in 1..n
    BY <1>3, <2>1
  <2>. QED BY <1>3, <2>2
<1>. QED BY <1>3, <1>4 DEF NoMoreLoops

LEMMA GiveIs ==
    ASSUME DeferredInv, NEW k \in DOMAIN flags, NEW fn \in Listener, Give(k, fn)
    PROVE  LET c == lists[k]
               d == Adds(c, flags[k], fn)
           IN  /\ UNCHANGED <<flags, state, crashed, called>>
               /\ calls = <<>> \/ Current.fn \in Listener
               /\ lists' = [lists EXCEPT ![k] = d]
               /\ attached'[k] = Append(attached[k], fn)
               /\ \A j \in DOMAIN flags : j # k => attached'[j] = attached[j]
               /\ c.firing => Owe(k, {fn}, {})
               /\ ~c.firing => calls' = IF d.firing THEN Append(calls, Starts(k, d)) ELSE calls
               /\ ~c.gone => d.list = Append(c.list, fn)
<1>. DEFINE c == lists[k]
            d == Adds(c, flags[k], fn)
<1>1. IsNew(c, flags[k], fn)
  BY FlagsAre DEF DeferredInv, IsNew
<1>2. /\ attached' = [attached EXCEPT ![k] = Append(@, fn)]
      /\ IF c.firing THEN lists' = [lists EXCEPT ![k] = d] /\ Owe(k, {fn}, {}) ELSE Becomes(k, d)
  BY <1>1 DEF Give
<1>3. Use /\ CallbackTypes /\ DOMAIN attached = DOMAIN flags /\ c \in SteadyList
  BY DeferredKnown DEF Give
<1>4. attached'[k] = Append(attached[k], fn)
      /\ \A j \in DOMAIN flags : j # k => attached'[j] = attached[j]
  BY <1>2, <1>3
<1>5. UNCHANGED <<flags, state, crashed, called>> /\ (calls = <<>> \/ Current.fn \in Listener)
  BY <1>3, UseIs
<1>6. ~c.gone => d.list = Append(c.list, fn)
  BY <1>1, <1>3, AddsIs DEF Longer
<1>. HIDE DEF c, d
<1>7. ~c.firing => calls' = IF d.firing THEN Append(calls, Starts(k, d)) ELSE calls
  BY <1>2 DEF Becomes, c
<1>8. lists' = [lists EXCEPT ![k] = d]
  BY <1>2 DEF Becomes
<1>9. c.firing => Owe(k, {fn}, {})
  BY <1>2
<1>. QED BY <1>4, <1>5, <1>6, <1>7, <1>8, <1>9 DEF c, d

LEMMA GiveProgress ==
    ASSUME DeferredInv, NEW fn \in Listener, Give("progress", fn) PROVE DeferredHolds'
<1>. DEFINE k == "progress"
            d == Adds(lists[k], flags[k], fn)
<1>1. k \in DOMAIN flags /\ DeferredHolds /\ DOMAIN flags = {"done", "fail", "progress"}
      /\ lists[k].firing \in BOOLEAN
  BY DeferredKnown DEF DeferredInv
<1>2. /\ UNCHANGED <<flags, state, crashed, called>>
      /\ calls = <<>> \/ Current.fn \in Listener
      /\ lists' = [lists EXCEPT ![k] = d]
      /\ \A j \in DOMAIN flags : j # k => attached'[j] = attached[j]
      /\ lists[k].firing => Owe(k, {fn}, {})
      /\ ~lists[k].firing => calls' = IF d.firing THEN Append(calls, Starts(k, d)) ELSE calls
  BY <1>1, GiveIs
<1>. HIDE DEF d
<1>3. NoMoreLoops
  <2>1. CASE lists[k].firing
    <3>1. Owe(k, {fn}, {}) /\ {fn} \in SUBSET Function
      BY <1>2, <2>1, ListenersAre
    <3>. QED BY <3>1, OwedFrames
  <2>2. CASE ~lists[k].firing
    <3>1. calls' = calls \/ calls' = Append(calls, Starts(k, d))
      BY <1>2, <2>2
    <3>2. k \notin {"done", "fail"}
      OBVIOUS
    <3>. HIDE DEF k
    <3>. QED BY <3>1, <3>2, SameFrames, PushedFrame
  <2>. QED BY <1>1, <2>1, <2>2
<1>4. \A j \in {"done", "fail"} : lists'[j] = lists[j] /\ attached'[j] = attached[j]
  BY <1>1, <1>2, OtherLists
<1>. QED BY <1>1, <1>2, <1>3, <1>4, DeferredKept

LEMMA GiveUnsettled ==
    ASSUME DeferredInv, NEW k \in {"done", "fail"}, NEW fn \in Listener, Give(k, fn), Unsettled
    PROVE  DeferredHolds'
<1>. DEFINE c == lists[k]
            d == Adds(c, flags[k], fn)
<1>1. /\ k \in DOMAIN flags /\ {"done", "fail"} \subseteq DOMAIN flags
      /\ c \in SteadyList /\ attached[k] \in Seq(Listener)
  BY DeferredKnown
<1>2. /\ UNCHANGED <<flags, state, crashed, called>>
      /\ lists' = [lists EXCEPT ![k] = d]
      /\ attached'[k] = Append(attached[k], fn)
      /\ \A j \in DOMAIN flags : j # k => attached'[j] = attached[j]
      /\ ~c.firing => calls' = IF d.firing THEN Append(calls, Starts(k, d)) ELSE calls
      /\ ~c.gone => d.list = Append(c.list, fn)
  BY <1>1, GiveIs
<1>3. Untouched(k) /\ ~c.gone /\ ~c.firing /\ ~c.locked /\ c.memory = Undefined
      /\ c.list = OwnBefore(k) \o attached[k] /\ state = "pending"
  BY DEF Unsettled, Untouched
<1>4. ~Remembers(c)
  BY <1>3 DEF Remembers
<1>5. d.gone = c.gone /\ d.locked = c.locked /\ ~d.firing /\ d.memory = c.memory
  BY <1>1, <1>3, <1>4, AddsIs
<1>6. d.list = OwnBefore(k) \o attached'[k]
  <2>. DEFINE a == OwnBefore(k)
              b == attached[k]
  <2>1. a \in Seq(Function) /\ b \in Seq(Function) /\ fn \in Function
    BY <1>1, OwnTyped, ListenersAre
  <2>2. d.list = Append(a \o b, fn) /\ attached'[k] = Append(b, fn)
    BY <1>2, <1>3
  <2>. HIDE DEF a, b, d
  <2>3. Append(a \o b, fn) = a \o Append(b, fn)
    BY <2>1
  <2>. QED BY <2>2, <2>3 DEF a
<1>7. calls' = calls
  BY <1>2, <1>3, <1>5
<1>. HIDE DEF d
<1>8. lists'[k] = d /\ \A j \in DOMAIN flags : j # k => lists'[j] = lists[j]
  BY <1>1, <1>2, OtherLists
<1>9. ASSUME NEW j \in {"done", "fail"} PROVE Untouched(j)' /\ Quiet(j)'
  <2>1. Untouched(j) /\ Quiet(j)
    BY DEF Unsettled
  <2>2. Quiet(j)'
    BY <1>2, <1>7, <2>1 DEF Quiet, NoLoop
  <2>3. CASE j = k
    BY <1>3, <1>5, <1>6, <1>8, <2>2, <2>3 DEF Untouched, OwnBefore
  <2>4. CASE j # k
    BY <1>1, <1>2, <1>8, <2>1, <2>2, <2>4 DEF Untouched, OwnBefore
  <2>. QED BY <2>3, <2>4
<1>10. Unsettled'
  BY <1>2, <1>3, <1>9 DEF Unsettled
<1>. QED BY <1>10 DEF DeferredHolds

LEMMA GiveOther ==
    ASSUME DeferredInv, NEW l, NEW s, NEW o, Pair(l, s, o), Settled(l, s, o),
           NEW fn \in Listener, Give(o, fn)
    PROVE  DeferredHolds'
<1>. DEFINE c == lists[o]
            d == Adds(c, flags[o], fn)
<1>1. /\ o \in DOMAIN flags /\ l \in DOMAIN flags /\ l # o /\ c \in SteadyList
  BY DeferredKnown, OwnIs
<1>2. /\ UNCHANGED <<flags, state, crashed, called>>
      /\ lists' = [lists EXCEPT ![o] = d]
      /\ \A j \in DOMAIN flags : j # o => attached'[j] = attached[j]
      /\ ~c.firing => calls' = IF d.firing THEN Append(calls, Starts(o, d)) ELSE calls
  BY <1>1, GiveIs
<1>3. c.gone /\ ~c.firing
  BY DEF Settled, PutOff
<1>4. d = c
  BY <1>1, <1>3, AddsIs
<1>. HIDE DEF d
<1>5. lists'[o] = lists[o] /\ lists'[l] = lists[l] /\ attached'[l] = attached[l]
  BY <1>1, <1>2, <1>4, OtherLists
<1>6. NoMoreLoops
  BY <1>2, <1>3, <1>4, SameFrames
<1>7. Settled(l, s, o)'
  BY <1>2, <1>5, <1>6, SettledKept
<1>8. HoldsFor(l, s, o)'
  BY <1>7 DEF HoldsFor
<1>. QED BY <1>8, PairHolds

(***************************************************************************)
(* What is added comes last, in the list and to those that were given.     *)
(***************************************************************************)
LEMMA OneMoreToCome ==
    ASSUME NEW fr, NEW c \in SteadyList, NEW given \in Seq(Listener), NEW made \in Nat,
           Past(fr, c) \in 1..(Len(c.list) + 1), StillToCome(fr, c, given, made),
           NEW g, g.fn = fr.fn, NEW d \in SteadyList, d.index = c.index, NEW fn \in Listener,
           d.list = Append(c.list, fn)
    PROVE  StillToCome(g, d, Append(given, fn), made)
<1>. DEFINE n == Len(c.list)
            m == Len(given)
            k == Past(fr, c)
            more == Append(given, fn)
<1>1. n \in Nat /\ m \in Nat /\ k \in Nat /\ k \in 1..(n + 1) /\ c.list \in Seq(Function)
      /\ fn \in Function /\ Past(g, d) = k
  BY SteadyIs, ListenersAre DEF Past
<1>2. /\ Len(d.list) = n + 1 /\ d.list[n + 1] = fn /\ DOMAIN d.list = 1..(n + 1)
      /\ \A p \in 1..n : d.list[p] = c.list[p]
  BY <1>1
<1>3. Len(more) = m + 1 /\ more[m + 1] = fn /\ \A i \in 1..m : more[i] = given[i]
  OBVIOUS
<1>4. (n + 1) + made = m + k /\ fr.fn \in Listener \cup {Nothing}
      /\ \A p \in 1..n : p >= k => c.list[p] = given[((p + 1) + made) - k]
  <2>1. DOMAIN c.list = 1..n
    BY <1>1
  <2>. QED BY <2>1 DEF StillToCome
<1>. HIDE DEF n, m, k, more
<1>5. ASSUME NEW p \in 1..(n + 1), p >= k
      PROVE  d.list[p] = more[((p + 1) + made) - k]
  <2>1. CASE p = n + 1
    <3>1. ((p + 1) + made) - k = m + 1
      <4>1. n \in Nat /\ m \in Nat /\ k \in Nat /\ made \in Nat /\ (n + 1) + made = m + k
        BY <1>1, <1>4
      <4>. QED BY <2>1, <4>1
    <3>. QED BY <1>2, <1>3, <2>1, <3>1
  <2>2. CASE p # n + 1
    <3>1. p \in 1..n
      BY <1>1, <2>2
    <3>2. ((p + 1) + made) - k \in 1..m
      BY <1>1, <1>4, <1>5, <3>1
    <3>. QED BY <1>2, <1>3, <1>4, <1>5, <3>1, <3>2
  <2>. QED BY <2>1, <2>2
<1>6. (Len(d.list) + 1) + made = Len(more) + Past(g, d)
  BY <1>1, <1>2, <1>3, <1>4
<1>7. \A p \in DOMAIN d.list : p >= Past(g, d) => d.list[p] = more[((p + 1) + made) - Past(g, d)]
  BY <1>1, <1>2, <1>5
<1>. QED BY <1>4, <1>6, <1>7 DEF StillToCome, more

LEMMA InOrderStill ==
    ASSUME NEW l, CalledInOrder(l), attached[l] \in Seq(Listener),
           called[l] \in Seq(Listener \X Memories), NEW fn \in Listener,
           called'[l] = called[l], attached'[l] = Append(attached[l], fn),
           lists'[l].memory = lists[l].memory
    PROVE  CalledInOrder(l)'
<1>1. /\ Len(attached'[l]) = Len(attached[l]) + 1 /\ Len(attached[l]) \in Nat
      /\ \A i \in 1..Len(attached[l]) : attached'[l][i] = attached[l][i]
      /\ DOMAIN called[l] = 1..Len(called[l]) /\ Len(called[l]) \in Nat
  OBVIOUS
<1>2. Len(called[l]) <= Len(attached[l])
  BY DEF CalledInOrder
<1>3. Len(called'[l]) <= Len(attached'[l])
  BY <1>1, <1>2
<1>4. ASSUME NEW i \in DOMAIN called'[l]
      PROVE  called'[l][i] = <<attached'[l][i], lists'[l].memory>>
  <2>1. i \in DOMAIN called[l] /\ i \in 1..Len(attached[l])
    BY <1>1, <1>2
  <2>2. called[l][i] = <<attached[l][i], lists[l].memory>>
    BY <2>1 DEF CalledInOrder
  <2>. QED BY <1>1, <2>1, <2>2
<1>. QED BY <1>3, <1>4 DEF CalledInOrder

LEMMA GiveFired ==
    ASSUME DeferredInv, NEW l, NEW s, NEW o, Pair(l, s, o), Settled(l, s, o),
           NEW fn \in Listener, Give(l, fn), lists[l].firing
    PROVE  DeferredHolds'
<1>. DEFINE c == lists[l]
            d == Adds(c, flags[l], fn)
<1>1. /\ o \in DOMAIN flags /\ l \in DOMAIN flags /\ l # o /\ c \in SteadyList
      /\ calls \in Seq(Loops) /\ LoopsHold /\ attached[l] \in Seq(Listener)
      /\ called[l] \in Seq(Listener \X Memories)
  BY DeferredKnown, OwnIs
<1>2. /\ UNCHANGED <<flags, state, crashed, called>>
      /\ lists' = [lists EXCEPT ![l] = d]
      /\ attached'[l] = Append(attached[l], fn)
      /\ \A j \in DOMAIN flags : j # l => attached'[j] = attached[j]
      /\ Owe(l, {fn}, {})
      /\ ~c.gone => d.list = Append(c.list, fn)
  BY <1>1, GiveIs
<1>3. ~c.gone /\ c.memory \in Payload /\ CalledInOrder(l) /\ state = s /\ Quiet(o) /\ PutOff(o)
  BY DEF Settled
<1>4. d \in SteadyList /\ d.gone = c.gone /\ d.firing /\ d.index = c.index /\ d.memory = c.memory
  BY <1>1, <1>3, AddsIs
<1>. HIDE DEF d
<1>5. lists'[o] = lists[o] /\ lists'[l] = d
  BY <1>1, <1>2, OtherLists
<1>6. /\ DOMAIN calls' = DOMAIN calls
      /\ \A i \in DOMAIN calls : calls'[i].list = calls[i].list /\ calls'[i].fn = calls[i].fn
  <2>1. {fn} \in SUBSET Function
    BY ListenersAre
  <2>. QED BY <1>1, <1>2, <2>1, OweIs
<1>7. CalledInOrder(l)'
  BY <1>1, <1>2, <1>3, <1>4, <1>5, InOrderStill
<1>8. Quiet(o)' /\ PutOff(o)'
  BY <1>2, <1>3, <1>5, <1>6 DEF Quiet, PutOff, NoLoop
<1>9. ASSUME NEW i \in DOMAIN calls', calls'[i].list = l
      PROVE  StillToCome(calls'[i], lists'[l], attached'[l], Len(called'[l]))
  <2>1. i \in DOMAIN calls /\ calls[i].list = l /\ calls'[i].fn = calls[i].fn
    BY <1>6, <1>9
  <2>2. StillToCome(calls[i], c, attached[l], Len(called[l]))
    BY <2>1 DEF Settled
  <2>3. LoopStands(calls[i], c)
    BY <1>1, <2>1 DEF LoopsHold, StackHolds
  <2>4. Past(calls[i], c) \in 1..(Len(c.list) + 1)
    BY <1>3, <2>3 DEF LoopStands
  <2>5. Len(called[l]) \in Nat /\ d.list = Append(c.list, fn)
    BY <1>1, <1>2, <1>3
  <2>. DEFINE fr == calls[i]
              g == calls'[i]
  <2>6. StillToCome(fr, c, attached[l], Len(called[l])) /\ Past(fr, c) \in 1..(Len(c.list) + 1)
        /\ g.fn = fr.fn
    BY <2>1, <2>2, <2>4
  <2>. HIDE DEF fr, g, c
  <2>7. StillToCome(g, d, Append(attached[l], fn), Len(called[l]))
    BY <1>1, <1>4, <2>5, <2>6, OneMoreToCome
  <2>. QED BY <1>2, <1>5, <2>7 DEF g
<1>10. Settled(l, s, o)'
  BY <1>2, <1>3, <1>4, <1>5, <1>7, <1>8, <1>9 DEF Settled
<1>. QED BY <1>10, PairHolds DEF HoldsFor

LEMMA GiveRested ==
    ASSUME DeferredInv, NEW l, NEW s, NEW o, Pair(l, s, o), Settled(l, s, o),
           NEW fn \in Listener, Give(l, fn), ~lists[l].firing
    PROVE  DeferredHolds'
<1>. DEFINE c == lists[l]
            d == Adds(c, flags[l], fn)
            fr == Starts(l, d)
            n == Len(calls)
            m == Len(attached[l])
<1>1. /\ o \in DOMAIN flags /\ l \in DOMAIN flags /\ l # o /\ c \in SteadyList
      /\ calls \in Seq(Loops) /\ LoopsHold /\ attached[l] \in Seq(Listener) /\ CallbackTypes
      /\ called[l] \in Seq(Listener \X Memories) /\ m \in Nat /\ n \in Nat
  BY DeferredKnown, OwnIs
<1>2. /\ UNCHANGED <<flags, state, crashed, called>>
      /\ lists' = [lists EXCEPT ![l] = d]
      /\ attached'[l] = Append(attached[l], fn)
      /\ \A j \in DOMAIN flags : j # l => attached'[j] = attached[j]
      /\ calls' = (IF d.firing THEN Append(calls, Starts(l, d)) ELSE calls)
      /\ ~c.gone => d.list = Append(c.list, fn)
  BY <1>1, GiveIs
<1>3. /\ ~c.gone /\ c.memory \in Payload /\ CalledInOrder(l) /\ state = s /\ Quiet(o) /\ PutOff(o)
      /\ c.list = <<>> /\ Len(called[l]) = m /\ ~c.firing
  BY DEF Settled
<1>4. Remembers(c) /\ "memory" \in flags[l]
  BY <1>3, FlagsAre, ListenersAre, OwnIs DEF Remembers, DeferredInv
<1>5. /\ d \in SteadyList /\ d.gone = c.gone /\ d.firing /\ d.index = Len(c.list) + 1
      /\ d.memory = c.memory
  BY <1>1, <1>3, <1>4, AddsIs
<1>6. d.list = <<fn>> /\ d.index = 1
  <2>1. d.list = Append(<<>>, fn) /\ Len(c.list) = 0
    BY <1>2, <1>3
  <2>. QED BY <1>5, <2>1
<1>7. fr.list = l /\ fr.fn = Nothing
  BY DEF Starts, Loop
<1>8. calls' = Append(calls, fr)
  BY <1>2, <1>5
<1>. HIDE DEF d, fr
<1>9. lists'[o] = lists[o] /\ lists'[l] = d
  BY <1>1, <1>2, OtherLists
<1>10. /\ DOMAIN calls' = 1..(n + 1) /\ calls'[n + 1] = fr /\ DOMAIN calls = 1..n
       /\ \A i \in 1..n : calls'[i] = calls[i]
  BY <1>1, <1>8
<1>. HIDE DEF n
<1>11. CalledInOrder(l)'
  BY <1>1, <1>2, <1>3, <1>5, <1>9, InOrderStill
<1>12. ASSUME NEW i \in 1..(n + 1) PROVE i = n + 1 \/ (i \in 1..n /\ calls'[i] = calls[i])
  BY <1>1, <1>10
<1>13. NoLoop(o)'
  <2>1. \A i \in 1..n : calls[i].list # o
    BY <1>3, <1>10 DEF Quiet, NoLoop
  <2>2. \A i \in 1..(n + 1) : calls'[i].list # o
    BY <1>1, <1>7, <1>10, <1>12, <2>1
  <2>. QED BY <1>10, <2>2 DEF NoLoop
<1>14. Quiet(o)' /\ PutOff(o)'
  BY <1>2, <1>3, <1>9, <1>13 DEF Quiet, PutOff
<1>15. \A i \in 1..n : calls[i].list # l
  <2>1. NoLoop(l)
    BY <1>1, <1>3, NotFired
  <2>. QED BY <1>10, <2>1 DEF NoLoop
<1>16. StillToCome(fr, d, attached'[l], Len(called'[l]))
  <2>1. Past(fr, d) = 1
    BY <1>6, <1>7 DEF Past
  <2>2. Len(d.list) = 1 /\ d.list[1] = fn /\ DOMAIN d.list = {1}
    BY <1>6
  <2>3. Len(attached'[l]) = m + 1 /\ attached'[l][m + 1] = fn
    BY <1>1, <1>2
  <2>4. Len(called'[l]) = m
    BY <1>2, <1>3
  <2>5. (1 + 1) + m = (m + 1) + 1 /\ ((1 + 1) + m) - 1 = m + 1
    BY <1>1
  <2>. HIDE DEF m
  <2>. QED BY <1>7, <2>1, <2>2, <2>3, <2>4, <2>5 DEF StillToCome
<1>17. ASSUME NEW i \in DOMAIN calls', calls'[i].list = l
       PROVE  StillToCome(calls'[i], lists'[l], attached'[l], Len(called'[l]))
  BY <1>9, <1>10, <1>12, <1>15, <1>16, <1>17
<1>18. Settled(l, s, o)'
  BY <1>2, <1>3, <1>5, <1>9, <1>11, <1>14, <1>17 DEF Settled
<1>. QED BY <1>18, PairHolds DEF HoldsFor

(***************************************************************************)
(* A list is fired.                                                        *)
(***************************************************************************)
LEMMA FireIs ==
    ASSUME DeferredInv, NEW k \in DOMAIN flags, NEW v \in Payload, FireWith(k, v)
    PROVE  LET c == lists[k]
               d == Refires(c, flags[k], v)
           IN  /\ UNCHANGED <<flags, state, crashed, called, attached>>
               /\ calls = <<>> \/ Current.fn \in Listener
               /\ lists' = [lists EXCEPT ![k] = d]
               /\ calls' = IF d.firing /\ ~c.firing THEN Append(calls, Starts(k, d)) ELSE calls
BY DeferredKnown, UseIs DEF FireWith, Becomes

LEMMA FireProgress ==
    ASSUME DeferredInv, NEW v \in Payload, FireWith("progress", v) PROVE DeferredHolds'
<1>. DEFINE k == "progress"
            d == Refires(lists[k], flags[k], v)
<1>1. k \in DOMAIN flags /\ DeferredHolds /\ DOMAIN flags = {"done", "fail", "progress"}
      /\ k \notin {"done", "fail"}
  BY DeferredKnown DEF DeferredInv
<1>2. /\ UNCHANGED <<flags, state, crashed, called, attached>>
      /\ calls = <<>> \/ Current.fn \in Listener
      /\ lists' = [lists EXCEPT ![k] = d]
      /\ calls' = IF d.firing /\ ~lists[k].firing THEN Append(calls, Starts(k, d)) ELSE calls
  BY <1>1, FireIs
<1>. HIDE DEF d, k
<1>3. calls' = calls \/ calls' = Append(calls, Starts(k, d))
  BY <1>2
<1>4. NoMoreLoops
  BY <1>1, <1>3, SameFrames, PushedFrame
<1>5. \A j \in {"done", "fail"} : lists'[j] = lists[j] /\ attached'[j] = attached[j]
  BY <1>1, <1>2, OtherLists
<1>. QED BY <1>1, <1>2, <1>4, <1>5, DeferredKept

LEMMA FireUnsettled ==
    ASSUME DeferredInv, NEW l, NEW s, NEW o, Pair(l, s, o), Unsettled,
           NEW v \in Payload, FireWith(l, v)
    PROVE  DeferredHolds'
<1>. DEFINE c == lists[l]
            d == Refires(c, flags[l], v)
            fr == Starts(l, d)
            n == Len(calls)
<1>1. /\ o \in DOMAIN flags /\ l \in DOMAIN flags /\ l # o /\ c \in SteadyList
      /\ l \in {"done", "fail"} /\ o \in {"done", "fail"} /\ calls \in Seq(Loops) /\ n \in Nat
  BY DeferredKnown, OwnIs
<1>2. /\ UNCHANGED <<flags, state, crashed, called, attached>>
      /\ lists' = [lists EXCEPT ![l] = d]
      /\ calls' = IF d.firing /\ ~c.firing THEN Append(calls, Starts(l, d)) ELSE calls
  BY <1>1, FireIs
<1>3. /\ Untouched(l) /\ Untouched(o) /\ Quiet(l) /\ Quiet(o) /\ state = "pending"
      /\ ~c.gone /\ ~c.firing /\ ~c.locked /\ c.memory = Undefined
      /\ c.list = OwnBefore(l) \o attached[l] /\ ~lists[o].firing
  BY <1>1 DEF Unsettled, Untouched
<1>4. d.firing /\ d.index = 1 /\ d.memory = v /\ d.gone = c.gone /\ d.list = c.list
  <2>1. "unique" \notin flags[l] /\ "once" \in flags[l] /\ "memory" \in flags[l]
    BY <1>1, FlagsAre DEF DeferredInv
  <2>2. /\ d.list = c.list /\ d.gone = c.gone /\ d.firing
        /\ \/ d.firing = c.firing
           \/ d.index = 1 /\ d.memory = v
    BY <1>1, <1>3, <2>1, RefiresIs
  <2>. QED BY <1>3, <2>2
<1>5. fr.list = l /\ fr.fn = Nothing
  BY DEF Starts, Loop
<1>6. calls' = Append(calls, fr)
  BY <1>2, <1>3, <1>4
<1>. HIDE DEF d, fr
<1>7. lists'[o] = lists[o] /\ lists'[l] = d
  BY <1>1, <1>2, OtherLists
<1>8. /\ DOMAIN calls' = 1..(n + 1) /\ calls'[n + 1] = fr /\ DOMAIN calls = 1..n
      /\ Len(calls') = n + 1 /\ calls' # <<>>
      /\ \A i \in 1..n : calls'[i] = calls[i]
  BY <1>1, <1>6
<1>9. Current' = fr
  BY <1>8 DEF Current
<1>. HIDE DEF n
<1>10. NoLoop(o)'
  <2>1. \A i \in 1..n : calls[i].list # o
    BY <1>3, <1>8 DEF Quiet, NoLoop
  <2>2. ASSUME NEW i \in 1..(n + 1) PROVE i = n + 1 \/ i \in 1..n
    BY <1>1
  <2>3. \A i \in 1..(n + 1) : calls'[i].list # o
    BY <1>1, <1>5, <1>8, <2>1, <2>2
  <2>. QED BY <1>8, <2>3 DEF NoLoop
<1>11. Quiet(o)' /\ called'[l] = <<>>
  BY <1>2, <1>3, <1>10 DEF Quiet
<1>12. lists'[l].index = 1 /\ 1 \in 1..3 /\ 1 # 2 /\ 1 # 3
  BY <1>4, <1>7
<1>13. lists'[l].list = (OwnBefore(l) \o attached[l])'
  BY <1>2, <1>3, <1>4, <1>7 DEF OwnBefore
<1>14. Settling(l, s, o)'
  BY <1>2, <1>3, <1>4, <1>5, <1>7, <1>8, <1>9, <1>11, <1>12, <1>13 DEF Settling
<1>. QED BY <1>14, PairHolds DEF HoldsFor

LEMMA FireSettled ==
    ASSUME DeferredInv, NEW l, NEW s, NEW o, Pair(l, s, o), Settled(l, s, o),
           NEW k \in {l, o}, NEW v \in Payload, FireWith(k, v)
    PROVE  DeferredHolds'
<1>. DEFINE c == lists[k]
            d == Refires(c, flags[k], v)
<1>1. /\ o \in DOMAIN flags /\ l \in DOMAIN flags /\ l # o /\ k \in DOMAIN flags /\ c \in SteadyList
      /\ k \in {"done", "fail"}
  BY DeferredKnown, OwnIs
<1>2. /\ UNCHANGED <<flags, state, crashed, called, attached>>
      /\ lists' = [lists EXCEPT ![k] = d]
      /\ calls' = IF d.firing /\ ~c.firing THEN Append(calls, Starts(k, d)) ELSE calls
  BY <1>1, FireIs
<1>3. c.locked \/ c.memory # Undefined
  <2>1. CASE k = o
    BY <2>1 DEF Settled, PutOff
  <2>2. CASE k = l
    BY <2>2, ListenersAre DEF Settled
  <2>. QED BY <2>1, <2>2
<1>4. "once" \in flags[k]
  BY <1>1, FlagsAre DEF DeferredInv
<1>5. /\ d.list = c.list /\ d.gone = c.gone /\ d.firing = c.firing /\ d.index = c.index
      /\ d.memory = c.memory
  BY <1>1, <1>3, <1>4, RefiresIs
<1>6. c.locked => d.locked
  <2>1. c.locked => d = c
    BY DEF Refires
  <2>. QED BY <2>1
<1>. HIDE DEF d
<1>7. lists'[k] = d /\ \A j \in DOMAIN flags : j # k => lists'[j] = lists[j]
  BY <1>1, <1>2, OtherLists
<1>8. NoMoreLoops
  BY <1>2, <1>5, SameFrames
<1>9. lists[o].locked /\ c.locked \in BOOLEAN /\ lists[o].gone /\ ~lists[o].firing
  BY <1>1, SteadyIs DEF Settled, PutOff
<1>10. Settled(l, s, o)'
  <2>1. CASE k = o
    <3>1. lists'[l] = lists[l] /\ lists'[o] = d
      BY <1>1, <1>7, <2>1
    <3>2. PutOff(o)'
      BY <1>5, <1>6, <1>9, <2>1, <3>1 DEF PutOff
    <3>3. lists'[o].gone = lists[o].gone /\ lists'[o].firing = lists[o].firing
      BY <1>5, <2>1, <3>1
    <3>4. PutOff(o) /\ lists'[o].locked
      BY <1>9, <3>2 DEF PutOff
    <3>5. d.locked \in BOOLEAN /\ lists[o].locked \in BOOLEAN
      BY <1>1, <2>1, RefiresIs, SteadyIs DEF d
    <3>6. lists'[o].locked = lists[o].locked
      BY <1>9, <3>1, <3>4, <3>5
    <3>. QED BY <1>2, <1>8, <3>1, <3>3, <3>6, SettledKept
  <2>2. CASE k = l
    <3>1. lists'[o] = lists[o] /\ lists'[l] = d
      BY <1>1, <1>7, <2>2
    <3>. QED BY <1>2, <1>5, <1>8, <2>2, <3>1, SettledKept
  <2>. QED BY <2>1, <2>2
<1>. QED BY <1>10, PairHolds DEF HoldsFor

(***************************************************************************)
(* Use of the lists, whichever.                                            *)
(***************************************************************************)
LEMMA GiveHolds ==
    ASSUME DeferredInv, NEW k \in DOMAIN flags, NEW fn \in Listener, Give(k, fn)
    PROVE  DeferredHolds'
<1>1. /\ DOMAIN flags = {"done", "fail", "progress"}
      /\ calls = <<>> \/ Current.fn \in Listener
  BY DeferredKnown, GiveIs
<1>2. Unsettled \/ \E l, s, o : Pair(l, s, o) /\ HoldsFor(l, s, o)
  BY PairsAre DEF DeferredInv
<1>3. CASE k = "progress"
  BY <1>3, GiveProgress
<1>4. CASE k \in {"done", "fail"} /\ Unsettled
  BY <1>4, GiveUnsettled
<1>5. ASSUME k \in {"done", "fail"}, NEW l, NEW s, NEW o, Pair(l, s, o), HoldsFor(l, s, o)
      PROVE  DeferredHolds'
  <2>1. ~Settling(l, s, o)
    BY <1>1, <1>5, NotWhileSettling
  <2>2. Settled(l, s, o)
    BY <1>5, <2>1 DEF HoldsFor
  <2>3. k = o \/ k = l
    BY <1>5 DEF Pair
  <2>4. CASE k = o
    BY <1>5, <2>2, <2>4, GiveOther
  <2>5. CASE k = l /\ lists[l].firing
    BY <1>5, <2>2, <2>5, GiveFired
  <2>6. CASE k = l /\ ~lists[l].firing
    BY <1>5, <2>2, <2>6, GiveRested
  <2>. QED BY <2>3, <2>4, <2>5, <2>6
<1>. QED BY <1>1, <1>2, <1>3, <1>4, <1>5

LEMMA FireHolds ==
    ASSUME DeferredInv, NEW k \in DOMAIN flags, NEW v \in Payload, FireWith(k, v)
    PROVE  DeferredHolds'
<1>1. /\ DOMAIN flags = {"done", "fail", "progress"}
      /\ calls = <<>> \/ Current.fn \in Listener
  BY DeferredKnown, FireIs
<1>2. Unsettled \/ \E l, s, o : Pair(l, s, o) /\ HoldsFor(l, s, o)
  BY PairsAre DEF DeferredInv
<1>3. CASE k = "progress"
  BY <1>3, FireProgress
<1>4. CASE k \in {"done", "fail"} /\ Unsettled
  <2>1. Pair("done", "resolved", "fail") /\ Pair("fail", "rejected", "done")
    BY DEF Pair
  <2>2. PICK s, o : Pair(k, s, o)
    BY <1>4, <2>1
  <2>. QED BY <1>4, <2>2, FireUnsettled
<1>5. ASSUME k \in {"done", "fail"}, NEW l, NEW s, NEW o, Pair(l, s, o), HoldsFor(l, s, o)
      PROVE  DeferredHolds'
  <2>1. ~Settling(l, s, o)
    BY <1>1, <1>5, NotWhileSettling
  <2>2. Settled(l, s, o)
    BY <1>5, <2>1 DEF HoldsFor
  <2>3. k \in {l, o}
    BY <1>5 DEF Pair
  <2>. QED BY <1>5, <2>2, <2>3, FireSettled
<1>. QED BY <1>1, <1>2, <1>3, <1>4, <1>5

(***************************************************************************)
(* The turns of a loop.                                                    *)
(***************************************************************************)
LEMMA TopIs ==
    ASSUME DeferredInv, calls # <<>>, NEW g \in Loops, calls' = Top(g)
    PROVE  /\ DOMAIN calls' = DOMAIN calls /\ calls' # <<>> /\ Current' = g
           /\ Len(calls) \in DOMAIN calls /\ calls'[Len(calls)] = g
           /\ \A i \in DOMAIN calls : i # Len(calls) => calls'[i] = calls[i]
<1>1. calls \in Seq(Loops) /\ Len(calls) \in DOMAIN calls
  BY DeferredKnown, CurrentIs
<1>2. calls' = [calls EXCEPT ![Len(calls)] = g]
  BY DEF Top
<1>3. Len(calls') = Len(calls) /\ DOMAIN calls' = DOMAIN calls /\ calls'[Len(calls)] = g
      /\ calls' \in Seq(Loops) /\ \A i \in DOMAIN calls : i # Len(calls) => calls'[i] = calls[i]
  BY <1>1, <1>2
<1>4. calls' # <<>>
  BY <1>1, <1>3
<1>. QED BY <1>1, <1>3, <1>4 DEF Current

LEMMA ElsewhereTurns ==
    ASSUME DeferredInv, calls # <<>>, Current.list = "progress",
           calls' = Front(calls) \/ (\E g \in Loops : g.list = "progress" /\ calls' = Top(g)),
           state' = state,
           \A k \in {"done", "fail"} : /\ called'[k] = called[k] /\ attached'[k] = attached[k]
                                       /\ lists'[k] = lists[k]
    PROVE  DeferredHolds'
<1>1. NoMoreLoops
  <2>1. ASSUME NEW g \in Loops, g.list = "progress", calls' = Top(g) PROVE NoMoreLoops
    BY <2>1, TopIs DEF NoMoreLoops
  <2>2. CASE calls' = Front(calls)
    <3>1. /\ calls \in Seq(Loops) /\ LoopsHold /\ Current.list \in DOMAIN flags
      BY DeferredKnown, CurrentIs
    <3>. DEFINE n == Len(calls) - 1
    <3>2. n \in Nat /\ Len(calls) = n + 1 /\ DOMAIN calls = 1..(n + 1)
      BY <3>1, EmptySeq
    <3>. HIDE DEF n
    <3>3. DOMAIN calls' = 1..n /\ \A i \in 1..n : calls'[i] = calls[i]
      <4>1. /\ Front(calls) \in Seq(Loops) /\ Len(Front(calls)) = n
            /\ \A i \in 1..n : Front(calls)[i] = calls[i]
        BY <3>1, <3>2, FrontOf
      <4>. QED BY <2>2, <4>1
    <3>4. \A i \in 1..n : i \in 1..(n + 1)
      BY <3>2
    <3>. QED BY <3>2, <3>3, <3>4 DEF NoMoreLoops
  <2>. QED BY <2>1, <2>2
<1>2. DeferredHolds
  BY DEF DeferredInv
<1>. QED BY <1>1, <1>2, DeferredKept

LEMMA CallIs ==
    ASSUME DeferredInv, Call
    PROVE  LET l == Current.list
               c == lists[l]
               fn == c.list[c.index]
           IN  /\ l \in DOMAIN flags /\ calls # <<>> /\ Current.fn = Nothing
               /\ ~c.gone /\ c.index \in DOMAIN c.list /\ fn \in Function
               /\ UNCHANGED <<flags, attached, crashed>> /\ lists' = After(fn)
               /\ called' = (IF fn \in Own THEN called
                             ELSE [called EXCEPT ![l] = Append(@, <<fn, c.memory>>)])
               /\ state' = (IF fn \in {"resolved", "rejected"} THEN fn ELSE state)
               /\ \E g \in Loops : g.list = l /\ g.fn = fn /\ calls' = Top(g)
<1>. DEFINE l == Current.list
            c == lists[l]
            fn == c.list[c.index]
            g == [Current EXCEPT !.fn = fn, !.heard = @ \cup {fn}]
<1>1. /\ calls # <<>> /\ Current.fn = Nothing /\ Goes(c)
      /\ calls' = Top(g) /\ lists' = After(fn)
      /\ called' = (IF fn \in Own THEN called
                    ELSE [called EXCEPT ![l] = Append(@, <<fn, c.memory>>)])
      /\ state' = (IF fn \in {"resolved", "rejected"} THEN fn ELSE state)
      /\ UNCHANGED <<flags, attached, crashed>>
  BY DEF Call, After
<1>2. Current \in Loops /\ l \in DOMAIN flags /\ c \in SteadyList /\ LoopStands(Current, c)
  BY <1>1, DeferredKnown, CurrentIs
<1>3. c.index \in DOMAIN c.list /\ fn \in Function /\ g \in Loops /\ g.list = l /\ g.fn = fn
  BY <1>1, <1>2, StandsCalling
<1>. HIDE DEF g
<1>. QED BY <1>1, <1>2, <1>3 DEF Goes

LEMMA OwnOnly ==
    ASSUME NEW fn \in Listener
    PROVE  After(fn) = lists /\ fn \notin Own /\ fn \notin {"resolved", "rejected"}
<1>1. fn \notin Own
  BY ListenersAre
<1>. QED BY <1>1 DEF Own, After

LEMMA CallProgress ==
    ASSUME DeferredInv, Call, Current.list = "progress" PROVE DeferredHolds'
<1>. DEFINE l == Current.list
            c == lists[l]
            fn == c.list[c.index]
<1>1. /\ l \in DOMAIN flags /\ calls # <<>> /\ c.index \in DOMAIN c.list
      /\ UNCHANGED attached /\ lists' = After(fn)
      /\ called' = (IF fn \in Own THEN called
                    ELSE [called EXCEPT ![l] = Append(@, <<fn, c.memory>>)])
      /\ state' = (IF fn \in {"resolved", "rejected"} THEN fn ELSE state)
      /\ \E g \in Loops : g.list = l /\ calls' = Top(g)
  BY CallIs
<1>2. c.list \in Seq(Listener)
  BY <1>1, DeferredKnown, KnownIs DEF ListsAre
<1>3. fn \in Listener
  BY <1>1, <1>2
<1>. HIDE DEF fn
<1>4. /\ lists' = lists /\ state' = state
      /\ called' = [called EXCEPT ![l] = Append(@, <<fn, c.memory>>)]
  BY <1>1, <1>3, OwnOnly
<1>5. \A k \in {"done", "fail"} : called'[k] = called[k]
  BY <1>4, DeferredKnown
<1>. QED BY <1>1, <1>4, <1>5, ElsewhereTurns

LEMMA CallSettling ==
    ASSUME DeferredInv, NEW l, NEW s, NEW o, Pair(l, s, o), Settling(l, s, o), Call
    PROVE  DeferredHolds'
<1>. DEFINE c == lists[l]
            k == c.index
            fn == c.list[k]
            own == OwnBefore(l)
<1>1. /\ calls # <<>> /\ Current.list = l /\ k \in 1..3 /\ ~c.gone /\ c.memory \in Payload
      /\ c.list = own \o attached[l] /\ called[l] = <<>> /\ Quiet(o) /\ ~lists[o].firing
      /\ state = IF k = 1 /\ Current.fn = Nothing THEN "pending" ELSE s
      /\ k = 3 => PutOff(o)
  BY DEF Settling
<1>2. /\ UNCHANGED <<flags, attached, crashed>> /\ lists' = After(fn) /\ Current.fn = Nothing
      /\ called' = (IF fn \in Own THEN called
                    ELSE [called EXCEPT ![l] = Append(@, <<fn, c.memory>>)])
      /\ state' = (IF fn \in {"resolved", "rejected"} THEN fn ELSE state)
      /\ \E g \in Loops : g.list = l /\ g.fn = fn /\ calls' = Top(g)
  BY <1>1, CallIs
<1>3. /\ l \in {"done", "fail"} /\ o \in {"done", "fail"} /\ l # o
      /\ own \in Seq(Function) /\ Len(own) = 3
      /\ own[1] = s /\ own[3] = "progressList.lock"
      /\ own[2] = IF l = "done" THEN "failList.disable" ELSE "doneList.disable"
      /\ s \in {"resolved", "rejected"}
  BY OwnIs
<1>4. fn = own[k]
  <2>1. own \in Seq(Function) /\ attached[l] \in Seq(Function)
    <3>1. attached[l] \in Seq(Listener)
      BY <1>3, DeferredKnown
    <3>. QED BY <1>3, <3>1, ListenersAre
  <2>. HIDE DEF own
  <2>2. (own \o attached[l])[k] = own[k]
    <3>1. k \in 1..3 /\ Len(own) = 3
      BY <1>1, <1>3 DEF own
    <3>. DEFINE a == attached[l]
                i == k
    <3>. HIDE DEF a, i
    <3>2. own \in Seq(Function) /\ a \in Seq(Function) /\ Len(own) = 3 /\ i \in 1..3
      BY <2>1, <3>1 DEF a, i
    <3>3. \A j \in 1..(Len(own) + Len(a)) :
             (own \o a)[j] = IF j <= Len(own) THEN own[j] ELSE a[j - Len(own)]
      BY <3>2, ConcatProperties
    <3>4. i \in 1..(Len(own) + Len(a)) /\ i <= Len(own)
      <4>1. Len(a) \in Nat
        BY <3>2
      <4>. QED BY <3>2, <4>1
    <3>. QED BY <3>3, <3>4 DEF a, i
  <2>. QED BY <1>1, <2>2
<1>5. fn \in Own /\ called' = called
  <2>1. fn \in Own
    BY <1>1, <1>3, <1>4 DEF Own
  <2>. QED BY <1>2, <2>1
<1>6. PICK g \in Loops : g.list = l /\ g.fn = fn /\ calls' = Top(g)
  BY <1>2
<1>7. /\ DOMAIN calls' = DOMAIN calls /\ calls' # <<>> /\ Current' = g
      /\ Len(calls) \in DOMAIN calls /\ calls'[Len(calls)] = g
      /\ \A i \in DOMAIN calls : i # Len(calls) => calls'[i] = calls[i]
  BY <1>1, <1>6, TopIs
<1>8. Quiet(o)'
  <2>1. NoLoop(o)'
    BY <1>1, <1>3, <1>6, <1>7 DEF Quiet, NoLoop
  <2>. QED BY <1>1, <1>5, <2>1 DEF Quiet
<1>9. /\ CallbackTypes /\ l \in DOMAIN lists /\ o \in DOMAIN lists
      /\ lists[o] \in SteadyList /\ c \in SteadyList
  BY <1>3, DeferredKnown
<1>10. /\ lists'[l] = CASE fn = "failList.disable" /\ l = "fail" -> Disabled(lists[l])
                        [] fn = "doneList.disable" /\ l = "done" -> Disabled(lists[l])
                        [] fn = "progressList.lock" /\ l = "progress" -> Locks(lists[l])
                        [] OTHER -> lists[l]
       /\ lists'[o] = CASE fn = "failList.disable" /\ o = "fail" -> Disabled(lists[o])
                        [] fn = "doneList.disable" /\ o = "done" -> Disabled(lists[o])
                        [] fn = "progressList.lock" /\ o = "progress" -> Locks(lists[o])
                        [] OTHER -> lists[o]
       /\ lists'[o].firing = lists[o].firing
  BY <1>2, <1>9, AfterIs
<1>11. lists'[l] = c
  <2>1. ~(fn = "failList.disable" /\ l = "fail") /\ ~(fn = "doneList.disable" /\ l = "done")
        /\ ~(fn = "progressList.lock" /\ l = "progress")
    BY <1>1, <1>3, <1>4
  <2>. QED BY <1>10, <2>1
<1>12. k \in {2, 3} => PutOff(o)'
  <2>1. CASE k = 2
    <3>1. (fn = "failList.disable" /\ o = "fail") \/ (fn = "doneList.disable" /\ o = "done")
      BY <1>3, <1>4, <2>1
    <3>2. lists'[o] = Disabled(lists[o])
      <4>1. CASE fn = "failList.disable" /\ o = "fail"
        BY <1>10, <4>1
      <4>2. CASE fn = "doneList.disable" /\ o = "done"
        BY <1>10, <4>2
      <4>. QED BY <3>1, <4>1, <4>2
    <3>. QED BY <1>1, <1>9, <3>2, DisabledIs DEF PutOff
  <2>2. CASE k = 3
    <3>1. fn = "progressList.lock" /\ o # "progress"
      BY <1>3, <1>4, <2>2
    <3>2. lists'[o] = lists[o]
      BY <1>10, <3>1
    <3>. QED BY <1>1, <2>2, <3>2 DEF PutOff
  <2>. QED BY <2>1, <2>2
<1>13. state' = s
  <2>1. CASE k = 1
    BY <1>2, <1>3, <1>4, <2>1
  <2>2. CASE k # 1
    <3>1. fn \notin {"resolved", "rejected"}
      BY <1>1, <1>3, <1>4, <2>2
    <3>. QED BY <1>1, <1>2, <2>2, <3>1
  <2>. QED BY <2>1, <2>2
<1>14. Current'.list = l /\ Current'.fn = own[k] /\ Current'.fn # Nothing
  <2>1. fn # Nothing
    BY <1>5, ListenersAre
  <2>. QED BY <1>4, <1>6, <1>7, <2>1
<1>15. lists'[l].index = k /\ OwnBefore(l)' = own /\ attached'[l] = attached[l]
  BY <1>2, <1>11 DEF OwnBefore
<1>. HIDE DEF fn, k, own
<1>16. lists'[l].list = (OwnBefore(l) \o attached[l])'
  BY <1>1, <1>11, <1>15 DEF own
<1>17. lists'[l].index \in 1..3 /\ Current'.fn \in {Nothing, OwnBefore(l)'[lists'[l].index]}
  BY <1>1, <1>14, <1>15
<1>18. lists'[l].index = 3 \/ lists'[l].index = 2 => PutOff(o)'
  BY <1>12, <1>15
<1>19. Settling(l, s, o)'
  BY <1>1, <1>5, <1>7, <1>8, <1>10, <1>11, <1>13, <1>14, <1>16, <1>17, <1>18 DEF Settling
<1>. QED BY <1>19, PairHolds DEF HoldsFor

LEMMA CallSettled ==
    ASSUME DeferredInv, NEW l, NEW s, NEW o, Pair(l, s, o), Settled(l, s, o), Call,
           Current.list = l
    PROVE  DeferredHolds'
<1>. DEFINE c == lists[l]
            k == c.index
            fn == c.list[k]
            n == Len(c.list)
            m == Len(attached[l])
            made == Len(called[l])
            new == <<fn, c.memory>>
<1>1. /\ l \in {"done", "fail"} /\ o \in {"done", "fail"} /\ l # o
      /\ c \in SteadyList /\ n \in Nat /\ m \in Nat /\ made \in Nat /\ k \in Nat
      /\ called[l] \in Seq(Listener \X Memories) /\ l \in DOMAIN called
      /\ attached[l] \in Seq(Listener) /\ DOMAIN c.list = 1..n
  BY OwnIs, DeferredKnown
<1>2. /\ calls # <<>> /\ Current.fn = Nothing /\ k \in 1..n
      /\ UNCHANGED <<flags, attached, crashed>> /\ lists' = After(fn)
      /\ called' = (IF fn \in Own THEN called ELSE [called EXCEPT ![l] = Append(@, new)])
      /\ state' = (IF fn \in {"resolved", "rejected"} THEN fn ELSE state)
      /\ \E g \in Loops : g.list = l /\ g.fn = fn /\ calls' = Top(g)
  BY <1>1, CallIs
<1>3. Settled(l, s, o) /\ CalledInOrder(l) /\ Quiet(o) /\ PutOff(o) /\ state = s
      /\ ~c.gone /\ c.memory \in Payload
  BY DEF Settled
<1>4. /\ Len(calls) \in DOMAIN calls /\ Current = calls[Len(calls)]
      /\ \A i \in DOMAIN calls : calls[i].list = l => i = Len(calls)
      /\ c.firing
  BY <1>2, DeferredKnown, CurrentIs DEF Current, LoopStands
<1>5. StillToCome(Current, c, attached[l], made)
  BY <1>4 DEF Settled
<1>6. Past(Current, c) = k
  BY <1>2 DEF Past
<1>7. /\ (n + 1) + made = m + k
      /\ \A p \in 1..n : p >= k => c.list[p] = attached[l][((p + 1) + made) - k]
  BY <1>1, <1>5, <1>6 DEF StillToCome
<1>. HIDE DEF n, m, made, k
<1>8. fn = attached[l][made + 1] /\ made + 1 \in 1..m
  <2>1. k >= k /\ ((k + 1) + made) - k = made + 1 /\ made + 1 \in 1..m
    BY <1>1, <1>2, <1>7
  <2>. QED BY <1>2, <1>7, <2>1
<1>9. fn \in Listener
  BY <1>1, <1>8 DEF m
<1>. HIDE DEF fn
<1>10. lists' = lists /\ state' = state /\ called' = [called EXCEPT ![l] = Append(@, new)]
  BY <1>2, <1>9, OwnOnly
<1>11. new \in Listener \X Memories
  BY <1>1, <1>9, SteadyIs
<1>. HIDE DEF new
<1>12. /\ called'[l] = Append(called[l], new) /\ called'[o] = called[o]
       /\ Len(called'[l]) = made + 1 /\ called'[l][made + 1] = new
       /\ DOMAIN called'[l] = 1..(made + 1)
       /\ \A i \in 1..made : called'[l][i] = called[l][i]
  BY <1>1, <1>10, <1>11 DEF made
<1>13. PICK g \in Loops : g.list = l /\ g.fn = fn /\ calls' = Top(g)
  BY <1>2
<1>14. /\ DOMAIN calls' = DOMAIN calls /\ calls'[Len(calls)] = g
       /\ \A i \in DOMAIN calls : i # Len(calls) => calls'[i] = calls[i]
  BY <1>2, <1>13, TopIs
<1>15. Quiet(o)' /\ PutOff(o)'
  <2>1. NoLoop(o)'
    BY <1>1, <1>3, <1>13, <1>14 DEF Quiet, NoLoop
  <2>. QED BY <1>3, <1>10, <1>12, <2>1 DEF Quiet, PutOff
<1>16. CalledInOrder(l)'
  <2>1. made <= m /\ \A i \in 1..made : called[l][i] = <<attached[l][i], c.memory>>
    BY <1>1, <1>3 DEF CalledInOrder, made, m
  <2>2. Len(called'[l]) <= Len(attached'[l])
    BY <1>1, <1>2, <1>8, <1>12 DEF m
  <2>3. ASSUME NEW i \in DOMAIN called'[l]
        PROVE  called'[l][i] = <<attached'[l][i], lists'[l].memory>>
    <3>1. CASE i = made + 1
      BY <1>2, <1>8, <1>10, <1>12, <3>1 DEF new
    <3>2. CASE i # made + 1
      <4>1. i \in 1..made
        BY <1>1, <1>12, <3>2
      <4>. QED BY <1>2, <1>10, <1>12, <2>1, <4>1
    <3>. QED BY <3>1, <3>2
  <2>. QED BY <2>2, <2>3 DEF CalledInOrder
<1>17. StillToCome(g, c, attached[l], made + 1)
  <2>1. g.fn # Nothing /\ g.fn \in Listener
    BY <1>9, <1>13, ListenersAre
  <2>2. Past(g, c) = k + 1
    BY <2>1 DEF Past, k
  <2>3. (n + 1) + (made + 1) = m + (k + 1)
    <3>1. n \in Nat /\ m \in Nat /\ made \in Nat /\ k \in Nat /\ (n + 1) + made = m + k
      BY <1>1, <1>7
    <3>. QED BY <3>1
  <2>4. ASSUME NEW p \in 1..n, p >= k + 1
        PROVE  c.list[p] = attached[l][((p + 1) + (made + 1)) - (k + 1)]
    <3>1. p >= k /\ ((p + 1) + (made + 1)) - (k + 1) = ((p + 1) + made) - k
      <4>1. p \in Nat /\ n \in Nat /\ made \in Nat /\ k \in Nat /\ p >= k + 1
        BY <1>1, <2>4
      <4>. HIDE DEF k, n, made
      <4>. QED BY <4>1
    <3>. QED BY <1>7, <3>1
  <2>. QED BY <1>1, <2>1, <2>2, <2>3, <2>4 DEF StillToCome, n, m
<1>18. ASSUME NEW i \in DOMAIN calls', calls'[i].list = l
       PROVE  StillToCome(calls'[i], lists'[l], attached'[l], Len(called'[l]))
  <2>1. i = Len(calls)
    BY <1>4, <1>14, <1>18
  <2>. QED BY <1>2, <1>10, <1>12, <1>14, <1>17, <2>1
<1>19. Settled(l, s, o)'
  BY <1>3, <1>4, <1>10, <1>15, <1>16, <1>18 DEF Settled
<1>. QED BY <1>19, PairHolds DEF HoldsFor

LEMMA CallsGoOn ==
    ASSUME DeferredInv, Call PROVE DeferredHolds'
<1>1. /\ DOMAIN flags = {"done", "fail", "progress"} /\ Current.list \in DOMAIN flags
      /\ calls # <<>> /\ Len(calls) \in DOMAIN calls
  BY DeferredKnown, CallIs, CurrentIs
<1>2. Unsettled \/ \E l, s, o : Pair(l, s, o) /\ HoldsFor(l, s, o)
  BY PairsAre DEF DeferredInv
<1>3. CASE Current.list = "progress"
  BY <1>3, CallProgress
<1>4. Current.list \in {"done", "fail"} => ~Unsettled
  BY <1>1 DEF Unsettled, Quiet, NoLoop, Current
<1>5. ASSUME NEW l, NEW s, NEW o, Pair(l, s, o), HoldsFor(l, s, o),
             Current.list \in {"done", "fail"}
      PROVE  DeferredHolds'
  <2>1. CASE Settling(l, s, o)
    BY <1>5, <2>1, CallSettling
  <2>2. CASE Settled(l, s, o)
    <3>1. Current.list # o
      BY <1>1, <2>2 DEF Settled, Quiet, NoLoop, Current
    <3>2. Current.list = l
      BY <1>5, <3>1 DEF Pair
    <3>. QED BY <1>5, <2>2, <3>2, CallSettled
  <2>. QED BY <1>5, <2>1, <2>2 DEF HoldsFor
<1>. QED BY <1>1, <1>2, <1>3, <1>4, <1>5

LEMMA ReturnHolds ==
    ASSUME DeferredInv, NEW b \in BOOLEAN, Return(b) PROVE DeferredHolds'
<1>. DEFINE k == Current.list
            c == lists[k]
<1>1. /\ calls # <<>> /\ Current.fn # Nothing
      /\ UNCHANGED <<flags, state, uses, attached, called, crashed>>
  BY DEF Return
<1>2. /\ DOMAIN flags = {"done", "fail", "progress"} /\ k \in DOMAIN flags
      /\ Len(calls) \in DOMAIN calls /\ Current = calls[Len(calls)]
      /\ \A i \in DOMAIN calls : calls[i].list = k => i = Len(calls)
      /\ CallsHold /\ DOMAIN lists = DOMAIN flags
  BY <1>1, DeferredKnown, CurrentIs DEF Current, DeferredInv
<1>3. "stopOnFalse" \notin flags[k]
  BY <1>2, FlagsAre DEF DeferredInv
<1>4. PICK g \in Loops, d \in SteadyList :
           /\ g.list = k /\ g.fn = Nothing /\ d.list = c.list /\ d.firing = c.firing
           /\ calls' = Top(g) /\ lists' = [lists EXCEPT ![k] = d]
           /\ d.gone = c.gone /\ d.locked = c.locked /\ d.memory = c.memory
           /\ d.index = c.index + 1
  BY <1>2, <1>3, ReturnIs
<1>5. lists'[k] = d /\ \A j \in DOMAIN flags : j # k => lists'[j] = lists[j]
  BY <1>2, <1>4, OtherLists
<1>6. /\ DOMAIN calls' = DOMAIN calls /\ calls' # <<>> /\ Current' = g
      /\ calls'[Len(calls)] = g
      /\ \A i \in DOMAIN calls : i # Len(calls) => calls'[i] = calls[i]
  BY <1>1, <1>4, TopIs
<1>7. CASE k = "progress"
  BY <1>1, <1>2, <1>4, <1>5, <1>7, ElsewhereTurns
<1>8. k \in {"done", "fail"} => ~Unsettled
  BY <1>2 DEF Unsettled, Quiet, NoLoop
<1>9. ASSUME NEW l, NEW s, NEW o, Pair(l, s, o), HoldsFor(l, s, o), k \in {"done", "fail"}
      PROVE  DeferredHolds'
  <2>1. Quiet(o) /\ k = l /\ l # o /\ o \in DOMAIN flags
    <3>1. Quiet(o)
      BY <1>9 DEF HoldsFor, Settling, Settled
    <3>2. k # o
      BY <1>2, <3>1 DEF Quiet, NoLoop
    <3>. QED BY <1>2, <1>9, <3>1, <3>2 DEF Pair
  <2>2. lists'[o] = lists[o] /\ lists'[l] = d
    BY <1>5, <2>1
  <2>3. Quiet(o)'
    <3>1. NoLoop(o)'
      BY <1>4, <1>6, <2>1 DEF Quiet, NoLoop
    <3>. QED BY <1>1, <2>1, <3>1 DEF Quiet
  <2>4. \A i \in DOMAIN calls' : calls'[i].list = l => calls'[i] = g /\ i = Len(calls)
    BY <1>2, <1>6, <2>1
  <2>5. CASE Settling(l, s, o)
    <3>. DEFINE n == Len(attached[l])
                own == OwnBefore(l)
    <3>1. /\ c.index \in 1..3 /\ Current.fn = own[c.index]
          /\ ~c.gone /\ c.memory \in Payload /\ c.list = own \o attached[l]
          /\ called[l] = <<>> /\ state = s /\ ~lists[o].firing
          /\ c.index \in {2, 3} => PutOff(o)
      BY <1>1, <2>1, <2>5 DEF Settling
    <3>2. own \in Seq(Function) /\ Len(own) = 3 /\ attached[l] \in Seq(Listener) /\ n \in Nat
          /\ attached[l] \in Seq(Function)
      <4>1. attached[l] \in Seq(Listener) /\ n \in Nat
        BY <1>2, <2>1, DeferredKnown
      <4>2. \A i \in DOMAIN attached[l] : attached[l][i] \in Function
        BY <4>1, ListenersAre
      <4>. QED BY <1>9, <4>1, <4>2, OwnIs
    <3>3. CASE c.index \in 1..2
      <4>1. /\ lists'[l].index \in 1..3 /\ Current'.fn = Nothing /\ lists'[l].index # 1
            /\ lists'[l].index = 3 => c.index = 2
        BY <1>4, <1>6, <2>2, <3>3
      <4>2. lists'[l].list = (OwnBefore(l) \o attached[l])'
        BY <1>1, <1>4, <2>1, <2>2, <3>1 DEF OwnBefore
      <4>3. lists'[l].index = 3 => PutOff(o)'
        BY <2>2, <3>1, <4>1 DEF PutOff
      <4>4. Settling(l, s, o)'
        BY <1>1, <1>4, <1>6, <2>1, <2>2, <2>3, <3>1, <4>1, <4>2, <4>3 DEF Settling
      <4>. QED BY <1>9, <4>4, PairHolds DEF HoldsFor
    <3>4. CASE c.index = 3
      <4>1. PutOff(o)'
        BY <2>2, <3>1, <3>4 DEF PutOff
      <4>2. CalledInOrder(l)'
        <5>1. Len(<<>>) = 0 /\ DOMAIN <<>> = {}
          OBVIOUS
        <5>. QED BY <1>1, <3>1, <3>2, <5>1 DEF CalledInOrder
      <4>3. d.firing
        <5>1. c.firing
          BY <1>1, DeferredKnown, CurrentIs DEF LoopStands
        <5>. QED BY <1>4, <5>1
      <4>4. StillToCome(g, d, attached[l], 0)
        <5>1. Past(g, d) = 4
          BY <1>4, <3>4 DEF Past
        <5>. HIDE DEF own
        <5>2. /\ Len(d.list) = 3 + n /\ DOMAIN d.list = 1..(3 + n)
              /\ \A p \in 1..(3 + n) : p >= 4 => d.list[p] = attached[l][p - 3]
          <6>. DEFINE a == attached[l]
                      w == own \o a
          <6>1. own \in Seq(Function) /\ Len(own) = 3 /\ a \in Seq(Function) /\ Len(a) = n
                /\ n \in Nat
            BY <3>2
          <6>. HIDE DEF a, n
          <6>2. Len(own \o a) = Len(own) + Len(a)
                /\ \A p \in 1..(Len(own) + Len(a)) :
                     (own \o a)[p] = IF p <= Len(own) THEN own[p] ELSE a[p - Len(own)]
            <7>1. own \in Seq(Function) /\ a \in Seq(Function)
              BY <6>1
            <7>. QED BY <7>1, ConcatProperties
          <6>3. w \in Seq(Function) /\ Len(w) = 3 + n
            BY <6>1, <6>2
          <6>5. DOMAIN w = 1..(3 + n)
            <7>. HIDE DEF w
            <7>. QED BY <6>3
          <6>6. ASSUME NEW p \in 1..(3 + n), p >= 4 PROVE w[p] = a[p - 3]
            <7>1. p \in 1..(Len(own) + Len(a)) /\ ~(p <= Len(own)) /\ p - Len(own) = p - 3
              BY <6>1, <6>6
            <7>. QED BY <6>2, <7>1
          <6>4. d.list = w
            BY <1>4, <2>1, <3>1 DEF a
          <6>. HIDE DEF w
          <6>. QED BY <6>3, <6>4, <6>5, <6>6 DEF a
        <5>3. ((3 + n) + 1) + 0 = n + 4 /\ \A p \in 1..(3 + n) : ((p + 1) + 0) - 4 = p - 3
          BY <3>2
        <5>. HIDE DEF n
        <5>. QED BY <1>4, <5>1, <5>2, <5>3 DEF StillToCome, n
      <4>5. \A i \in DOMAIN calls' : calls'[i].list = l =>
               StillToCome(calls'[i], lists'[l], attached'[l], Len(called'[l]))
        BY <1>1, <2>2, <2>4, <3>1, <4>4
      <4>6. Settled(l, s, o)'
        BY <1>1, <1>4, <2>1, <2>2, <2>3, <3>1, <4>1, <4>2, <4>3, <4>5 DEF Settled
      <4>. QED BY <1>9, <4>6, PairHolds DEF HoldsFor
    <3>. QED BY <3>1, <3>3, <3>4
  <2>6. CASE Settled(l, s, o)
    <3>1. /\ CalledInOrder(l) /\ PutOff(o) /\ state = s /\ ~c.gone /\ c.memory \in Payload
          /\ ~c.firing => c.list = <<>> /\ Len(called[l]) = Len(attached[l])
          /\ StillToCome(Current, c, attached[l], Len(called[l]))
      BY <1>2, <2>1, <2>6 DEF Settled
    <3>2. Past(g, d) = Past(Current, c)
      BY <1>1, <1>4 DEF Past
    <3>3. StillToCome(g, d, attached[l], Len(called[l]))
      BY <1>4, <3>1, <3>2 DEF StillToCome
    <3>4. CalledInOrder(l)' /\ PutOff(o)'
      BY <1>1, <1>4, <2>1, <2>2, <3>1 DEF CalledInOrder, PutOff
    <3>5. \A i \in DOMAIN calls' : calls'[i].list = l =>
             StillToCome(calls'[i], lists'[l], attached'[l], Len(called'[l]))
      BY <1>1, <2>2, <2>4, <3>3
    <3>6. Settled(l, s, o)'
      BY <1>1, <1>4, <2>1, <2>2, <2>3, <3>1, <3>4, <3>5 DEF Settled
    <3>. QED BY <1>9, <3>6, PairHolds DEF HoldsFor
  <2>. QED BY <1>9, <2>5, <2>6 DEF HoldsFor
<1>10. Unsettled \/ \E l, s, o : Pair(l, s, o) /\ HoldsFor(l, s, o)
  BY PairsAre DEF DeferredInv
<1>. QED BY <1>2, <1>7, <1>8, <1>9, <1>10

(***************************************************************************)
(* A loop ends, or a function throws.                                      *)
(***************************************************************************)
LEMMA FinishHolds ==
    ASSUME DeferredInv, Finish PROVE DeferredHolds'
<1>. DEFINE k == Current.list
            c == lists[k]
            d == Ends(c, flags[k])
            fr == Starts(k, d)
<1>1. /\ calls # <<>> /\ Current.fn = Nothing /\ ~Goes(c)
      /\ lists' = [lists EXCEPT ![k] = d]
      /\ calls' = (IF d.firing THEN Top(fr) ELSE Front(calls))
      /\ UNCHANGED <<flags, state, uses, attached, called, crashed>>
  BY DEF Finish
<1>2. /\ DOMAIN flags = {"done", "fail", "progress"} /\ k \in DOMAIN flags
      /\ Len(calls) \in DOMAIN calls /\ Current = calls[Len(calls)]
      /\ \A i \in DOMAIN calls : calls[i].list = k => i = Len(calls)
      /\ c \in SteadyList /\ LoopStands(Current, c) /\ calls \in Seq(Loops)
      /\ LoopsHold /\ CallbackTypes
  BY <1>1, DeferredKnown, CurrentIs DEF Current
<1>3. /\ d \in SteadyList
      /\ ~c.gone /\ "once" \in flags[k] /\ c.memory # Halted =>
            ~d.firing /\ ~d.gone /\ d.list = <<>> /\ d.memory = c.memory
      /\ d.firing => d.index = 1 /\ d.length = Len(d.list)
  BY <1>2, EndsIs
<1>4. d.firing => fr \in Loops /\ fr.list = k
  <2>1. SUFFICES ASSUME d.firing PROVE fr \in Loops /\ fr.list = k
    OBVIOUS
  <2>2. k \in ListName
    BY <1>2, KnownIs
  <2>3. d.length = Len(d.list) /\ d.length \in Nat /\ d.index \in 1..(d.length + 1)
    BY <1>3, <2>1, SteadyIs
  <2>. HIDE DEF d
  <2>. QED BY <1>3, <2>1, <2>2, <2>3, StandsStarting
<1>. HIDE DEF d, fr
<1>5. lists'[k] = d /\ \A j \in DOMAIN flags : j # k => lists'[j] = lists[j]
  BY <1>1, <1>2, OtherLists
<1>6. CASE k = "progress"
  <2>1. calls' = Front(calls) \/ \E g \in Loops : g.list = "progress" /\ calls' = Top(g)
    BY <1>1, <1>4, <1>6
  <2>2. \A j \in {"done", "fail"} : lists'[j] = lists[j]
    BY <1>2, <1>5, <1>6
  <2>. QED BY <1>1, <1>6, <2>1, <2>2, ElsewhereTurns
<1>7. k \in {"done", "fail"} => ~Unsettled
  BY <1>2 DEF Unsettled, Quiet, NoLoop
<1>8. ASSUME NEW l, NEW s, NEW o, Pair(l, s, o), HoldsFor(l, s, o), k \in {"done", "fail"}
      PROVE  DeferredHolds'
  <2>1. Quiet(o) /\ k = l /\ l # o /\ o \in DOMAIN flags
    <3>1. Quiet(o)
      BY <1>8 DEF HoldsFor, Settling, Settled
    <3>2. k # o
      BY <1>2, <3>1 DEF Quiet, NoLoop
    <3>. QED BY <1>2, <1>8, <3>1, <3>2 DEF Pair
  <2>2. ~c.gone /\ c.index > c.length /\ c.memory \in Payload /\ c.length = Len(c.list)
        /\ c.index \in 1..(c.length + 1) /\ Len(c.list) \in Nat
    <3>1. ~c.gone /\ c.memory \in Payload
      BY <1>8, <2>1 DEF HoldsFor, Settling, Settled
    <3>2. c.length \in Nat /\ c.index \in Nat
      BY <1>2, SteadyIs
    <3>3. ~(c.index <= c.length)
      BY <1>1, <3>1 DEF Goes
    <3>4. c.length = Len(c.list) /\ Past(Current, c) \in 1..(c.length + 1)
      BY <1>2, <3>1 DEF LoopStands
    <3>. QED BY <1>1, <3>1, <3>2, <3>3, <3>4 DEF Past
  <2>3. ~Settling(l, s, o)
    <3>1. SUFFICES ASSUME Settling(l, s, o) PROVE FALSE
      OBVIOUS
    <3>2. c.index \in 1..3 /\ c.list = OwnBefore(l) \o attached[l]
      BY <2>1, <3>1 DEF Settling
    <3>. DEFINE own == OwnBefore(l)
                a == attached[l]
    <3>3. own \in Seq(Function) /\ Len(own) = 3 /\ a \in Seq(Listener)
      BY <1>2, <1>8, <2>1, DeferredKnown, OwnIs
    <3>. HIDE DEF own, a
    <3>4. Len(own \o a) >= 3
      BY <3>3
    <3>5. c.list = own \o a
      BY <3>2 DEF own, a
    <3>. HIDE DEF c
    <3>. QED BY <2>2, <3>2, <3>4, <3>5
  <2>4. Settled(l, s, o)
    BY <1>8, <2>3 DEF HoldsFor
  <2>5. "once" \in flags[k] /\ c.memory # Halted
    BY <1>8, <2>2, FlagsAre, ListenersAre DEF DeferredInv
  <2>6. ~d.firing /\ ~d.gone /\ d.list = <<>> /\ d.memory = c.memory
    BY <1>3, <2>2, <2>5
  <2>7. calls' = Front(calls) /\ lists'[l] = d /\ lists'[o] = lists[o]
    BY <1>1, <1>5, <2>1, <2>6
  <2>8. NoLoop(l)' /\ NoLoop(o)'
    <3>. DEFINE n == Len(calls) - 1
    <3>1. n \in Nat /\ Len(calls) = n + 1 /\ DOMAIN calls = 1..(n + 1)
      BY <1>2
    <3>. HIDE DEF n
    <3>2. Front(calls) \in Seq(Loops) /\ Len(Front(calls)) = n
          /\ \A i \in 1..n : Front(calls)[i] = calls[i]
      <4>1. calls \in Seq(Loops) /\ n \in Nat /\ Len(calls) = n + 1
        BY <1>2, <3>1
      <4>. QED BY <4>1, FrontOf
    <3>3. DOMAIN calls' = 1..n /\ \A i \in 1..n : calls'[i] = calls[i]
      BY <2>7, <3>2
    <3>4. ASSUME NEW i \in 1..n PROVE calls[i].list # l /\ calls[i].list # o
      <4>1. i \in 1..(n + 1) /\ i # n + 1
        BY <3>1
      <4>. QED BY <1>2, <2>1, <3>1, <4>1 DEF Quiet, NoLoop
    <3>. QED BY <3>3, <3>4 DEF NoLoop
  <2>9. Len(called[l]) = Len(attached[l])
    <3>1. StillToCome(Current, c, attached[l], Len(called[l]))
      BY <1>2, <2>1, <2>4 DEF Settled
    <3>2. Past(Current, c) = c.index /\ c.index = Len(c.list) + 1
      BY <1>1, <2>2 DEF Past
    <3>3. Len(called[l]) \in Nat /\ Len(attached[l]) \in Nat
      BY <1>2, <2>1, DeferredKnown
    <3>4. (Len(c.list) + 1) + Len(called[l]) = Len(attached[l]) + (Len(c.list) + 1)
      BY <3>1, <3>2 DEF StillToCome
    <3>5. Len(c.list) \in Nat
      BY <1>2, <2>1, DeferredKnown
    <3>. DEFINE x == Len(c.list)
                y == Len(called[l])
                z == Len(attached[l])
    <3>6. x \in Nat /\ y \in Nat /\ z \in Nat /\ (x + 1) + y = z + (x + 1)
      BY <3>3, <3>4, <3>5
    <3>. HIDE DEF x, y, z
    <3>7. y = z
      BY <3>6
    <3>. QED BY <3>7 DEF y, z
  <2>10. CalledInOrder(l)' /\ PutOff(o)' /\ Quiet(o)'
    <3>1. CalledInOrder(l) /\ PutOff(o)
      BY <2>4 DEF Settled
    <3>. QED BY <1>1, <2>1, <2>6, <2>7, <2>8, <3>1 DEF CalledInOrder, PutOff, Quiet
  <2>11. state = s
    BY <2>4 DEF Settled
  <2>12. Settled(l, s, o)'
    BY <1>1, <2>1, <2>2, <2>6, <2>7, <2>8, <2>9, <2>10, <2>11 DEF Settled, NoLoop
  <2>. QED BY <1>8, <2>12, PairHolds DEF HoldsFor
<1>9. Unsettled \/ \E l, s, o : Pair(l, s, o) /\ HoldsFor(l, s, o)
  BY PairsAre DEF DeferredInv
<1>. QED BY <1>2, <1>6, <1>7, <1>8, <1>9

LEMMA ThrowHolds ==
    ASSUME DeferredInv, Throw PROVE DeferredHolds'
<1>1. /\ calls # <<>> /\ Current.fn \in Listener /\ calls' = <<>>
      /\ UNCHANGED <<flags, lists, state, uses, attached, called>>
  BY DEF Throw
<1>2. DOMAIN calls' = {}
  BY <1>1
<1>3. NoMoreLoops
  BY <1>2 DEF NoMoreLoops
<1>. QED BY <1>1, <1>3, DeferredKept DEF DeferredInv

-------------------------------------------------------------------------------
(***************************************************************************)
(* The inductive invariant.                                                *)
(***************************************************************************)
CallbacksInv == CallsHold /\ (flags = DeferredFlags => DeferredHolds)

LEMMA CallbacksStart == CallbacksInit => CallbacksInv
<1>. SUFFICES ASSUME CallbacksInit PROVE CallbacksInv
  OBVIOUS
<1>1. EmptyList \in SteadyList /\ EmptyList.list = <<>> /\ ~EmptyList.firing
      /\ ~EmptyList.gone /\ ~EmptyList.locked /\ EmptyList.memory = Undefined
  <2>1. <<>> \in Seq(Function) /\ <<>> \in Seq(Payload)
    OBVIOUS
  <2>. QED BY <2>1 DEF EmptyList, SteadyList
<1>2. /\ state = "pending" /\ calls = <<>> /\ uses = 0 /\ ~crashed /\ crashed \in BOOLEAN
      /\ attached = [l \in DOMAIN flags |-> <<>>]
      /\ called = [l \in DOMAIN flags |-> <<>>]
  BY DEF CallbacksInit
<1>3. /\ DOMAIN NewDeferred = {"done", "fail", "progress"}
      /\ DOMAIN DeferredFlags = {"done", "fail", "progress"}
      /\ NewDeferred["done"] = [EmptyList EXCEPT !.list = OwnBefore("done")]
      /\ NewDeferred["fail"] = [EmptyList EXCEPT !.list = OwnBefore("fail")]
      /\ NewDeferred["progress"] = EmptyList
  <2>1. /\ OwnBefore("done") = <<"resolved", "failList.disable", "progressList.lock">>
        /\ OwnBefore("fail") = <<"rejected", "doneList.disable", "progressList.lock">>
    BY DEF OwnBefore, NewDeferred, EmptyList
  <2>. QED BY <2>1 DEF NewDeferred, DeferredFlags
<1>4. OwnBefore("done") \in Seq(Function) /\ OwnBefore("fail") \in Seq(Function)
  BY OwnTyped
<1>5. ASSUME NEW l \in {"done", "fail"}
      PROVE  /\ NewDeferred[l] \in SteadyList /\ NewDeferred[l].list = OwnBefore(l)
             /\ ~NewDeferred[l].firing /\ ~NewDeferred[l].gone /\ ~NewDeferred[l].locked
             /\ NewDeferred[l].memory = Undefined
  <2>1. NewDeferred[l] = [EmptyList EXCEPT !.list = OwnBefore(l)]
    BY <1>3
  <2>. QED BY <1>1, <1>4, <2>1 DEF SteadyList
<1>6. \/ flags = DeferredFlags /\ lists = NewDeferred
      \/ DOMAIN flags = {"plain"} /\ lists = [plain |-> EmptyList]
  BY DEF CallbacksInit
<1>7. ListsAre(lists) /\ \A l \in DOMAIN flags : ~lists[l].firing
  <2>1. CASE flags = DeferredFlags /\ lists = NewDeferred
    <3>1. NewDeferred = [l \in {"done", "fail", "progress"} |-> NewDeferred[l]]
      BY DEF NewDeferred
    <3>2. \A l \in {"done", "fail", "progress"} :
             NewDeferred[l] \in SteadyList /\ ~NewDeferred[l].firing
      BY <1>1, <1>3, <1>5
    <3>3. <<>> \in Seq(Listener)
      OBVIOUS
    <3>. QED BY <1>1, <1>3, <2>1, <3>1, <3>2, <3>3 DEF ListsAre
  <2>2. CASE DOMAIN flags = {"plain"} /\ lists = [plain |-> EmptyList]
    <3>1. lists = [l \in {"plain"} |-> EmptyList]
      BY <2>2
    <3>2. <<>> \in Seq(Listener)
      OBVIOUS
    <3>. QED BY <1>1, <2>2, <3>1, <3>2 DEF ListsAre
  <2>. QED BY <1>6, <2>1, <2>2
<1>8. CallbackTypes
  <2>1. <<>> \in Seq(Listener) /\ <<>> \in Seq(Loops) /\ <<>> \in Seq(Listener \X Memories)
    OBVIOUS
  <2>2. uses \in 0..MaxUses
    BY <1>2, CallbacksAssumption DEF CallbacksAssumption
  <2>3. /\ attached \in [DOMAIN flags -> Seq(Listener)] /\ calls \in Seq(Loops)
        /\ called \in [DOMAIN flags -> Seq(Listener \X Memories)]
    BY <1>2, <2>1
  <2>4. flags = DeferredFlags \/ DOMAIN flags = {"plain"}
    BY <1>6
  <2>. QED BY <1>2, <1>7, <2>2, <2>3, <2>4 DEF CallbackTypes, ListsAre, Memories
<1>9. LoopsHold
  <2>1. DOMAIN calls = {}
    BY <1>2
  <2>2. DOMAIN lists = DOMAIN flags
    BY <1>7 DEF ListsAre
  <2>. QED BY <1>7, <2>1, <2>2 DEF LoopsHold, StackHolds, NoneLost
<1>10. flags = DeferredFlags => DeferredHolds
  <2>1. SUFFICES ASSUME flags = DeferredFlags PROVE Unsettled
    BY DEF DeferredHolds
  <2>2. lists = NewDeferred
    BY <1>3, <1>6, <2>1
  <2>3. ASSUME NEW l \in {"done", "fail"} PROVE Untouched(l) /\ Quiet(l)
    <3>1. attached[l] = <<>> /\ called[l] = <<>>
      BY <1>2, <1>3, <2>1
    <3>2. OwnBefore(l) \o <<>> = OwnBefore(l)
      BY <1>4
    <3>3. NoLoop(l)
      BY <1>2 DEF NoLoop
    <3>. QED BY <1>5, <2>2, <3>1, <3>2, <3>3 DEF Untouched, Quiet
  <2>. QED BY <1>2, <2>3 DEF Unsettled
<1>. QED BY <1>8, <1>9, <1>10 DEF CallbacksInv, CallsHold

LEMMA CallbacksStep == CallbacksInv /\ [CallbacksNext]_callbackVars => CallbacksInv'
<1>. SUFFICES ASSUME CallbacksInv, [CallbacksNext]_callbackVars PROVE CallbacksInv'
  OBVIOUS
<1>1. CallsHold /\ (flags = DeferredFlags => DeferredInv)
  BY DEF CallbacksInv, DeferredInv
<1>2. CASE UNCHANGED callbackVars
  <2>1. CallsHold'
    BY <1>1, <1>2 DEF CallsHold, CallbackTypes, LoopsHold, callbackVars
  <2>2. flags' = flags /\ (DeferredHolds => DeferredHolds')
    BY <1>2 DEF callbackVars, DeferredHolds, HoldsFor, Settling, Settled, Unsettled, Untouched,
                Quiet, NoLoop, PutOff, CalledInOrder, OwnBefore, Current
  <2>. QED BY <2>1, <2>2 DEF CallbacksInv
<1>3. ASSUME NEW l \in DOMAIN flags, NEW fn \in Listener, Give(l, fn) PROVE CallbacksInv'
  <2>1. flags' = flags
    BY <1>3 DEF Give, Use
  <2>. QED BY <1>1, <1>3, <2>1, GiveLoops, GiveHolds DEF CallbacksInv
<1>4. ASSUME NEW l \in DOMAIN flags, NEW v \in Payload, FireWith(l, v) PROVE CallbacksInv'
  <2>1. flags' = flags
    BY <1>4 DEF FireWith, Use
  <2>. QED BY <1>1, <1>4, <2>1, FireLoops, FireHolds DEF CallbacksInv
<1>5. ASSUME "plain" \in DOMAIN flags, CallsHold', flags' = flags PROVE CallbacksInv'
  <2>1. flags # DeferredFlags
    BY <1>5, FlagsAre
  <2>. QED BY <1>5, <2>1 DEF CallbacksInv
<1>6. ASSUME NEW l \in DOMAIN flags, NEW fn \in Listener, Withdraw(l, fn) PROVE CallbacksInv'
  <2>1. flags' = flags /\ l = "plain"
    BY <1>6 DEF Withdraw, Use
  <2>. QED BY <1>1, <1>5, <1>6, <2>1, WithdrawLoops
<1>7. ASSUME NEW l \in DOMAIN flags, Disable(l) \/ Lock(l) \/ Empty(l) PROVE CallbacksInv'
  <2>1. flags' = flags /\ l = "plain"
    BY <1>7 DEF Disable, Lock, Empty, Use
  <2>. QED BY <1>1, <1>5, <1>7, <2>1, PlainLoops
<1>8. CASE Call
  <2>1. flags' = flags
    BY <1>8 DEF Call
  <2>. QED BY <1>1, <1>8, <2>1, CallLoops, CallsGoOn DEF CallbacksInv
<1>9. ASSUME NEW b \in BOOLEAN, Return(b) PROVE CallbacksInv'
  <2>1. flags' = flags
    BY <1>9 DEF Return
  <2>. QED BY <1>1, <1>9, <2>1, ReturnLoops, ReturnHolds DEF CallbacksInv
<1>10. CASE Finish
  <2>1. flags' = flags
    BY <1>10 DEF Finish
  <2>. QED BY <1>1, <1>10, <2>1, FinishLoops, FinishHolds DEF CallbacksInv
<1>11. CASE Throw
  <2>1. flags' = flags
    BY <1>11 DEF Throw
  <2>. QED BY <1>1, <1>11, <2>1, ThrowLoops, ThrowHolds DEF CallbacksInv
<1>. QED BY <1>2, <1>3, <1>4, <1>6, <1>7, <1>8, <1>9, <1>10, <1>11 DEF CallbacksNext

LEMMA PromisesKept == CallbacksInv => CalledAsPromised
<1>. SUFFICES ASSUME CallbacksInv PROVE CalledAsPromised
  OBVIOUS
<1>1. CallsHold /\ CallbackTypes /\ LoopsHold
  BY DEF CallbacksInv, CallsHold
<1>2. CallbacksTypeOK
  <2>1. \A i \in DOMAIN calls : calls[i].list \in DOMAIN flags
    BY <1>1, KnownIs DEF LoopsHold, StackHolds
  <2>2. lists \in [DOMAIN flags -> ListState]
    BY <1>1, KnownIs, SteadyIs DEF CallbackTypes
  <2>. QED BY <1>1, <2>1, <2>2, KnownIs DEF CallbacksTypeOK, CallbackTypes
<1>3. NobodyIsSkipped
  <2>1. SUFFICES ASSUME NEW i \in DOMAIN calls, calls[i].fn = Nothing,
                        ~lists[calls[i].list].gone,
                        lists[calls[i].list].index > lists[calls[i].list].length
                 PROVE  calls[i].due \subseteq calls[i].heard
    BY DEF NobodyIsSkipped
  <2>. DEFINE fr == calls[i]
              c == lists[fr.list]
  <2>2. LoopStands(fr, c) /\ c \in SteadyList
    BY <1>1, KnownIs DEF LoopsHold, StackHolds
  <2>3. c.length = Len(c.list) /\ fr.due \subseteq fr.heard \cup Ahead(fr, c)
        /\ Past(fr, c) = c.index
    BY <2>1, <2>2 DEF LoopStands, Past
  <2>4. Ahead(fr, c) = {}
    <3>1. Len(c.list) \in Nat /\ c.index \in Nat /\ DOMAIN c.list = 1..Len(c.list)
          /\ c.index > c.length
      BY <2>1, <2>2, SteadyIs
    <3>. HIDE DEF c, fr
    <3>2. \A q \in 1..Len(c.list) : ~(q >= c.index)
      BY <2>3, <3>1
    <3>. QED BY <2>3, <3>1, <3>2 DEF Ahead
  <2>. QED BY <2>3, <2>4
<1>4. DeferredSettlesOnce
  <2>1. SUFFICES ASSUME "done" \in DOMAIN flags
                 PROVE  Side("done", "resolved") /\ Side("fail", "rejected")
    BY DEF DeferredSettlesOnce
  <2>2. flags = DeferredFlags
    BY <1>1, <2>1 DEF CallbackTypes
  <2>3. DeferredHolds /\ DeferredInv
    BY <1>1, <2>2 DEF CallbacksInv, DeferredInv
  <2>4. /\ CallbackTypes /\ LoopsHold /\ DOMAIN lists = DOMAIN flags
        /\ DOMAIN flags = {"done", "fail", "progress"}
    BY <2>3, DeferredKnown
  <2>5. calls = <<>> /\ ~crashed => \A l \in {"done", "fail"} : ~lists[l].firing
    BY <2>4 DEF LoopsHold, NoneLost
  <2>6. ASSUME NEW l, NEW s, NEW o, Pair(l, s, o), HoldsFor(l, s, o),
               NEW z \in {"resolved", "rejected"}, z # s
        PROVE  Side(l, s) /\ Side(o, z)
    <3>1. CASE Settling(l, s, o)
      <4>1. called[l] = <<>> /\ called[o] = <<>> /\ calls # <<>>
        BY <3>1 DEF Settling, Quiet
      <4>. QED BY <4>1 DEF Side
    <3>2. CASE Settled(l, s, o)
      <4>1. called[o] = <<>> /\ state = s /\ CalledInOrder(l)
            /\ (~lists[l].firing => Len(called[l]) = Len(attached[l]))
        BY <3>2 DEF Settled, Quiet
      <4>2. l \in {"done", "fail"}
        BY <2>6, OwnIs
      <4>3. Side(o, z)
        BY <2>6, <4>1 DEF Side
      <4>4. Side(l, s)
        BY <2>5, <4>1, <4>2 DEF Side, CalledInOrder
      <4>. QED BY <4>3, <4>4
    <3>. QED BY <2>6, <3>1, <3>2 DEF HoldsFor
  <2>7. CASE Unsettled
    BY <2>7 DEF Unsettled, Quiet, Side
  <2>8. CASE HoldsFor("done", "resolved", "fail")
    BY <2>6, <2>8 DEF Pair
  <2>9. CASE HoldsFor("fail", "rejected", "done")
    BY <2>6, <2>9 DEF Pair
  <2>. QED BY <2>3, <2>7, <2>8, <2>9 DEF DeferredHolds
<1>. QED BY <1>2, <1>3, <1>4 DEF CalledAsPromised

(***************************************************************************)
(* Whatever uses a list, from outside or from the functions it is calling, *)
(* and whatever flags it has: no loop ends with a function that it owes a  *)
(* call, and a Deferred, once it is settled, calls every function of its   *)
(* side once, in the order they came, with the payload that settled it,    *)
(* and nothing of the other side.                                          *)
(***************************************************************************)
THEOREM FunctionsAreCalled == CallbacksSpec => []CalledAsPromised
<1>. QED BY CallbacksStart, CallbacksStep, PromisesKept, PTL DEF CallbacksSpec

=============================================================================
