-------------------------------- MODULE Display -------------------------------
(***************************************************************************)
(* The devices that Kernel::run() (src/kernel.cpp) looks for and the screen *)
(* it then keeps up to date: initFrameBuffer() chooses BochsFB or Vesa      *)
(* (arch/x86/bochs.cpp, vesa.cpp), FB (src/fb.cpp) allocates buffers, which *)
(* may fail, initPCI() and ATA::init() walk the bus, and kernel_loop()      *)
(* copies the buffer to the screen while another task writes text through   *)
(* Video (src/video.cpp), into a buffer or into the text screen's memory.   *)
(*                                                                          *)
(* A cell of the screen holds the set of characters drawn there: with a     *)
(* frame buffer a character is drawn over what is there.  One task writes   *)
(* text; the messages of the start are left out.  The console has as many   *)
(* columns and rows as adapt() makes of the mode, whether or not configure() *)
(* then sets it; a picture has the rows that the console takes it to have.  *)
(***************************************************************************)
EXTENDS Pci, Sequences, FiniteSets

CONSTANTS
  TextWidth, TextHeight,   \* of the text screen in characters
  FontWidth, FontHeight,   \* of a character in pixels
  TAB_SIZE,
  Glyphs,          \* characters without a meaning of their own
  Prefer,          \* the mode that initFrameBuffer() asks for
  ModeLists,       \* lists of modes that a BIOS may offer
  LineLengths,     \* values of bytes_per_line, which initFrameBuffer() does not set
  PAGE_SIZE,
  MaxRow,          \* bound: rows of text written
  MaxControllers   \* bound: controllers set up before memory is exhausted

\* Video::Video()
TextSize == [width |-> TextWidth, height |-> TextHeight]

\* Video::adapt()
Adapted(m) == [width |-> m.width \div FontWidth, height |-> m.height \div FontHeight]

\* A screen of some rows, and text to fill it.
Usual(z) ==
  z.width \in Nat \ {0} /\ z.height \in Nat /\ z.height >= 2 /\ MaxRow >= z.height + 1

DisplayAssumption ==
  /\ {FontWidth, FontHeight, TAB_SIZE, PAGE_SIZE} \subseteq Nat \ {0}
  /\ MaxRow \in Nat /\ Usual(TextSize) /\ Usual(Adapted(Prefer))
  /\ \A list \in ModeLists : \A k \in DOMAIN list : Usual(Adapted(list[k]))
  /\ Glyphs \cap {"line", "square"} = {}   \* what drawTestData() draws is no character
  /\ Prefer \in [width: Nat, height: Nat, depth: Nat, bpl: Nat] /\ LineLengths \subseteq Nat
  /\ \A list \in ModeLists :
       list \in Seq([width: Nat, height: Nat, depth: Nat, bpl: Nat, id: Nat, linear: BOOLEAN])
  /\ MaxControllers \in Nat /\ MaxControllers > (LastBus + 1) * (LastDev + 1)

VARIABLES
  pc,           \* where the kernel's own task stands
  iter,         \* the iterator of ATA::init()
  controllers,  \* the controllers it has set up
  commands,     \* functions whose command register and interrupt line were written
  listed,       \* what scanDevices() has read
  fb,           \* Platform::fb(): its class, m_hg, m_direct, m_configured and buffers
  locked,       \* __fb_mutex
  mode, mapped, \* m_current, and pages mapped for it
  offered,      \* the modes of the BIOS, while one is chosen
  mem,          \* text screen, frame buffer and the two buffers in memory
  size,         \* Video: m_width, m_height
  cursor,       \* Video: m_x, m_y, m_origin
  roll,         \* history: the rows of text from the first on the screen, roll.top
  stray         \* something was written outside of all of these

bus     == <<machine, iter, controllers, commands, listed>>
screen  == <<fb, locked, mode, mapped, offered>>
console == <<size, cursor, roll, stray>>
vars    == <<pc, bus, screen, mem, console>>

Null  == "null"
Areas == {"text", "screen", "back", "buffer"}

\* The console's rows, the last of which is not shown, and its columns.
Width  == size.width
Height == size.height
Rows   == 0..Height
Cols   == 0..Width - 1

BlankRow(z) == [c \in 0..z.width - 1 |-> {}]
Unused(z)   == [a \in Areas |-> [r \in 0..z.height |-> BlankRow(z)]]
NoText(z)   == [top |-> 0, rows |-> [r \in 0..MaxRow |-> BlankRow(z)], smudged |-> FALSE]
Blank       == BlankRow(size)

\* FB::FB()
NewFB(class) == [class |-> class, hg |-> Over, direct |-> FALSE, configured |-> FALSE,
                 back |-> Null, buffer |-> Null]

NoMode == [width |-> 0, height |-> 0, depth |-> 0, bpl |-> 0, id |-> 0]

Init ==
  /\ machine \in Machines /\ pc = "video"
  /\ iter = Start /\ controllers = <<>> /\ commands = {} /\ listed = {}
  /\ fb = NewFB("bochs") /\ locked = FALSE
  /\ mode = NoMode /\ mapped = 0 /\ offered = <<>>
  /\ size = TextSize /\ mem = Unused(size)
  /\ cursor = [x |-> 0, y |-> 0, origin |-> 0]
  /\ roll = NoText(size)
  /\ stray = FALSE

-----------------------------------------------------------------------------
(* initFrameBuffer()                                                         *)

\* BochsFB::initialize().  m_initialized stays false.
InitBochs ==
  /\ pc = "video"
  /\ fb' = [fb EXCEPT !.hg = FindNext(Start, "bochs")]
  /\ pc' = IF fb'.hg = Over THEN "alternative" ELSE "query"
  /\ UNCHANGED <<bus, locked, mode, mapped, offered, mem, console>>

\* fbAlternative(1); a Vesa is always valid.
Alternative ==
  /\ pc = "alternative" /\ ~locked
  /\ fb' = NewFB("vesa")
  /\ pc' = "query"
  /\ UNCHANGED <<bus, locked, mode, mapped, offered, mem, console>>

\* From 0 to the size of the frame, with the size.
Pages(m) == (m.bpl * m.height) \div PAGE_SIZE + 1

\* BochsFB::query(): what is preferred, of a depth that is known.
QueryBochs ==
  /\ pc = "query" /\ fb.class = "bochs" /\ ~locked
  /\ LET d == IF Prefer.depth \in {8, 16, 24, 32} THEN Prefer.depth ELSE 32
     IN  mode' = [width |-> Prefer.width, height |-> Prefer.height, depth |-> d,
                  bpl |-> (Prefer.width * d) \div 8, id |-> 1]
  /\ mapped' = Pages(mode')
  /\ pc' = "configure"
  /\ UNCHANGED <<bus, fb, locked, offered, mem, console>>

One(b) == IF b THEN 1 ELSE 0

\* Vesa::modeDiff()
ModeDiff(a, b) ==
  One(a.width # b.width) + One(a.width > b.width)
    + One(a.height # b.height) + One(a.height > b.height)
    + One(a.depth # b.depth) + One(a.depth > b.depth) + One(a.bpl # b.bpl)

\* The tests of Vesa::query() on a mode.
Usable(m) == m.linear /\ m.depth \in {16, 24, 32}

\* The place in the list of the mode that Vesa::query() takes, or 0.
ModeChosen(list, prefer) ==
  LET best[k \in 0..Len(list)] ==
        IF k = 0 THEN 0
        ELSE IF ~Usable(list[k]) THEN best[k - 1]
        ELSE IF best[k - 1] = 0 THEN k
        ELSE IF ModeDiff(prefer, list[k]) < ModeDiff(prefer, list[best[k - 1]]) THEN k
        ELSE best[k - 1]
  IN  best[Len(list)]

\* Vesa::query(); a failing call of the BIOS ends it without a mode.
QueryVesa ==
  /\ pc = "query" /\ fb.class = "vesa" /\ ~locked
  /\ \/ pc' = "scan" /\ UNCHANGED <<mode, mapped, offered>>
     \/ \E list \in ModeLists, bpl \in LineLengths :
          LET prefer == [Prefer EXCEPT !.bpl = bpl]
              k      == ModeChosen(list, prefer)
          IN  IF k = 0 THEN pc' = "scan" /\ UNCHANGED <<mode, mapped, offered>>
              ELSE /\ mode' = [f \in DOMAIN NoMode |-> list[k][f]]
                   /\ mapped' = Pages(list[k])
                   /\ offered' = <<list, prefer>>
                   /\ pc' = "configure"
  /\ UNCHANGED <<bus, fb, locked, mem, console>>

\* FB::allocBuffers(): memory may be refused, or not be there.
AllocBuffers(f) ==
  LET conf == [f EXCEPT !.configured = TRUE]
  IN  {[conf EXCEPT !.direct = TRUE, !.back = "screen"],
       [conf EXCEPT !.back = "back"],
       [conf EXCEPT !.back = "back", !.buffer = "buffer"]}

\* Video::adapt(), before configure() and before anything is written: from now on the
\* console takes all memory, the text screen's too, to have the rows of the mode.
Adapt ==
  /\ size' = Adapted(mode)
  /\ mem' = Unused(size') /\ roll' = NoText(size')
  /\ cursor' = [cursor EXCEPT !.x = 0, !.y = 0]
  /\ UNCHANGED stray

\* BochsFB::configure() finds that the mode was not set and returns with the mutex locked.
\* The console keeps the size of the mode.  drawTestData() does nothing then.
ConfigureFails ==
  /\ pc = "configure" /\ fb.class = "bochs" /\ ~locked
  /\ Adapt
  /\ locked' = TRUE
  /\ pc' = "scan"
  /\ UNCHANGED <<bus, fb, mode, mapped, offered>>

\* configure() of either class, with new buffers and a cleared screen.
Configure ==
  /\ pc = "configure" /\ ~locked
  /\ Adapt
  /\ fb' \in AllocBuffers(fb)
  /\ offered' = <<>>
  /\ pc' = "draw"
  /\ UNCHANGED <<bus, locked, mode, mapped>>

\* FB::swap(): m_double_buffer is never set.
Swapped(f) ==
  IF f.buffer = Null \/ f.back = Null \/ f.direct THEN f ELSE [f EXCEPT !.buffer = f.back]

\* What blit() copies for a row: without a buffer, what lies at address 0.
Copied(f, m, r) ==
  IF f.buffer = Null THEN [c \in Cols |-> {"rubbish"}] ELSE m[f.buffer][r]

\* blit() of some rows.
Blitted(f, m, rows) ==
  IF f.direct THEN m
  ELSE [m EXCEPT !["screen"] = [r \in Rows |-> IF r \in rows THEN Copied(f, m, r) ELSE @[r]]]

Drawn(f, m, r, c, g) ==
  IF f.back = Null THEN m ELSE [m EXCEPT ![f.back][r][c] = @ \cup {g}]

\* drawTestData(): swap, blit, draw; swap, blit, draw.
DrawTestData ==
  /\ pc = "draw" /\ ~locked
  /\ fb' = Swapped(fb)
  /\ LET one == Drawn(fb', Blitted(fb', mem, Rows), 0, 0, "line")
     IN  mem' = Drawn(fb', Blitted(fb', one, Rows), Height - 1, 0, "square")
  /\ roll' = [roll EXCEPT !.rows = [r \in 0..MaxRow |->
                IF r < Height THEN mem'[fb.back][r] ELSE Blank]]
  /\ pc' = "scan"
  /\ UNCHANGED <<bus, locked, mode, mapped, offered, size, cursor, stray>>

-----------------------------------------------------------------------------
(* initPCI() and ATA::init()                                                 *)

ScanDevices ==
  /\ pc = "scan"
  /\ listed' = Scanned
  /\ pc' = "ata"
  /\ UNCHANGED <<machine, iter, controllers, commands, screen, mem, console>>

\* The next controller: its interrupt line and command register are set and its four
\* drives detected (module Disk).  Ports and headers of another type are left out.
SetUpController ==
  /\ pc = "ata" /\ FindNext(iter, "ide") # Over /\ Len(controllers) < MaxControllers
  /\ iter' = FindNext(iter, "ide")
  /\ commands' = commands \cup {iter'}
  /\ controllers' = Append(controllers, iter')
  /\ UNCHANGED <<machine, listed, pc, screen, mem, console>>

\* The drives take memory for each controller, until there is none.
OutOfMemory ==
  /\ pc = "ata" /\ FindNext(iter, "ide") # Over /\ Len(controllers) = MaxControllers
  /\ pc' = "stuck"
  /\ UNCHANGED <<bus, screen, mem, console>>

NoController ==
  /\ pc = "ata" /\ FindNext(iter, "ide") = Over
  /\ iter' = Over
  /\ pc' = "loop"
  /\ UNCHANGED <<machine, controllers, commands, listed, screen, mem, console>>

Stuck == pc = "stuck" /\ UNCHANGED vars

-----------------------------------------------------------------------------
(* kernel_loop()                                                             *)

LoopSwap ==
  /\ pc = "loop" /\ fb.configured
  /\ fb' = Swapped(fb)
  /\ pc' = IF fb.direct THEN "loop" ELSE "blit"
  /\ UNCHANGED <<bus, locked, mode, mapped, offered, mem, console>>

\* The other task may run between any two rows.
LoopBlit ==
  /\ pc = "blit" /\ ~locked
  /\ locked' = TRUE
  /\ mem' = Blitted(fb, mem, 0..(Height \div 2) - 1)
  /\ pc' = "rest"
  /\ UNCHANGED <<bus, fb, mode, mapped, offered, console>>

\* Mutant: the mutex stays locked.
LoopBlitRestLocked ==
  /\ pc = "rest"
  /\ mem' = Blitted(fb, mem, Height \div 2..Height)
  /\ pc' = "loop"
  /\ UNCHANGED <<bus, screen, console>>

LoopBlitRest ==
  /\ pc = "rest"
  /\ locked' = FALSE
  /\ mem' = Blitted(fb, mem, Height \div 2..Height)
  /\ pc' = "loop"
  /\ UNCHANGED <<bus, fb, mode, mapped, offered, console>>

-----------------------------------------------------------------------------
(* Video.  The functions take and give the state s of the console.           *)

Console == [mem |-> mem, x |-> cursor.x, y |-> cursor.y, origin |-> cursor.origin,
            top |-> roll.top, rows |-> roll.rows, smudged |-> roll.smudged, stray |-> stray]

Becomes(s) ==
  /\ mem' = s.mem
  /\ cursor' = [x |-> s.x, y |-> s.y, origin |-> s.origin]
  /\ roll' = [top |-> s.top, rows |-> s.rows, smudged |-> s.smudged]
  /\ stray' = s.stray

\* n rows leave the screen at its top.
Rolled(s, n) ==
  [s EXCEPT !.top = @ + n,
            !.rows = [r \in 0..MaxRow |-> IF r < s.top + n THEN Blank ELSE @[r]]]

\* Mutant: the last row is left as it is.
ScrollFrameUncleared(s) ==
  IF fb.buffer = Null THEN [s EXCEPT !.stray = TRUE, !.y = @ - 1]
  ELSE [Rolled(s, 1) EXCEPT
          !.mem[fb.buffer] = [r \in Rows |-> IF r < Height - 1 THEN @[r + 1] ELSE @[r]],
          !.y = @ - 1]

\* In the buffer that data() returns, or in memory that is no buffer.
ScrollFrame(s) ==
  IF fb.buffer = Null THEN [s EXCEPT !.stray = TRUE, !.y = @ - 1]
  ELSE [Rolled(s, 1) EXCEPT
          !.mem[fb.buffer] = [r \in Rows |-> IF r < Height - 1 THEN @[r + 1] ELSE Blank],
          !.y = @ - 1]

\* Two rows, as the offset counts bytes and the pointer words.
ScrollText(s) ==
  [Rolled(s, 2) EXCEPT
     !.mem["text"] = [r \in Rows |-> IF r < Height - 1 THEN @[r + 2]
                                     ELSE IF r = Height - 1 THEN Blank ELSE @[r]],
     !.y = Height - 2]

Scroll(s) ==
  LET t == IF s.y < Height THEN s
           ELSE IF fb.configured THEN ScrollFrame(s) ELSE ScrollText(s)
  IN  [t EXCEPT !.x = IF @ >= Width THEN 0 ELSE @, !.y = IF @ > Height THEN Height - 1 ELSE @]

\* The cell at the cursor.  putPixel() keeps what is outside of the screen inside.
Inside(n, edge) == IF n < edge THEN n ELSE IF mode.depth = 32 THEN n % edge ELSE edge - 1
Cell(s) == IF fb.configured THEN <<Inside(s.y, Height), Inside(s.x, Width)>>
           ELSE <<s.y + s.x \div Width, s.x % Width>>

Area == IF fb.configured THEN fb.back ELSE "text"

\* The cell becomes v, on the roll as well.
Put(s, v) ==
  LET c == Cell(s)
  IN  [s EXCEPT !.mem[Area][c[1]][c[2]] = v,
                !.rows[s.top + s.y + s.x \div Width][s.x % Width] = v,
                !.smudged = @ \/ (fb.configured /\ (s.y >= Height \/ s.x >= Width))]

NewLine(s) == Scroll([s EXCEPT !.y = @ + 1, !.x = 0, !.origin = 0])

Tab(s) == [s EXCEPT !.x = IF @ + TAB_SIZE < Width THEN @ + TAB_SIZE ELSE Width - 1]

Back(s) ==
  Put([s EXCEPT !.x = IF @ > 0 /\ @ > s.origin THEN @ - 1 ELSE @], {})

\* With a frame buffer over what is there.
Glyph(s, g) ==
  LET w == IF s.x >= Width THEN [s EXCEPT !.x = @ - Width, !.y = @ + 1] ELSE s
      t == Scroll(w)
      c == Cell(t)
      old == IF fb.configured THEN t.mem[Area][c[1]][c[2]] ELSE {}
  IN  [Put(t, old \cup {g}) EXCEPT !.x = @ + 1]

\* putCh()
PutCh(s, ch) ==
  CASE ch = "newline"   -> NewLine(s)
    [] ch = "tab"       -> Tab(s)
    [] ch = "backspace" -> Back(s)
    [] OTHER            -> Glyph(s, ch)

\* handleChar(): a new line is made twice.
HandleChar(ch) ==
  /\ pc \in {"loop", "blit", "rest"}
  /\ roll.top + cursor.y + 2 <= MaxRow
  /\ Becomes(PutCh(IF ch = "newline" THEN [Console EXCEPT !.x = 0, !.y = @ + 1] ELSE Console,
                   ch))
  /\ UNCHANGED <<pc, bus, screen, size>>

\* KB::startReading()
SetOrigin ==
  /\ pc \in {"loop", "blit", "rest"}
  /\ cursor' = [cursor EXCEPT !.origin = cursor.x]
  /\ UNCHANGED <<pc, bus, screen, mem, size, roll, stray>>

-----------------------------------------------------------------------------
KernelStep ==
  \/ InitBochs \/ Alternative \/ QueryBochs \/ QueryVesa \/ ConfigureFails \/ Configure
  \/ DrawTestData \/ ScanDevices \/ SetUpController \/ OutOfMemory \/ NoController
  \/ LoopSwap \/ LoopBlit \/ LoopBlitRest

Write == \E ch \in Glyphs \cup {"newline", "tab", "backspace"} : HandleChar(ch)

Next == KernelStep \/ Stuck \/ Write \/ SetOrigin

Spec == Init /\ [][Next]_vars /\ WF_vars(KernelStep)

-----------------------------------------------------------------------------
(* What the start and the screen promise                                     *)

Running == pc \in {"loop", "blit", "rest"}

Controllers == {p \in Functions : What(p) = "ide"}

\* The loop of ATA::init() ends unless a controller is function 0 of its device: the
\* iterator stays there and finds it again.
IdeFirst == \E p \in Controllers : p[3] = 0

Chosen(k) == [f \in DOMAIN NoMode |-> offered[1][k][f]] = mode

Better(j, k) ==
  LET dj == ModeDiff(offered[2], offered[1][j])
      dk == ModeDiff(offered[2], offered[1][k])
  IN  dj < dk \/ (dj = dk /\ j < k)

\* Bochs' device is used if there is one.  Otherwise the mode is the first of those that
\* can be used and differ least from what was asked for.  All of the frame is mapped.
\* scanDevices() reads every function once, and ATA::init() has set up the first
\* controller of each device once and written to no other function.
DevicesFound ==
  /\ pc = "query" => (fb.class = "bochs" <=> \E p \in Functions : What(p) = "bochs")
  /\ pc = "configure" => mapped * PAGE_SIZE >= mode.bpl * mode.height
  /\ offered # <<>> => \E k \in DOMAIN offered[1] :
       /\ Chosen(k) /\ Usable(offered[1][k])
       /\ ~\E j \in DOMAIN offered[1] : Usable(offered[1][j]) /\ Better(j, k)
  /\ pc = "ata" => listed = Functions
  /\ Running =>
       /\ commands = {p \in Controllers : ~\E q \in Controllers :
                        q[1] = p[1] /\ q[2] = p[2] /\ q[3] < p[3]}
       /\ {controllers[k] : k \in DOMAIN controllers} = commands
       /\ Cardinality(commands) = Len(controllers)

\* The start ends, with or without a frame buffer, whatever is plugged in and whatever
\* fails, but for IdeFirst.
StartEnds == ~IdeFirst ~> Running

\* The second buffer, in which scroll() moves the text and from which blit() copies, is
\* not there: memory was refused.
NoBuffer == fb.configured /\ fb.buffer = Null

\* Nothing has been written past the last row.
RollRow(n) == IF n <= MaxRow THEN roll.rows[n] ELSE Blank

\* A mode was found and could not be set: the console has its columns and rows, the
\* text screen, which it goes on with, has others.
Refused == mode # NoMode /\ ~fb.configured

\* The rows and columns of what is shown.
ShownSize == IF fb.configured THEN Adapted(mode) ELSE TextSize

\* What is written to is a window on the text: scrolling by one row or by two, wrapping
\* and erasing keep every row below the one before it, nothing is lost or moved, and
\* what will be written next comes on rows that are free.  These are the rows of the
\* screen, unless the mode was refused: then they are only the console's, and the screen
\* shows them broken at other columns.  (NoBuffer: scroll() clears memory that is not its
\* own.  A backspace below the screen or right of it erases something else.)
TextKept ==
  Running /\ ~NoBuffer /\ ~roll.smudged =>
    /\ \A r \in 0..Height - 1 : mem[Area][r] = RollRow(roll.top + r)
    /\ \A r \in cursor.y + 1..Height, c \in Cols : mem[Area][r][c] \cap Glyphs = {}
    /\ ~stray
    /\ Refused \/ size = ShownSize

\* Once nothing more is written, what was written comes on the screen: kernel_loop()
\* copies the buffer again, however its copies and the writing have overlapped.
ScreenFollows ==
  \/ []<>(Running /\ fb.configured /\ ~NoBuffer => mem["screen"] = mem[fb.back])
  \/ []<><<Write>>_vars
===============================================================================
