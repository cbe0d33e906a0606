-------------------------------- MODULE Media --------------------------------
(***************************************************************************)
(* The images, animations and melodies of libs/libk (graphic.c, sound.c,   *)
(* strdup.c) over a heap and a file system whose every call may fail, and  *)
(* tools/mkksf that writes the melodies' files.  load_image and load_sound *)
(* are run call by call, with the labels of their error paths.             *)
(***************************************************************************)
EXTENDS Integers, Sequences, FiniteSets, SequencesExt

CONSTANTS
    Word,           \* 2^32, the range of an unsigned int
    Bitmaps,        \* bitmap files: [bmp, width, height, size, offset, length]
    Tunes,          \* the texts mkksf is given: [tones, newline]
    HeaderSize,     \* sizeof(struct bitmap_header)
    MaxHeld,        \* bound: images, animations and melodies a program holds at once
    Delay, MaxTick  \* bound: the delay of an animation, the ticks it is drawn at

\* The fields of a bitmap's header are unsigned; a text for mkksf has a tone at least.
ASSUME FilesAssumption ==
    /\ Word \in Nat \ {0} /\ Word % 2 = 0
    /\ \A f \in Bitmaps : /\ {f.width, f.height, f.size, f.offset, f.length} \subseteq Nat
                          /\ f.size < Word
    /\ \A t \in Tunes : t.tones \in Seq({t.tones[i] : i \in DOMAIN t.tones}) \ {<<>>}

NULL == 0

VARIABLES
    heap,           \* the blocks allocated, as numbers
    fds,            \* the files open
    held,           \* what the program holds, in the order it was loaded
    call,           \* the call under way, with its locals
    wild,           \* free was given what is not an allocated block
    video, blue_screen      \* the mode of the screen, the handler of a fatal error
vars == <<heap, fds, held, call, wild, video, blue_screen>>

Fresh == CHOOSE b \in 1 .. Cardinality(heap) + 1 : b \notin heap
Rows(rows) == {rows[i] : i \in DOMAIN rows}

\* free of each of the blocks; of NULL it does nothing.
Free(blocks) ==
    /\ heap' = heap \ blocks
    /\ wild' = (wild \/ ~(blocks \ {NULL} \subseteq heap))

Idle == [pc |-> "idle"]

Init ==
    /\ heap = {} /\ fds = {} /\ held = <<>> /\ call = Idle /\ wild = FALSE
    /\ video = "text" /\ blue_screen = "cons"

Keeps(others) == UNCHANGED <<video, blue_screen>> /\ UNCHANGED others
At(pc) == call.pc = pc
Goto(pc) == call' = [call EXCEPT !.pc = pc]

\* malloc and calloc: a fresh block, or NULL and a jump to where label says.
Allocates(label, Then(_)) ==
    /\ \/ heap' = heap \cup {Fresh} /\ Then(Fresh)
       \/ UNCHANGED heap /\ Goto(label)
    /\ Keeps(<<fds, held, wild>>)

-----------------------------------------------------------------------------
(* load_image.  It returns to the program, or to load_anim, in which an    *)
(* image that is not loaded ends in the blue screen for good.              *)
ImageCall(file, anim) ==
    [pc |-> "open", file |-> file, img |-> NULL, data |-> NULL, rows |-> <<>>, from |-> <<>>,
     i |-> 0, pos |-> 0, anim |-> anim]

NoAnim == [todo |-> <<>>, blocks |-> {}, copy |-> NULL, imgs |-> <<>>]

ReturnNull == call' = IF call.anim = NoAnim THEN Idle ELSE [pc |-> "halted", by |-> blue_screen]

ReturnImage(image) ==
    IF call.anim = NoAnim
      THEN held' = Append(held, image) /\ call' = Idle
      ELSE /\ UNCHANGED held
           /\ call' = [pc |-> "anim", anim |-> [call.anim EXCEPT !.imgs = Append(@, image)]]

LoadImage ==
    /\ At("idle") /\ Len(held) < MaxHeld
    /\ \E f \in Bitmaps : call' = ImageCall(f, NoAnim)
    /\ Keeps(<<heap, fds, held, wild>>)

Open ==
    /\ At("open")
    /\ \/ fds' = fds \cup {"image"} /\ Goto("header")
       \/ UNCHANGED fds /\ ReturnNull
    /\ Keeps(<<heap, held, wild>>)

ReadHeader ==
    /\ At("header")
    /\ \/ call.file.length >= HeaderSize /\ call.file.bmp /\ Goto("img")
       \/ Goto("err_img")
    /\ Keeps(<<heap, fds, held, wild>>)

MallocImage ==
    /\ At("img")
    /\ Allocates("err_img", LAMBDA b : call' = [call EXCEPT !.pc = "data", !.img = b])

DataLabelImg == "err_img"       \* mutant
DataLabel == "err_buf"

\* The pointers of the rows are NULL until each has its row.
CallocData ==
    /\ At("data")
    /\ Allocates(DataLabel, LAMBDA b : call' = [call EXCEPT
           !.pc = "rows", !.data = b, !.rows = [i \in 1 .. call.file.height |-> NULL]])

CallocRow ==
    /\ At("rows") /\ call.i < call.file.height
    /\ Allocates("err", LAMBDA b : call' = [call EXCEPT !.rows[call.i + 1] = b, !.i = @ + 1])

AsSigned(n) == IF n >= Word \div 2 THEN n - Word ELSE n

\* What is to be skipped between two rows: the padding of a line, in unsigned arithmetic.
PaddingWhole(f) == AsSigned((f.size % Word) \div f.height)        \* mutant
Padding(f) == AsSigned(((f.size - f.width * f.height) % Word) \div f.height)

\* An image of height 0 divides by zero.
SeekData ==
    /\ At("rows") /\ call.i = call.file.height
    /\ IF call.file.height = 0 THEN Goto("fault")
       ELSE \/ call' = [call EXCEPT !.pc = "read", !.i = 0, !.pos = call.file.offset]
            \/ Goto("err")
    /\ Keeps(<<heap, fds, held, wild>>)

ReadRow ==
    /\ At("read") /\ call.i < call.file.height
    /\ \/ /\ call.pos + call.file.width <= call.file.length
          /\ call' = [call EXCEPT !.pc = "skip", !.from = Append(@, call.pos),
                                  !.pos = @ + call.file.width]
       \/ Goto("err")
    /\ Keeps(<<heap, fds, held, wild>>)

SkipPadding ==
    /\ At("skip")
    /\ LET pos == call.pos + Padding(call.file)
       IN  \/ pos >= 0 /\ call' = [call EXCEPT !.pc = "read", !.pos = pos, !.i = @ + 1]
           \/ Goto("err")
    /\ Keeps(<<heap, fds, held, wild>>)

ImageLoaded ==
    /\ At("read") /\ call.i = call.file.height
    /\ fds' = fds \ {"image"}
    /\ ReturnImage([kind |-> "image", file |-> call.file, from |-> call.from,
                    blocks |-> {call.img, call.data} \cup Rows(call.rows)])
    /\ Keeps(<<heap, wild>>)

Err ==
    /\ At("err")
    /\ Free(Rows(call.rows) \cup {call.data})
    /\ Goto("err_buf") /\ Keeps(<<fds, held>>)

ErrBuf ==
    /\ At("err_buf")
    /\ Free({call.img})
    /\ Goto("err_img") /\ Keeps(<<fds, held>>)

ErrImg ==
    /\ At("err_img")
    /\ fds' = fds \ {"image"} /\ ReturnNull
    /\ Keeps(<<heap, held, wild>>)

-----------------------------------------------------------------------------
(* load_anim: the struct, the array of images, the copy of the paths, then *)
(* one image after the other.  There is no function to clear an animation. *)
LoadAnim ==
    /\ At("idle") /\ Len(held) < MaxHeld
    /\ \E f, g \in Bitmaps :
           call' = [pc |-> "anim malloc", anim |-> [NoAnim EXCEPT !.todo = <<f, g>>]]
    /\ Keeps(<<heap, fds, held, wild>>)

AnimMalloc ==
    /\ At("anim malloc")
    /\ \/ heap' = heap \cup {Fresh}
          /\ call' = [call EXCEPT !.pc = "anim calloc", !.anim.blocks = {Fresh}]
       \/ UNCHANGED heap /\ call' = Idle
    /\ Keeps(<<fds, held, wild>>)

AnimCalloc ==
    /\ At("anim calloc")
    /\ \/ /\ heap' = heap \cup {Fresh} /\ UNCHANGED wild
          /\ call' = [call EXCEPT !.pc = "strdup", !.anim.blocks = @ \cup {Fresh}]
       \/ Free(call.anim.blocks) /\ call' = Idle
    /\ Keeps(<<fds, held>>)

strdup ==
    /\ At("strdup")
    /\ \/ /\ heap' = heap \cup {Fresh} /\ UNCHANGED wild
          /\ call' = [call EXCEPT !.pc = "anim", !.anim.copy = Fresh]
       \/ Free(call.anim.blocks) /\ call' = Idle
    /\ Keeps(<<fds, held>>)

NextImage ==
    /\ At("anim") /\ call.anim.todo # <<>>
    /\ call' = ImageCall(Head(call.anim.todo), [call.anim EXCEPT !.todo = Tail(@)])
    /\ Keeps(<<heap, fds, held, wild>>)

AnimLoaded ==
    /\ At("anim") /\ call.anim.todo = <<>>
    /\ Free({call.anim.copy})
    /\ held' = Append(held, [kind |-> "anim", current |-> 1, jiffies |-> 0, imgs |-> call.anim.imgs,
                             blocks |-> call.anim.blocks
                                 \cup UNION {img.blocks : img \in Rows(call.anim.imgs)}])
    /\ call' = Idle /\ Keeps(<<fds>>)

\* draw_anim: the next image when the delay is over, or when the counter went back.
Shows(anim, jiffies) ==
    IF (anim.jiffies + Delay) % Word <= jiffies \/ anim.jiffies > jiffies
      THEN [anim EXCEPT !.jiffies = jiffies, !.current = (@ % Len(anim.imgs)) + 1]
      ELSE anim

DrawAnim ==
    /\ At("idle")
    /\ \E k \in DOMAIN held, jiffies \in 0 .. MaxTick :
           held[k].kind = "anim" /\ held' = [held EXCEPT ![k] = Shows(@, jiffies)]
    /\ Keeps(<<heap, fds, call, wild>>)

-----------------------------------------------------------------------------
(* Melodies.  mkksf reads on until the end of the file was met, so a text  *)
(* that ends with a newline has its last tone written twice.               *)
mkksf(tune) ==
    IF tune.newline THEN Append(tune.tones, tune.tones[Len(tune.tones)]) ELSE tune.tones

LoadSound ==
    /\ At("idle") /\ Len(held) < MaxHeld
    /\ \E t \in Tunes : call' = [pc |-> "sound open", tune |-> t, melody |-> NULL, tones |-> <<>>]
    /\ Keeps(<<heap, fds, held, wild>>)

SoundOpen ==
    /\ At("sound open")
    /\ \/ fds' = fds \cup {"sound"} /\ Goto("magic")
       \/ UNCHANGED fds /\ call' = Idle
    /\ Keeps(<<heap, held, wild>>)

\* The magic number and the number of tones: a file that is not a melody is closed.
SoundHeader ==
    /\ At("magic")
    /\ \/ UNCHANGED fds /\ Goto("melody")
       \/ fds' = fds \ {"sound"} /\ call' = Idle
    /\ Keeps(<<heap, held, wild>>)

SoundMalloc ==
    /\ At("melody")
    /\ \/ /\ heap' = heap \cup {Fresh} /\ UNCHANGED fds
          /\ call' = [call EXCEPT !.pc = "tones", !.melody = Fresh]
       \/ UNCHANGED heap /\ fds' = fds \ {"sound"} /\ call' = Idle
    /\ Keeps(<<held, wild>>)

ReadTone ==
    /\ At("tones")
    /\ LET file == mkksf(call.tune) n == Len(call.tones)
       IN  /\ n < Len(file)
           /\ \/ /\ call' = [call EXCEPT !.tones = Append(@, file[n + 1])]
                 /\ UNCHANGED <<fds, heap, wild>>
              \/ fds' = fds \ {"sound"} /\ Free({call.melody}) /\ call' = Idle
    /\ Keeps(<<held>>)

SoundLoaded ==
    /\ At("tones") /\ Len(call.tones) = Len(mkksf(call.tune))
    /\ fds' = fds \ {"sound"}
    /\ held' = Append(held, [kind |-> "melody", tune |-> call.tune, blocks |-> {call.melody},
                             tones |-> Append(call.tones, "end")])
    /\ call' = Idle /\ Keeps(<<heap, wild>>)

-----------------------------------------------------------------------------
\* clear_image and clear_sound.
Clear ==
    /\ At("idle")
    /\ \E k \in DOMAIN held :
           /\ held[k].kind # "anim"
           /\ Free(held[k].blocks) /\ held' = RemoveAt(held, k)
    /\ Keeps(<<fds, call>>)

\* switch_graphic and switch_text: the handler of a fatal error changes after the mode did.
Switch(mode, handler) ==
    /\ At("idle") /\ UNCHANGED <<heap, fds, held, wild>>
    /\ \/ video' = mode /\ blue_screen' = handler /\ UNCHANGED call
       \/ UNCHANGED <<video, blue_screen>> /\ call' = [pc |-> "halted", by |-> blue_screen]

switch_graphic == Switch("graphic", "fb")
switch_text == Switch("text", "cons")

Next ==
    \/ LoadImage \/ Open \/ ReadHeader \/ MallocImage \/ CallocData \/ CallocRow \/ SeekData
    \/ ReadRow \/ SkipPadding \/ ImageLoaded \/ Err \/ ErrBuf \/ ErrImg
    \/ LoadAnim \/ AnimMalloc \/ AnimCalloc \/ strdup \/ NextImage \/ AnimLoaded \/ DrawAnim
    \/ LoadSound \/ SoundOpen \/ SoundHeader \/ SoundMalloc \/ ReadTone \/ SoundLoaded
    \/ Clear \/ switch_graphic \/ switch_text

Spec == Init /\ [][Next]_vars

-----------------------------------------------------------------------------
Owned == UNION {held[k].blocks : k \in DOMAIN held}

\* Whatever call of load_image, load_anim or load_sound fails (graphic.c:442-507, 567-616,
\* sound.c:27-75) and wherever it stops: between two calls no file is open and the heap holds
\* just the blocks of what the program holds, each of one owner; nothing is freed that is not
\* allocated.  A fatal error is shown by the handler of the mode the screen is in.
ResourcesExact ==
    /\ ~wild
    /\ call.pc = "idle" => fds = {} /\ heap = Owned
    /\ \A j, k \in DOMAIN held : held[j].blocks \cap held[k].blocks # {} => j = k
    /\ call.pc = "halted" => call.by = IF video = "graphic" THEN "fb" ELSE "cons"

Images == {x \in Rows(held) : x.kind = "image"}
              \cup UNION {Rows(x.imgs) : x \in {y \in Rows(held) : y.kind = "anim"}}

\* An image the program got has every row from its own line of the file, the lines as far apart
\* as the header's size says (graphic.c:477-492 reads a row and skips the rest, row by row); a
\* melody has every tone of the text mkksf was given, in order, and the end mark behind them.
LoadedExact ==
    /\ \A img \in Images :
         /\ Len(img.from) = img.file.height
         /\ img.file.size >= img.file.width * img.file.height =>
              \A i \in DOMAIN img.from :
                  img.from[i] = img.file.offset + (i - 1) * (img.file.size \div img.file.height)
    /\ \A x \in Rows(held) : x.kind = "melody" =>
         /\ IsPrefix(x.tune.tones, x.tones) /\ x.tones[Len(x.tones)] = "end"
         /\ Len(x.tones) = Len(x.tune.tones) + IF x.tune.newline THEN 2 ELSE 1
=============================================================================
