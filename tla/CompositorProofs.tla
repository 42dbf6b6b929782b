--------------------------- MODULE CompositorProofs ---------------------------
(***************************************************************************)
(* Proofs about Compositor, for any range of channels, sizes and numbers   *)
(* of images: through any tree of compositions a PNG is the equally        *)
(* weighted average of the samples behind it, short of one step of a       *)
(* channel for each level, and no channel leaves the range of its type.    *)
(***************************************************************************)
EXTENDS Compositor, SequenceTheorems, TLAPS

ImageType ==
  [px : Seq(0..Channel), weight : Nat \ {0}, sum : Seq(Nat), levels : Nat,
   faithful : BOOLEAN]

RunType ==
  [pc : {"idle", "load"}, program : {"compositor", "Compose"}, format : {"png", "jpg", "exr"},
   todo : Seq(Nat), acc : Seq(Nat), count : Nat, sum : Seq(Nat), levels : Nat,
   loaded : Nat, faithful : BOOLEAN]

\* An image, and if it is faithful how much darker than its samples it is.
ImageGood(im) ==
  /\ Len(im.sum) = Len(im.px) /\ Len(im.px) > 0
  /\ im.faithful => \A j \in 1..Len(im.px) :
       im.sum[j] - im.px[j] * im.weight \in 0..(im.levels * (im.weight - 1))

\* A composition under way: what is accumulated falls short of the samples by
\* what the images loaded so far fall short, and those weigh count together.
RunGood(r) ==
  /\ \A i \in 1..Len(r.todo) : r.todo[i] \in 1..Len(images)
  /\ Len(r.sum) = Len(r.acc)
  /\ r.loaded <= r.count
  /\ (r.acc = <<>>) = (r.loaded = 0)
  /\ r.faithful => \A j \in 1..Len(r.acc) :
       /\ r.acc[j] \in 0..(Channel * r.count)
       /\ r.sum[j] - r.acc[j] \in 0..(r.levels * (r.count - r.loaded))

CInv ==
  /\ images \in Seq(ImageType) /\ run \in RunType
  /\ \A i \in 1..Len(images) : ImageGood(images[i])
  /\ RunGood(run)

-----------------------------------------------------------------------------
(* Arithmetic. *)

LEMMA ProductGrows ==
  ASSUME NEW a \in Nat, NEW b \in Nat, NEW c \in Nat, a <= b
  PROVE  a * c <= b * c /\ c * a <= c * b /\ a * c \in Nat /\ c * a \in Nat
OBVIOUS

LEMMA ProductIsNat == ASSUME NEW a \in Nat, NEW b \in Nat PROVE a * b \in Nat
OBVIOUS

\* The shortfall of an image added to that of what is accumulated.
LEMMA ShortfallAdds ==
  ASSUME NEW big \in Nat, NEW level \in Nat, NEW top \in Nat, level <= top, big <= top,
         NEW spare \in Nat, NEW weight \in Nat \ {0},
         NEW x \in 0..(big * spare), NEW y \in 0..(level * (weight - 1))
  PROVE  x + y \in 0..(top * (spare + weight - 1))
<1>1. weight - 1 \in Nat
  OBVIOUS
<1>2. big * spare <= top * spare /\ level * (weight - 1) <= top * (weight - 1)
  BY <1>1, ProductGrows
<1>3. /\ big * spare \in Nat /\ level * (weight - 1) \in Nat
      /\ top * spare \in Nat /\ top * (weight - 1) \in Nat
  BY <1>1, ProductGrows
<1>4. top * (spare + (weight - 1)) = top * spare + top * (weight - 1)
  BY <1>1
<1>5. spare + weight - 1 = spare + (weight - 1)
  OBVIOUS
<1>6. x \in Nat /\ y \in Nat /\ x <= big * spare /\ y <= level * (weight - 1)
  BY <1>3
<1>7. x + y \in Nat /\ x + y <= top * spare + top * (weight - 1)
  BY <1>2, <1>3, <1>6
<1> QED
  BY <1>3, <1>4, <1>5, <1>7

LEMMA Division ==
  ASSUME NEW s \in Nat, NEW count \in Nat \ {0}
  PROVE  /\ s \div count \in Nat
         /\ s - (s \div count) * count \in 0..(count - 1)
OBVIOUS

\* The quotient of an average is a channel.
LEMMA QuotientInRange ==
  ASSUME NEW count \in Nat \ {0}, NEW s \in 0..(Channel * count)
  PROVE  /\ s \in 0..(count * (Channel + 1) - 1)
         /\ s \div count \in 0..Channel
<1>1. Channel \in Nat /\ Channel * count \in Nat /\ s \in Nat /\ s <= Channel * count
  BY ValuesAreChannels, ProductGrows
<1>2. count * (Channel + 1) = Channel * count + count
  BY <1>1
<1>3. s \in 0..(count * (Channel + 1) - 1)
  BY <1>1, <1>2
<1> DEFINE q == s \div count
<1>4. q \in Nat /\ s - q * count \in 0..(count - 1)
  BY <1>1, Division
<1>5. ASSUME q > Channel PROVE FALSE
  <2> HIDE DEF q
  <2>1. (Channel + 1) * count <= q * count /\ q * count \in Nat
    BY <1>1, <1>4, <1>5, ProductGrows
  <2>2. (Channel + 1) * count = Channel * count + count
    BY <1>1
  <2>3. q * count <= s
    BY <1>1, <1>4, <2>1
  <2> QED
    BY <1>1, <2>1, <2>2, <2>3
<1> HIDE DEF q
<1>6. q \in 0..Channel
  BY <1>1, <1>4, <1>5
<1> QED
  BY <1>3, <1>6 DEF q

\* What truncation adds to the shortfall: one level.
LEMMA TruncationShortfall ==
  ASSUME NEW levels \in Nat, NEW count \in Nat \ {0}, NEW loaded \in 1..count,
         NEW x \in 0..(levels * (count - loaded)), NEW r \in 0..(count - 1)
  PROVE  x + r \in 0..((levels + 1) * (count - 1))
<1>1. /\ count - loaded \in Nat /\ count - 1 \in Nat /\ count - loaded <= count - 1
  OBVIOUS
<1>2. /\ levels * (count - loaded) <= levels * (count - 1)
      /\ levels * (count - loaded) \in Nat /\ levels * (count - 1) \in Nat
  BY <1>1, ProductGrows
<1>3. (levels + 1) * (count - 1) = levels * (count - 1) + (count - 1)
  BY <1>1
<1> QED
  BY <1>1, <1>2, <1>3

\* One position of the accumulated channels, and of the samples behind them,
\* when an image of weight w is added.
LEMMA ChannelLoaded ==
  ASSUME NEW count \in Nat, NEW loaded \in 0..count, NEW w \in Nat \ {0},
         NEW levels \in Nat, NEW level \in Nat, NEW top \in Nat, levels <= top, level <= top,
         NEW a \in 0..(Channel * count), NEW s \in Nat,
         s - a \in 0..(levels * (count - loaded)),
         NEW px \in 0..Channel, NEW t \in Nat, t - px * w \in 0..(level * (w - 1))
  PROVE  /\ a + px * w \in 0..(Channel * (count + w))
         /\ (s + t) - (a + px * w) \in 0..(top * ((count + w) - (loaded + 1)))
<1>1. Channel \in Nat /\ px \in Nat /\ px <= Channel
  BY ValuesAreChannels
<1>2. /\ px * w <= Channel * w /\ px * w \in Nat /\ Channel * w \in Nat
      /\ Channel * count \in Nat /\ a \in Nat /\ a <= Channel * count
  BY <1>1, ProductGrows
<1>3. Channel * (count + w) = Channel * count + Channel * w
  BY <1>1
<1>4. a + px * w \in 0..(Channel * (count + w))
  BY <1>2, <1>3
<1>5. count - loaded \in Nat
  OBVIOUS
<1>6. (s - a) + (t - px * w) \in 0..(top * ((count - loaded) + w - 1))
  BY <1>5, ShortfallAdds
<1>7. (s + t) - (a + px * w) = (s - a) + (t - px * w)
  BY <1>2
<1>8. (count + w) - (loaded + 1) = (count - loaded) + w - 1
  OBVIOUS
<1> QED
  BY <1>4, <1>6, <1>7, <1>8

-----------------------------------------------------------------------------
(* Lists of numbers. *)

LEMMA FunctionIsList ==
  ASSUME NEW S, NEW n \in Nat, NEW f \in [1..n -> S]
  PROVE  f \in Seq(S) /\ Len(f) = n
<1>1. f \in Seq(S)
  BY SeqDef
<1>2. DOMAIN f = 1..n
  OBVIOUS
<1> QED
  BY <1>1, <1>2, LenProperties

LEMMA ChannelsAreList ==
  ASSUME NEW n \in Nat, NEW px \in [1..n -> Values]
  PROVE  /\ px \in Seq(0..Channel) /\ px \in Seq(Nat) /\ Len(px) = n
         /\ \A j \in 1..n : px[j] \in Nat
<1>1. Channel \in Nat /\ Values \subseteq 0..Channel
  BY ValuesAreChannels
<1>2. \A j \in 1..n : px[j] \in 0..Channel /\ px[j] \in Nat
  <2> TAKE j \in 1..n
  <2>1. px[j] \in Values
    OBVIOUS
  <2>2. px[j] \in 0..Channel
    BY <1>1, <2>1
  <2> QED
    BY <1>1, <2>2
<1>3. px \in [1..n -> 0..Channel] /\ px \in [1..n -> Nat]
  BY <1>2
<1> QED
  BY <1>2, <1>3, FunctionIsList

LEMMA ResizedProperties ==
  ASSUME NEW acc \in Seq(Nat), NEW n \in Nat
  PROVE  /\ Resized(acc, n) \in Seq(Nat)
         /\ Len(Resized(acc, n)) = IF acc = <<>> THEN n ELSE Len(acc)
         /\ \A j \in 1..Len(Resized(acc, n)) :
              Resized(acc, n)[j] = IF acc = <<>> THEN 0 ELSE acc[j]
<1>1. CASE acc = <<>>
  <2> DEFINE zeros == [j \in 1..n |-> 0]
  <2>1. zeros \in [1..n -> Nat] /\ \A j \in 1..n : zeros[j] = 0
    OBVIOUS
  <2>2. Resized(acc, n) = zeros
    BY <1>1 DEF Resized
  <2> HIDE DEF zeros
  <2>3. zeros \in Seq(Nat) /\ Len(zeros) = n
    BY <2>1, FunctionIsList
  <2> QED
    BY <1>1, <2>1, <2>2, <2>3
<1>2. CASE acc # <<>>
  BY <1>2 DEF Resized
<1> QED
  BY <1>1, <1>2

\* Weighted channels, or sums of samples, are added position by position.
LEMMA SumsAdd ==
  ASSUME NEW acc \in Seq(Nat), NEW extra \in Seq(Nat), NEW weight \in Nat
  PROVE  LET more == [j \in 1..Len(acc) |->
                        IF j <= Len(extra) THEN acc[j] + extra[j] * weight ELSE acc[j]]
         IN  /\ more \in Seq(Nat) /\ Len(more) = Len(acc)
             /\ Len(extra) = Len(acc) =>
                  \A j \in 1..Len(acc) : more[j] = acc[j] + extra[j] * weight
<1> DEFINE more == [j \in 1..Len(acc) |->
                      IF j <= Len(extra) THEN acc[j] + extra[j] * weight ELSE acc[j]]
<1>1. Len(acc) \in Nat /\ Len(extra) \in Nat
  BY LenProperties
<1>2. ASSUME NEW j \in 1..Len(acc)
      PROVE  /\ acc[j] \in Nat
             /\ j <= Len(extra) => extra[j] * weight \in Nat
  <2>1. acc[j] \in Nat
    BY ElementOfSeq
  <2>2. CASE j <= Len(extra)
    <3>1. extra[j] \in Nat
      BY <1>1, <2>2, ElementOfSeq
    <3> QED
      BY <2>1, <3>1, ProductGrows
  <2> QED
    BY <2>1, <2>2
<1>3. more \in [1..Len(acc) -> Nat]
  <2> SUFFICES ASSUME NEW j \in 1..Len(acc)
               PROVE  (IF j <= Len(extra) THEN acc[j] + extra[j] * weight ELSE acc[j]) \in Nat
    OBVIOUS
  <2> QED
    BY <1>2
<1>4. Len(extra) = Len(acc) => \A j \in 1..Len(acc) : more[j] = acc[j] + extra[j] * weight
  BY <1>1
<1> HIDE DEF more
<1>5. more \in Seq(Nat) /\ Len(more) = Len(acc)
  BY <1>1, <1>3, FunctionIsList
<1> QED
  BY <1>4, <1>5 DEF more

LEMMA TogetherProperties ==
  ASSUME NEW sum \in Seq(Nat), NEW more \in Seq(Nat)
  PROVE  /\ Together(sum, more) \in Seq(Nat) /\ Len(Together(sum, more)) = Len(sum)
         /\ Len(more) = Len(sum) =>
              \A j \in 1..Len(sum) : Together(sum, more)[j] = sum[j] + more[j]
<1> DEFINE both == [j \in 1..Len(sum) |-> IF j <= Len(more) THEN sum[j] + more[j] ELSE sum[j]]
<1>1. Len(sum) \in Nat /\ Len(more) \in Nat
  BY LenProperties
<1>2. ASSUME NEW j \in 1..Len(sum)
      PROVE  sum[j] \in Nat /\ (j <= Len(more) => more[j] \in Nat)
  <2>1. sum[j] \in Nat
    BY ElementOfSeq
  <2>2. ASSUME j <= Len(more) PROVE more[j] \in Nat
    BY <1>1, <2>2, ElementOfSeq
  <2> QED
    BY <2>1, <2>2
<1>3. both \in [1..Len(sum) -> Nat]
  BY <1>2
<1>4. Len(more) = Len(sum) => \A j \in 1..Len(sum) : both[j] = sum[j] + more[j]
  BY <1>1
<1>5. Together(sum, more) = both
  BY DEF Together
<1> HIDE DEF both
<1>6. both \in Seq(Nat) /\ Len(both) = Len(sum)
  BY <1>1, <1>3, FunctionIsList
<1> QED
  BY <1>4, <1>5, <1>6

LEMMA ImageAppended ==
  ASSUME CInv, NEW im \in ImageType, ImageGood(im), images' = Append(images, im)
  PROVE  /\ images' \in Seq(ImageType) /\ Len(images') = Len(images) + 1
         /\ \A i \in 1..Len(images') : ImageGood(images'[i])
<1>1. /\ images' \in Seq(ImageType) /\ Len(images') = Len(images) + 1
      /\ \A i \in 1..Len(images) : images'[i] = images[i]
      /\ images'[Len(images) + 1] = im /\ Len(images) \in Nat
  BY AppendProperties, LenProperties DEF CInv
<1>2. ASSUME NEW i \in 1..Len(images') PROVE ImageGood(images'[i])
  <2>1. CASE i \in 1..Len(images)
    BY <1>1, <2>1 DEF CInv
  <2>2. CASE i = Len(images) + 1
    BY <1>1, <2>2
  <2> QED
    BY <1>1, <2>1, <2>2
<1> QED
  BY <1>1, <1>2

\* A run that has just been started, or none.
LEMMA BlankGood ==
  /\ Blank \in RunType /\ RunGood(Blank) /\ Blank.acc = <<>> /\ Blank.sum = <<>>
  /\ Blank.count = 0 /\ Blank.loaded = 0 /\ Blank.levels = 0
<1>1. <<>> \in Seq(Nat) /\ Len(<<>>) = 0
  BY EmptySeq
<1> QED
  BY <1>1 DEF Blank, RunType, RunGood

-----------------------------------------------------------------------------
(* Steps. *)

LEMMA ProduceStep == ASSUME CInv, Produce PROVE CInv'
<1> PICK n \in Sizes :
      \E px \in [1..n -> Values] :
        /\ images' = Append(images, [px |-> px, weight |-> 1, sum |-> px,
                                     levels |-> 0, faithful |-> TRUE])
        /\ UNCHANGED run
  BY DEF Produce
<1>1. PICK px \in [1..n -> Values] :
        /\ images' = Append(images, [px |-> px, weight |-> 1, sum |-> px,
                                     levels |-> 0, faithful |-> TRUE])
        /\ UNCHANGED run
  OBVIOUS
<1> DEFINE im == [px |-> px, weight |-> 1, sum |-> px, levels |-> 0, faithful |-> TRUE]
<1>2. n \in Nat \ {0} /\ Channel \in Nat /\ Values \subseteq 0..Channel
  BY SizesPositive, ValuesAreChannels
<1>4. px \in Seq(0..Channel) /\ px \in Seq(Nat) /\ Len(px) = n /\ \A j \in 1..n : px[j] \in Nat
  BY <1>2, ChannelsAreList
<1>5. im \in ImageType
  BY <1>4 DEF ImageType
<1>6. ImageGood(im)
  <2>1. ASSUME NEW j \in 1..n PROVE px[j] - px[j] * 1 = 0
    BY <1>4
  <2>2. /\ im.px = px /\ im.sum = px /\ im.weight = 1 /\ im.levels = 0
        /\ 0 \in 0..(0 * (1 - 1)) /\ Len(px) = n /\ n > 0
    BY <1>2, <1>4
  <2> HIDE DEF im
  <2> QED
    BY <2>1, <2>2 DEF ImageGood
<1>7. images' = Append(images, im)
  BY <1>1
<1> HIDE DEF im
<1>8. /\ images' \in Seq(ImageType) /\ Len(images') = Len(images) + 1
      /\ \A i \in 1..Len(images') : ImageGood(images'[i])
  BY <1>5, <1>6, <1>7, ImageAppended
<1>9. run' \in RunType /\ RunGood(run)'
  BY <1>1, <1>8, LenProperties DEF CInv, RunGood
<1> QED
  BY <1>8, <1>9 DEF CInv

LEMMA StartStep == ASSUME CInv, Start PROVE CInv'
<1>1. PICK program \in Programs, format \in Formats, n \in 0..MaxInputs :
        \E todo \in [1..n -> 1..Len(images)] :
          /\ run' = [Blank EXCEPT !.pc = "load", !.program = program,
                                  !.format = format, !.todo = todo]
          /\ UNCHANGED images
  BY DEF Start
<1>2. PICK todo \in [1..n -> 1..Len(images)] :
        /\ run' = [Blank EXCEPT !.pc = "load", !.program = program,
                                !.format = format, !.todo = todo]
        /\ UNCHANGED images
  BY <1>1
<1>3. n \in Nat /\ Len(images) \in Nat
  BY ImagesBound, LenProperties DEF CInv
<1>4. todo \in [1..n -> Nat]
  BY <1>3
<1>5. todo \in Seq(Nat) /\ Len(todo) = n
  BY <1>3, <1>4, FunctionIsList
<1>6. /\ run' \in RunType /\ run'.todo = todo /\ run'.acc = Blank.acc /\ run'.sum = Blank.sum
      /\ run'.count = Blank.count /\ run'.loaded = Blank.loaded /\ run'.levels = Blank.levels
  BY <1>2, <1>5, BlankGood, ProgramsKnown, FormatsKnown DEF RunType
<1>7. RunGood(run)'
  <2>1. Len(<<>>) = 0
    BY EmptySeq
  <2> QED
    BY <1>2, <1>3, <1>5, <1>6, <2>1, BlankGood DEF RunGood
<1> QED
  BY <1>2, <1>6, <1>7 DEF CInv

\* The next image, when both lists have its length.
LEMMA LoadStep ==
  ASSUME CInv, run.pc = "load", run.todo # <<>>,
         LET image == images[Head(run.todo)]
             acc == Resized(run.acc, Len(image.px))
             sum == Resized(run.sum, Len(image.px))
         IN  run' = [run EXCEPT
               !.acc = Accumulated(acc, image.px, image.weight),
               !.count = Counted(run.count, image.weight),
               !.sum = Together(sum, image.sum),
               !.levels = Larger(run.levels, image.levels),
               !.loaded = run.loaded + 1,
               !.faithful = run.faithful /\ image.faithful /\ Len(image.px) = Len(acc),
               !.todo = Tail(run.todo)],
         UNCHANGED images
  PROVE  CInv'
<1> DEFINE image == images[Head(run.todo)]
           n == Len(image.px)
           w == image.weight
           acc == Resized(run.acc, n)
           sum == Resized(run.sum, n)
<1>1. /\ run \in RunType /\ RunGood(run) /\ images \in Seq(ImageType)
      /\ run.acc \in Seq(Nat) /\ run.sum \in Seq(Nat) /\ run.todo \in Seq(Nat)
      /\ run.count \in Nat /\ run.loaded \in Nat /\ run.levels \in Nat /\ run.loaded <= run.count
      /\ run.faithful \in BOOLEAN
  BY DEF CInv, RunType, RunGood
<1>2. Head(run.todo) \in 1..Len(images)
  <2>1. Len(run.todo) \in Nat \ {0} /\ Head(run.todo) = run.todo[1]
    BY <1>1, EmptySeq
  <2>2. \A i \in 1..Len(run.todo) : run.todo[i] \in 1..Len(images)
    BY <1>1 DEF RunGood
  <2>3. 1 \in 1..Len(run.todo)
    BY <2>1
  <2> QED
    BY <2>1, <2>2, <2>3
<1>3. image \in ImageType /\ ImageGood(image)
  BY <1>1, <1>2, ElementOfSeq DEF CInv
<1>4. /\ image.px \in Seq(0..Channel) /\ image.sum \in Seq(Nat) /\ w \in Nat \ {0}
      /\ image.levels \in Nat /\ image.faithful \in BOOLEAN /\ Len(image.sum) = n /\ n \in Nat \ {0}
      /\ Channel \in Nat
  BY <1>3, LenProperties, ValuesAreChannels DEF ImageType, ImageGood
<1>5. image.px \in Seq(Nat)
  <2>1. 0..Channel \subseteq Nat
    BY <1>4
  <2> QED
    BY <1>4, <2>1, SeqMonotonic
<1>6. Tail(run.todo) \in Seq(Nat) /\ \A i \in 1..Len(Tail(run.todo)) : Tail(run.todo)[i] \in 1..Len(images)
  <2>1. /\ Tail(run.todo) \in Seq(Nat) /\ Len(Tail(run.todo)) = Len(run.todo) - 1
        /\ \A i \in 1..Len(Tail(run.todo)) : Tail(run.todo)[i] = run.todo[i + 1]
    BY <1>1, HeadTailProperties
  <2>2. Len(run.todo) \in Nat /\ \A i \in 1..(Len(run.todo) - 1) : i + 1 \in 1..Len(run.todo)
    BY <1>1, LenProperties
  <2> QED
    BY <1>1, <2>1, <2>2 DEF RunGood
<1>7. /\ acc \in Seq(Nat) /\ sum \in Seq(Nat) /\ Len(sum) = Len(acc) /\ Len(acc) \in Nat \ {0}
      /\ run.acc = <<>> => Len(acc) = n
  <2>1. Len(run.sum) = Len(run.acc) /\ (run.acc = <<>> <=> Len(run.acc) = 0) /\ (run.sum = <<>> <=> Len(run.sum) = 0)
    BY <1>1, EmptySeq DEF RunGood
  <2>2. Len(run.acc) \in Nat
    BY <1>1, LenProperties
  <2> QED
    BY <1>1, <1>4, <2>1, <2>2, ResizedProperties
<1>num. /\ run.count \in Nat /\ run.loaded \in 0..run.count /\ run.levels \in Nat
       /\ w \in Nat \ {0} /\ image.levels \in Nat /\ Channel \in Nat
  BY <1>1, <1>4
<1>8. /\ \A j \in 1..Len(acc) : acc[j] = IF run.acc = <<>> THEN 0 ELSE run.acc[j]
      /\ \A j \in 1..Len(acc) : sum[j] = IF run.acc = <<>> THEN 0 ELSE run.sum[j]
      /\ run.acc # <<>> => Len(acc) = Len(run.acc)
  <2>1. (run.sum = <<>>) = (run.acc = <<>>)
    BY <1>1, EmptySeq DEF RunGood
  <2>2. n \in Nat
    BY <1>4
  <2>3. /\ Len(acc) = IF run.acc = <<>> THEN n ELSE Len(run.acc)
        /\ \A j \in 1..Len(acc) : acc[j] = IF run.acc = <<>> THEN 0 ELSE run.acc[j]
    BY <1>1, <2>2, ResizedProperties
  <2>4. \A j \in 1..Len(sum) : sum[j] = IF run.sum = <<>> THEN 0 ELSE run.sum[j]
    BY <1>1, <2>2, ResizedProperties
  <2> QED
    BY <1>7, <2>1, <2>3, <2>4
<1> HIDE DEF acc, sum, w, n, image
<1> DEFINE more == Accumulated(acc, image.px, w)
           both == Together(sum, image.sum)
<1>9. /\ more \in Seq(Nat) /\ Len(more) = Len(acc)
      /\ n = Len(acc) => \A j \in 1..Len(acc) : more[j] = acc[j] + image.px[j] * w
  <2>1. w \in Nat
    BY <1>num
  <2> QED
    BY <1>5, <1>7, <2>1, SumsAdd DEF Accumulated, n
<1>10. /\ both \in Seq(Nat) /\ Len(both) = Len(acc)
       /\ n = Len(acc) => \A j \in 1..Len(acc) : both[j] = sum[j] + image.sum[j]
  BY <1>4, <1>7, TogetherProperties
<1> HIDE DEF more, both
<1> DEFINE top == Larger(run.levels, image.levels)
<1>11. top \in Nat /\ run.levels <= top /\ image.levels <= top
  BY <1>1, <1>4 DEF Larger
<1> HIDE DEF top
<1>12. /\ run' \in RunType /\ run'.todo = Tail(run.todo) /\ run'.acc = more /\ run'.sum = both
       /\ run'.count = run.count + w /\ run'.levels = top /\ run'.loaded = run.loaded + 1
       /\ run'.faithful = (run.faithful /\ image.faithful /\ n = Len(acc))
  <2>1. run' = [run EXCEPT !.acc = more, !.count = run.count + w, !.sum = both, !.levels = top,
                           !.loaded = run.loaded + 1,
                           !.faithful = run.faithful /\ image.faithful /\ n = Len(acc),
                           !.todo = Tail(run.todo)]
    BY DEF Counted, image, n, w, acc, sum, more, both, top
  <2>2. /\ run.count + w \in Nat /\ run.loaded + 1 \in Nat
        /\ (run.faithful /\ image.faithful /\ n = Len(acc)) \in BOOLEAN
    BY <1>num
  <2> QED
    BY <1>1, <1>6, <1>9, <1>10, <1>11, <2>1, <2>2 DEF RunType
<1>13. ASSUME run.faithful, image.faithful, n = Len(acc), NEW j \in 1..Len(acc)
       PROVE  /\ more[j] \in 0..(Channel * (run.count + w))
              /\ both[j] - more[j] \in 0..(top * ((run.count + w) - (run.loaded + 1)))
  <2>1. acc[j] \in 0..(Channel * run.count) /\ sum[j] - acc[j] \in 0..(run.levels * (run.count - run.loaded))
    <3>1. CASE run.acc = <<>>
      <4>1. acc[j] = 0 /\ sum[j] = 0
        BY <1>8, <3>1
      <4>2. run.count - run.loaded \in Nat
        BY <1>num
      <4>3. Channel * run.count \in Nat /\ run.levels * (run.count - run.loaded) \in Nat
        BY <1>num, <4>2, ProductIsNat
      <4> QED
        BY <4>1, <4>3
    <3>2. CASE run.acc # <<>>
      <4>1. acc[j] = run.acc[j] /\ sum[j] = run.sum[j] /\ j \in 1..Len(run.acc)
        BY <1>8, <1>13, <3>2
      <4> QED
        BY <1>1, <1>13, <4>1 DEF RunGood
    <3> QED
      BY <3>1, <3>2
  <2>2. j \in 1..Len(image.px) /\ j \in 1..Len(image.sum) /\ j \in 1..Len(sum)
    BY <1>4, <1>7, <1>13 DEF n
  <2>3. /\ image.px[j] \in 0..Channel
        /\ image.sum[j] - image.px[j] * w \in 0..(image.levels * (w - 1))
    BY <1>3, <1>4, <1>13, <2>2, ElementOfSeq DEF ImageGood, w
  <2>4. sum[j] \in Nat /\ image.sum[j] \in Nat
    BY <1>4, <1>7, <2>2, ElementOfSeq
  <2>5. more[j] = acc[j] + image.px[j] * w /\ both[j] = sum[j] + image.sum[j]
    BY <1>9, <1>10, <1>13
  <2>6. /\ acc[j] + image.px[j] * w \in 0..(Channel * (run.count + w))
        /\ (sum[j] + image.sum[j]) - (acc[j] + image.px[j] * w)
              \in 0..(top * ((run.count + w) - (run.loaded + 1)))
    BY <1>11, <1>num, <2>1, <2>3, <2>4, ChannelLoaded
  <2> QED
    BY <2>5, <2>6
<1>14. RunGood(run)'
  <2>1. more # <<>>
    BY <1>7, <1>9, EmptySeq
  <2>2. run.loaded + 1 <= run.count + w /\ run.loaded + 1 # 0
    BY <1>1, <1>4
  <2> QED
    BY <1>6, <1>9, <1>10, <1>12, <1>13, <2>1, <2>2 DEF RunGood
<1> QED
  BY <1>12, <1>14 DEF CInv

\* The next image, when one of the lists is overrun.
LEMMA OverrunStep ==
  ASSUME CInv, run.pc = "load", run.todo # <<>>, run.acc # <<>>,
         run' = [run EXCEPT !.faithful = FALSE,
                            !.count = Counted(run.count, images[Head(run.todo)].weight),
                            !.loaded = run.loaded + 1, !.todo = Tail(run.todo)],
         UNCHANGED images
  PROVE  CInv'
<1> DEFINE w == images[Head(run.todo)].weight
<1>1. /\ run \in RunType /\ RunGood(run) /\ images \in Seq(ImageType) /\ run.todo \in Seq(Nat)
      /\ run.count \in Nat /\ run.loaded \in Nat /\ run.loaded <= run.count
  BY DEF CInv, RunType, RunGood
<1>2. \A i \in 1..Len(run.todo) : run.todo[i] \in 1..Len(images)
  BY <1>1 DEF RunGood
<1>3. /\ Tail(run.todo) \in Seq(Nat) /\ Len(Tail(run.todo)) = Len(run.todo) - 1
      /\ \A i \in 1..Len(Tail(run.todo)) : Tail(run.todo)[i] = run.todo[i + 1]
      /\ Len(run.todo) \in Nat \ {0} /\ Head(run.todo) = run.todo[1]
  BY <1>1, HeadTailProperties, EmptySeq
<1>4. Head(run.todo) \in 1..Len(images) /\ 1 \in 1..Len(run.todo)
  BY <1>2, <1>3
<1>5. w \in Nat \ {0}
  <2>1. images[Head(run.todo)] \in ImageType
    BY <1>1, <1>4, ElementOfSeq
  <2> QED
    BY <2>1 DEF ImageType
<1>6. \A i \in 1..Len(Tail(run.todo)) : Tail(run.todo)[i] \in 1..Len(images)
  <2>1. \A i \in 1..(Len(run.todo) - 1) : i + 1 \in 1..Len(run.todo)
    BY <1>3
  <2> QED
    BY <1>2, <1>3, <2>1
<1> HIDE DEF w
<1>7. /\ run.count + w \in Nat /\ run.loaded + 1 \in Nat
      /\ run.loaded + 1 <= run.count + w /\ run.loaded + 1 # 0
  BY <1>1, <1>5
<1>8. run' = [run EXCEPT !.faithful = FALSE, !.count = run.count + w,
                         !.loaded = run.loaded + 1, !.todo = Tail(run.todo)]
  BY DEF Counted, w
<1>9. /\ run' \in RunType /\ run'.acc = run.acc /\ run'.sum = run.sum /\ run'.faithful = FALSE
      /\ run'.count = run.count + w /\ run'.loaded = run.loaded + 1 /\ run'.todo = Tail(run.todo)
  BY <1>1, <1>3, <1>7, <1>8 DEF RunType
<1>10. RunGood(run)'
  <2>1. Len(run.sum) = Len(run.acc)
    BY <1>1 DEF RunGood
  <2> QED
    BY <1>6, <1>7, <1>9, <2>1 DEF RunGood
<1> QED
  BY <1>9, <1>10 DEF CInv

\* A composition is given up, or is over without an image.
LEMMA BlankStep == ASSUME CInv, run' = Blank, UNCHANGED images PROVE CInv'
<1>1. Len(<<>>) = 0
  BY EmptySeq
<1>2. Blank.todo = <<>> /\ Blank.acc = <<>> /\ Blank.sum = <<>> /\ Blank.loaded = 0 /\ Blank.count = 0
  BY DEF Blank
<1>3. RunGood(run)'
  BY <1>1, <1>2 DEF RunGood
<1> QED
  BY <1>3, BlankGood DEF CInv

LEMMA SaveStep == ASSUME CInv, Save PROVE CInv'
<1>1. CASE run.acc = <<>>
  BY <1>1, BlankStep DEF Save
<1>2. CASE run.acc # <<>>
  <2>1. PICK px \in Saved(run.format, run.acc, run.count) :
          images' = Append(images, [px |-> px, weight |-> run.count, sum |-> run.sum,
                       levels |-> run.levels + 1,
                       faithful |-> run.faithful /\ run.format = "png"])
    BY <1>2 DEF Save
  <2> DEFINE im == [px |-> px, weight |-> run.count, sum |-> run.sum,
                    levels |-> run.levels + 1,
                    faithful |-> run.faithful /\ run.format = "png"]
             n == Len(run.acc)
  <2>2. /\ run.acc \in Seq(Nat) /\ run.sum \in Seq(Nat) /\ Len(run.sum) = n
        /\ run.levels \in Nat /\ run.faithful \in BOOLEAN
    BY DEF CInv, RunType, RunGood
  <2>3. run.count \in Nat \ {0} /\ run.loaded \in 1..run.count
    <3>1. run.count \in Nat /\ run.loaded \in Nat /\ run.loaded <= run.count /\ run.loaded # 0
      BY <1>2 DEF CInv, RunType, RunGood
    <3> QED
      BY <3>1
  <2>4. n \in Nat \ {0}
    BY <1>2, <2>2, EmptySeq
  <2>5. /\ px \in [1..n -> 0..Channel]
        /\ run.format = "png" => \A j \in 1..n : px[j] \in Bytes(run.acc[j], run.count)
    BY <2>1 DEF Saved
  <2>6. px \in Seq(0..Channel) /\ Len(px) = n
    BY <2>4, <2>5, FunctionIsList
  <2>7. im.px = px /\ im.sum = run.sum /\ im.weight = run.count /\ im.levels = run.levels + 1
        /\ im.faithful = (run.faithful /\ run.format = "png")
    OBVIOUS
  <2>8. im \in ImageType
    <3>1. run.levels + 1 \in Nat /\ (run.faithful /\ run.format = "png") \in BOOLEAN
      BY <2>2
    <3> QED
      BY <2>2, <2>3, <2>6, <3>1 DEF ImageType
  <2>9. images' = Append(images, im)
    BY <2>1
  <2> HIDE DEF im, n
  <2>10. ASSUME run.faithful, run.format = "png", NEW j \in 1..n
         PROVE  run.sum[j] - px[j] * run.count \in 0..((run.levels + 1) * (run.count - 1))
    <3>1. /\ run.acc[j] \in 0..(Channel * run.count)
          /\ run.sum[j] - run.acc[j] \in 0..(run.levels * (run.count - run.loaded))
      BY <2>10 DEF CInv, RunGood, n
    <3>2. run.acc[j] \in Nat /\ run.sum[j] \in Nat
      BY <2>2, <2>10, ElementOfSeq DEF n
    <3>3. px[j] = run.acc[j] \div run.count
      <4>1. run.acc[j] \in 0..(run.count * (Channel + 1) - 1)
        BY <2>3, <3>1, QuotientInRange
      <4>2. px[j] \in Bytes(run.acc[j], run.count) /\ run.count > 0
        BY <2>3, <2>5, <2>10
      <4> QED
        BY <4>1, <4>2 DEF Bytes
    <3>4. run.acc[j] - px[j] * run.count \in 0..(run.count - 1) /\ px[j] \in Nat
      BY <2>3, <3>2, <3>3, Division
    <3>5. (run.sum[j] - run.acc[j]) + (run.acc[j] - px[j] * run.count)
            \in 0..((run.levels + 1) * (run.count - 1))
      BY <2>2, <2>3, <3>1, <3>4, TruncationShortfall
    <3>6. px[j] * run.count \in Nat
      BY <2>3, <3>4, ProductIsNat
    <3>7. run.sum[j] - px[j] * run.count
            = (run.sum[j] - run.acc[j]) + (run.acc[j] - px[j] * run.count)
      BY <3>2, <3>6
    <3> QED
      BY <3>5, <3>7
  <2>11. ImageGood(im)
    <3>1. Len(im.sum) = Len(im.px) /\ Len(im.px) > 0 /\ Len(im.px) = n
      BY <2>2, <2>4, <2>6, <2>7
    <3>2. ASSUME im.faithful, NEW j \in 1..n
          PROVE  im.sum[j] - im.px[j] * im.weight \in 0..(im.levels * (im.weight - 1))
      <4>1. run.faithful /\ run.format = "png"
        BY <2>7, <3>2
      <4>2. run.sum[j] - px[j] * run.count \in 0..((run.levels + 1) * (run.count - 1))
        BY <2>10, <4>1
      <4> QED
        BY <2>7, <4>2
    <3> QED
      BY <3>1, <3>2 DEF ImageGood
  <2>12. /\ images' \in Seq(ImageType) /\ Len(images') = Len(images) + 1
         /\ \A i \in 1..Len(images') : ImageGood(images'[i])
    BY <2>8, <2>9, <2>11, ImageAppended
  <2>13. run' = Blank /\ Blank.todo = <<>> /\ Blank.acc = <<>> /\ Blank.sum = <<>>
         /\ Blank.loaded = 0 /\ Blank.count = 0 /\ Len(<<>>) = 0
    BY EmptySeq DEF Save, Blank
  <2>14. RunGood(run)'
    BY <2>13 DEF RunGood
  <2> QED
    BY <2>12, <2>13, <2>14, BlankGood DEF CInv
<1> QED
  BY <1>1, <1>2

-----------------------------------------------------------------------------
(* The theorems. *)

\* In every reachable state the images and the composition under way fall short
\* of the samples behind them by no more than CInv allows.
THEOREM CompositorInvariance == Spec => []CInv
<1>1. Init => CInv
  <2> SUFFICES ASSUME Init PROVE CInv
    OBVIOUS
  <2>1. images \in Seq(ImageType) /\ Len(images) = 0 /\ run = Blank
    BY EmptySeq DEF Init
  <2> QED
    BY <2>1, BlankGood DEF CInv
<1>2. CInv /\ [Next]_vars => CInv'
  <2> SUFFICES ASSUME CInv, [Next]_vars PROVE CInv'
    OBVIOUS
  <2>1. CASE Load
    <3>1. CASE run' = Blank
      BY <2>1, <3>1, BlankStep DEF Load
    <3>2. CASE /\ ~Overruns(run.program, images[Head(run.todo)].px,
                           Resized(run.acc, Len(images[Head(run.todo)].px)))
      BY <2>1, <3>2, LoadStep DEF Load
    <3>3. CASE /\ Overruns(run.program, images[Head(run.todo)].px,
                          Resized(run.acc, Len(images[Head(run.todo)].px)))
               /\ run' # Blank
      <4>1. run.acc # <<>>
        <5> DEFINE px == images[Head(run.todo)].px
        <5>1. px \in Seq(0..Channel)
          <6>1. run.todo \in Seq(Nat) /\ images \in Seq(ImageType) /\ run.todo # <<>>
            BY <2>1 DEF CInv, RunType, Load
          <6>2. /\ Len(run.todo) \in Nat \ {0} /\ Head(run.todo) = run.todo[1]
                /\ \A i \in 1..Len(run.todo) : run.todo[i] \in 1..Len(images)
            BY <6>1, EmptySeq DEF CInv, RunGood
          <6>3. Head(run.todo) \in 1..Len(images)
            BY <6>2
          <6>4. images[Head(run.todo)] \in ImageType
            BY <6>1, <6>3, ElementOfSeq
          <6> QED
            BY <6>4 DEF ImageType
        <5>2. Len(px) \in Nat
          BY <5>1, LenProperties
        <5> HIDE DEF px
        <5>3. ASSUME run.acc = <<>> PROVE Len(Resized(run.acc, Len(px))) = Len(px)
          BY <5>2, <5>3, ResizedProperties DEF CInv, RunType
        <5> QED
          BY <3>3, <5>2, <5>3 DEF Overruns, px
      <4> QED
        BY <2>1, <3>3, <4>1, OverrunStep DEF Load
    <3> QED
      BY <3>1, <3>2, <3>3
  <2>2. CASE LoadFails
    BY <2>2, BlankStep DEF LoadFails
  <2>3. CASE UNCHANGED vars
    <3>1. images' = images /\ run' = run
      BY <2>3 DEF vars
    <3> QED
      BY <3>1 DEF CInv, RunGood
  <2> QED
    BY <2>1, <2>2, <2>3, ProduceStep, StartStep, SaveStep DEF Next
<1> QED
  BY <1>1, <1>2, PTL DEF Spec

\* Channels stay in the range of their type, accumulated ones in the range that
\* the division brings back to it (compositor.cc:140-142, 261-278).
THEOREM ChannelsInRange == Spec => []TypeOK
<1>1. ASSUME CInv PROVE TypeOK
  <2>1. ASSUME NEW i \in 1..Len(images) PROVE IsImage(images[i])
    <3>1. images[i] \in ImageType /\ Len(images[i].px) > 0
      BY <1>1, ElementOfSeq DEF CInv, ImageGood
    <3>2. images[i].px \in Seq(0..Channel)
      BY <3>1 DEF ImageType
    <3>3. \A j \in 1..Len(images[i].px) : images[i].px[j] \in 0..Channel
      BY <3>2, ElementOfSeq
    <3> QED
      BY <3>1, <3>3 DEF IsImage, ImageType
  <2> QED
    BY <1>1, <2>1 DEF TypeOK, CInv, RunGood
<1> QED
  BY <1>1, CompositorInvariance, PTL

\* Through any tree of compositions a PNG is the average of its samples, darker
\* by less than one step of a channel for each level (compositor.cc:261-278).
THEOREM AveragesAreFair == Spec => []Accuracy
<1>1. ASSUME CInv PROVE Accuracy
  BY <1>1 DEF CInv, ImageGood, Accuracy
<1> QED
  BY <1>1, CompositorInvariance, PTL
=============================================================================
