------------------------------ MODULE Compositor ------------------------------
(***************************************************************************)
(* How images are averaged: the program a reducer starts                   *)
(* (compositor/compositor.cc, called by lib/reducers/compositor.js with    *)
(* --weight) and Compose of the C++ worker (experimental/worker.cc), the   *)
(* same loop with the bound on the other side.  Compositions compose: the  *)
(* result of one, truncated to bytes, is an input of the next.             *)
(*                                                                         *)
(* An image is its channel values in order; each carries, as history, the  *)
(* exact weighted sum of the samples it stands for (sum) and the number of *)
(* compositions it went through (levels).  Doubles are exact here: the     *)
(* sums are integers, and a quotient of such integers is not rounded past  *)
(* the next integer.                                                       *)
(***************************************************************************)
EXTENDS Integers, Sequences, FiniteSets

CONSTANTS
  Programs,     \* "compositor", "Compose"
  Formats,      \* the sessions' formats: "png", "jpg", "exr"
  Sizes,        \* lengths of the images that are made
  Channel,      \* the greatest channel value (255: unsigned char)
  Values,       \* channel values of the images producers make
  MaxSamples,   \* bound on the images producers make
  MaxComposed,  \* bound on the compositions
  MaxInputs     \* bound on the images of one composition

ASSUME ProgramsKnown == Programs \subseteq {"compositor", "Compose"}
ASSUME FormatsKnown == Formats \subseteq {"png", "jpg", "exr"}
ASSUME SizesPositive == Sizes \subseteq Nat \ {0}
ASSUME ValuesAreChannels == Channel \in Nat /\ Values \subseteq 0..Channel
ASSUME ImagesBound == MaxSamples \in Nat /\ MaxComposed \in Nat /\ MaxInputs \in Nat

VARIABLES
  images,   \* the image files, in the order they were made
  run       \* the composition under way

vars == <<images, run>>

\* Nothing has been loaded.
Blank == [pc |-> "idle", program |-> "compositor", format |-> "png", todo |-> <<>>,
          acc |-> <<>>, count |-> 0, sum |-> <<>>, levels |-> 0, loaded |-> 0,
          faithful |-> TRUE]

\* How many of the images are producers'.
Samples == Cardinality({i \in 1..Len(images) : images[i].levels = 0})

Init == images = <<>> /\ run = Blank

-----------------------------------------------------------------------------
(* A producer's image: one sample, weight 1. *)

Produce ==
  \E n \in Sizes : \E px \in [1..n -> Values] :
    /\ Samples < MaxSamples
    /\ images' = Append(images, [px |-> px, weight |-> 1, sum |-> px,
                                 levels |-> 0, faithful |-> TRUE])
    /\ UNCHANGED run

\* A reducer starts the program with the images it could retrieve, if any; Compose
\* only reads and writes PNG.
Start ==
  \E program \in Programs, format \in Formats, n \in 0..MaxInputs :
    \E todo \in [1..n -> 1..Len(images)] :
      /\ run.pc = "idle" /\ Len(images) - Samples < MaxComposed
      /\ \A i, j \in 1..n : i # j => todo[i] # todo[j]
      /\ IF program = "Compose" THEN format = "png" ELSE n > 0
      /\ run' = [Blank EXCEPT !.pc = "load", !.program = program,
                              !.format = format, !.todo = todo]
      /\ UNCHANGED images

\* A file that is no image, or not there: exit 1, or INTERNAL, and no output.
LoadFails ==
  /\ run.pc = "load" /\ run.todo # <<>>
  /\ run' = Blank /\ UNCHANGED images

-----------------------------------------------------------------------------
(* The loop. *)

\* accumulated.resize(): zeros, when nothing has been accumulated.
Resized(acc, n) == IF acc = <<>> THEN [j \in 1..n |-> 0] ELSE acc

\* compositor.cc goes through the image, Compose through what is accumulated:
\* whichever is shorter is read or written past its end.
Overruns(program, image, acc) ==
  IF program = "compositor" THEN Len(image) > Len(acc) ELSE Len(acc) > Len(image)

\* accumulated[j] += image[j] * weight
Accumulated_Unweighted(acc, image, weight) ==                  \* mutant
  [j \in 1..Len(acc) |-> IF j <= Len(image) THEN acc[j] + image[j] ELSE acc[j]]
Accumulated(acc, image, weight) ==
  [j \in 1..Len(acc) |-> IF j <= Len(image) THEN acc[j] + image[j] * weight ELSE acc[j]]

\* The samples of both.
Together(sum, more) ==
  [j \in 1..Len(sum) |-> IF j <= Len(more) THEN sum[j] + more[j] ELSE sum[j]]

\* count += input_weights[i]; ++count is for calls without --weight.
Counted_Files(count, weight) == count + 1                      \* mutant
Counted(count, weight) == count + weight

Larger(m, n) == IF m >= n THEN m ELSE n

Load ==
  LET image == images[Head(run.todo)]
      acc == Resized(run.acc, Len(image.px))
      sum == Resized(run.sum, Len(image.px))
  IN /\ run.pc = "load" /\ run.todo # <<>> /\ UNCHANGED images
     /\ \/ /\ ~Overruns(run.program, image.px, acc)
           /\ run' = [run EXCEPT
                !.acc = Accumulated(acc, image.px, image.weight),
                !.count = Counted(run.count, image.weight),
                !.sum = Together(sum, image.sum),
                !.levels = Larger(run.levels, image.levels),
                !.loaded = run.loaded + 1,
                !.faithful = run.faithful /\ image.faithful /\ Len(image.px) = Len(acc),
                !.todo = Tail(run.todo)]
        \/ \* undefined behaviour: a crash, or the loop goes on over other memory
           /\ Overruns(run.program, image.px, acc)
           /\ run' \in {Blank, [run EXCEPT !.faithful = FALSE,
                                           !.count = Counted(run.count, image.weight),
                                           !.loaded = run.loaded + 1,
                                           !.todo = Tail(run.todo)]}

-----------------------------------------------------------------------------
(* The output. *)

\* output_image[i] = accumulated[i] / count, truncated to a byte; a value a byte
\* cannot hold, or a division by zero, is undefined.
Bytes(sum, count) ==
  IF count > 0 /\ sum \in 0..(count * (Channel + 1) - 1) THEN {sum \div count} ELSE 0..Channel

\* PNG keeps the bytes.  JPEG does not, and SaveExr hands over the addresses of
\* its vectors instead of their elements: what such a file holds is not modelled
\* (zeros stand for it), nor is what follows from it.
Saved(format, acc, count) ==
  {px \in [1..Len(acc) -> 0..Channel] :
     \A j \in 1..Len(acc) : IF format = "png" THEN px[j] \in Bytes(acc[j], count)
                                             ELSE px[j] = 0}

\* The file, and the weight the worker reports for it; no pixels, no file.
Save ==
  /\ run.pc = "load" /\ run.todo = <<>>
  /\ IF run.acc = <<>> THEN UNCHANGED images
     ELSE \E px \in Saved(run.format, run.acc, run.count) :
            images' = Append(images, [px |-> px, weight |-> run.count, sum |-> run.sum,
                       levels |-> run.levels + 1,
                       faithful |-> run.faithful /\ run.format = "png"])
  /\ run' = Blank

Next == Produce \/ Start \/ LoadFails \/ Load \/ Save

Spec == Init /\ [][Next]_vars

-----------------------------------------------------------------------------
(* Properties. *)

IsImage(im) ==
  /\ Len(im.px) > 0 /\ \A j \in 1..Len(im.px) : im.px[j] \in 0..Channel
  /\ im.weight \in Nat \ {0} /\ im.levels \in Nat /\ im.faithful \in BOOLEAN

\* Every image that was written has its channels in range and a positive weight;
\* what is accumulated of images of one size never leaves the range a byte can
\* hold after the division, so that the conversion in SavePng is defined.
TypeOK ==
  /\ \A i \in 1..Len(images) : IsImage(images[i])
  /\ run.faithful => \A j \in 1..Len(run.acc) : run.acc[j] \in 0..(Channel * run.count)

\* A PNG composed of PNGs of one size is the average of all the samples behind
\* it, each with the same weight whatever tree of compositions it came through,
\* except for truncation: it is darker by less than one step of a channel for
\* each level of the tree (compositor.cc:261-278, 140-142; worker.cc:316-323).
Accuracy ==
  \A i \in 1..Len(images) :
    LET im == images[i] IN
    im.faithful =>
      /\ Len(im.sum) = Len(im.px)
      /\ \A j \in 1..Len(im.px) :
           im.sum[j] - im.px[j] * im.weight \in 0..(im.levels * (im.weight - 1))
=============================================================================
