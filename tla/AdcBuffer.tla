----------------------------- MODULE AdcBuffer -----------------------------
(***************************************************************************)
(* generateADCBuffer of Other.ino: setup() asks for the sample ring in a   *)
(* loop that divides the free heap by a growing char.  setup() does not    *)
(* yield here, so nobody else allocates or frees; whether malloc succeeds  *)
(* depends on the size asked for and on the holes the heap consists of.    *)
(***************************************************************************)
EXTENDS Integers, Sequences

CONSTANTS
  HeapShapes,   \* the holes of the heap at setup(), as sequences of Kinds
  BufferCap     \* the largest value of the char iABufferSize

\* Holes of the same size, and how many there are.
Kinds == [size : Nat, count : Nat]

ASSUME AdcAssumption ==
  /\ BufferCap \in Nat \ {0}
  /\ \A shape \in HeapShapes : shape \in Seq(Kinds)

VARIABLES
  holes,          \* the free blocks of the heap
  cMultiplier, cABuffer, iABufferSize,
  allocating      \* the loop has not ended

adcVars == <<holes, cMultiplier, cABuffer, iABufferSize, allocating>>

NoBuffer == -1    \* NULL; otherwise cABuffer is the size of its block
-----------------------------------------------------------------------------
\* ESP.getFreeHeap() is the sum of the holes; malloc carves a block out of any
\* hole that is large enough and fails when there is none.  What malloc(0)
\* returns is up to the SDK.
Total(numbers) ==
  LET first[n \in 0 .. Len(numbers)] == IF n = 0 THEN 0 ELSE first[n - 1] + numbers[n]
  IN  first[Len(numbers)]

Free(kinds) == Total([k \in DOMAIN kinds |-> kinds[k].size * kinds[k].count])

getFreeHeap == Free(holes)

Fits(size) == {k \in DOMAIN holes : holes[k].count > 0 /\ holes[k].size >= size}

malloc(size) ==
  \/ /\ size > 0 => Fits(size) = {}
     /\ cABuffer' = NoBuffer
     /\ UNCHANGED holes
  \/ \E k \in Fits(size) :
       /\ holes' = Append([holes EXCEPT ![k].count = @ - 1],
                          [size |-> holes[k].size - size, count |-> 1])
       /\ cABuffer' = size

\* Mutant: the multiplier starts at a multiple of four and reaches zero.
FirstMultiplierRound == 20
FirstMultiplier == 10

Stride == 20

\* Mutant: the whole heap is asked for.
BufferSizeWhole(free, divisor) == IF free > BufferCap THEN BufferCap ELSE free
BufferSize(free, divisor) ==
  IF free \div divisor > BufferCap THEN BufferCap ELSE free \div divisor

\* Mutant: the buffer is asked for twice as large as what is recorded.
clear_allocHalf(size) == malloc(size \div 2)
\* clear_alloc(iABufferSize, 1): the product is taken in a char and stays below
\* its range, since iABufferSize is a char itself.
clear_alloc(size) == malloc(size)

AdcInit ==
  /\ holes \in HeapShapes
  /\ cMultiplier = FirstMultiplier
  /\ cABuffer = NoBuffer
  /\ iABufferSize = 0
  /\ allocating = TRUE

\* The condition of the while: the block of an iteration whose next multiplier
\* is still below 100 is dropped.
Repeats(buffer, multiplier) == buffer = NoBuffer \/ multiplier < 100

tryBuffer ==
  /\ allocating
  /\ LET size == BufferSize(getFreeHeap, cMultiplier)
     IN  iABufferSize' = size /\ clear_alloc(size)
  /\ cMultiplier' = (cMultiplier + Stride) % 256
  /\ allocating' = Repeats(cABuffer', cMultiplier')

AdcNext == tryBuffer

AdcSpec == AdcInit /\ [][AdcNext]_adcVars /\ WF_adcVars(tryBuffer)
-----------------------------------------------------------------------------
\* ESP.getFreeHeap()/cMultiplier never divides by zero, although the char is
\* increased by 20 and wraps as long as malloc fails.
DivisorNeverZero == cMultiplier # 0

\* When generateADCBuffer returns, iABufferSize, which addADCValueToBuffer and
\* values.json trust, is the length of the block.
SizeIsBlock == ~allocating => cABuffer = iABufferSize

\* And there is a slot 0, which addADCValueToBuffer writes without a test.  The
\* code does not say how much of the heap it needs for that; a tenth of it must
\* be more than nothing.
BufferIsWhole == SizeIsBlock /\ (~allocating => iABufferSize >= 1)

\* Heaps of which that is true at each round; setup() finds tens of thousands of
\* bytes.
HeapsAreLarge == \A shape \in HeapShapes : Free(shape) >= 400

\* generateADCBuffer returns although a char counts its rounds and a success in
\* a round below 100 does not end it.
BufferIsFound == <>~allocating
=============================================================================
