---------------------------- MODULE HeaderChain ----------------------------
(***************************************************************************)
(* The rules of time and difficulty: difficulty.go, the median time of     *)
(* blockchain.go, the header checks of blockvalidator.go and the header    *)
(* that GenerateBlock of pow.go puts into a template.                      *)
(*                                                                         *)
(* The state is one branch of block nodes, of which only timestamp and     *)
(* bits matter, with the field MedianTimePast of the block chain and the   *)
(* clock.  A number is written with digits of base Base (a byte in the     *)
(* code, 256), so that small numbers reach every case of the compact form. *)
(* The hash of a header is below its target: headers that lack the work    *)
(* are refused and leave the state alone.                                  *)
(***************************************************************************)
EXTENDS Integers, Sequences, FiniteSets, SequencesExt

CONSTANTS
  Base,                  \* 256
  TimeRange,             \* 2^32, the range of a timestamp
  PowLimit, PowLimitBits, GenesisBits,
  targetTimespan, targetTimePerBlock, AdjustmentFactor,
  medianTimeBlocks,      \* 11
  MaxTimeOffsetSeconds,  \* 7200
  GenesisTime,
  MaxHeight, MaxNow      \* bounds of the branch and of the clock

ASSUME HeaderAssumption ==
  /\ Base > 1 /\ Base % 2 = 0 /\ medianTimeBlocks \in Nat \ {0} /\ GenesisTime \in Nat
  /\ targetTimespan >= targetTimePerBlock /\ targetTimePerBlock > 0
  /\ AdjustmentFactor > 0 /\ MaxTimeOffsetSeconds \in Nat
  /\ 0 < GenesisTime /\ GenesisTime < MaxNow
  /\ MaxNow + MaxTimeOffsetSeconds < TimeRange

VARIABLES
  branch,          \* the nodes from the genesis block to the tip
  MedianTimePast,  \* the cached median, 0 when it was never set
  now              \* AdjustedTime: no peer's time sample is ever added

headerVars == <<branch, MedianTimePast, now>>

TipHeight(nodes) == Len(nodes) - 1
At(nodes, height) == nodes[height + 1]

-----------------------------------------------------------------------------
(* The compact form of a target.                                           *)

SignBit == (Base * Base * Base) \div 2
ByteLen[n \in Nat] == IF n = 0 THEN 0 ELSE 1 + ByteLen[n \div Base]

CompactToBig(compact) ==
  LET exponent == compact \div (2 * SignBit)
      mantissa == compact % SignBit
      n == IF exponent <= 3 THEN mantissa \div Base ^ (3 - exponent)
                            ELSE mantissa * Base ^ (exponent - 3)
  IN  IF (compact \div SignBit) % 2 = 1 THEN -n ELSE n

\* Of a target, which is not negative.
BigToCompact(n) ==
  LET exponent == ByteLen[n]
      mantissa == IF exponent <= 3 THEN n * Base ^ (3 - exponent)
                                   ELSE n \div Base ^ (exponent - 3)
  IN  CASE n = 0 -> 0
        [] n > 0 /\ mantissa >= SignBit -> (exponent + 1) * 2 * SignBit + mantissa \div Base
        [] OTHER -> exponent * 2 * SignBit + mantissa

-----------------------------------------------------------------------------
(* The required difficulty.                                                *)

blocksPerRetarget == targetTimespan \div targetTimePerBlock
minRetargetTimespan == targetTimespan \div AdjustmentFactor
maxRetargetTimespan == targetTimespan * AdjustmentFactor

\* Mutant: a period that was too long is not limited.
LimitedBelow(timespan) == IF timespan < minRetargetTimespan THEN minRetargetTimespan ELSE timespan

AdjustedTimespan(timespan) ==
  IF timespan < minRetargetTimespan THEN minRetargetTimespan
  ELSE IF timespan > maxRetargetTimespan THEN maxRetargetTimespan
  ELSE timespan

\* The difference of two uint32: a last block stamped before the first one
\* makes the longest of periods.
ActualTimespan(last, first) == (last.timestamp - first.timestamp) % TimeRange

NewTarget(nodes) ==
  LET first == At(nodes, TipHeight(nodes) - blocksPerRetarget + 1)
      target == (CompactToBig(Last(nodes).bits)
                   * AdjustedTimespan(ActualTimespan(Last(nodes), first))) \div targetTimespan
  IN  IF target > PowLimit THEN PowLimit ELSE target

\* On MainNet and TestNet; RegNet always answers PowLimitBits.
CalcNextRequiredDifficulty(nodes) ==
  CASE TipHeight(nodes) = 0 -> PowLimitBits
    [] TipHeight(nodes) > 0 /\ (TipHeight(nodes) + 1) % blocksPerRetarget # 0 -> Last(nodes).bits
    [] OTHER -> BigToCompact(NewTarget(nodes))

-----------------------------------------------------------------------------
(* Time.                                                                   *)

LastTimestamps(nodes) ==
  LET first == IF Len(nodes) > medianTimeBlocks THEN Len(nodes) - medianTimeBlocks + 1 ELSE 1
  IN  [i \in 1 .. Len(nodes) - first + 1 |-> nodes[first + i - 1].timestamp]

\* Mutant: the timestamps are taken in the order of the chain.
PastMedianUnsorted(nodes) ==
  LET timestamps == LastTimestamps(nodes)
  IN  timestamps[Len(timestamps) \div 2 + 1]

Before(timestamps, t) == {i \in DOMAIN timestamps : timestamps[i] < t}
UpTo(timestamps, t) == {i \in DOMAIN timestamps : timestamps[i] <= t}

\* What is at place k when they are sorted: fewer than k of them are less than it,
\* and at least k are not greater.
SortedAt(timestamps, k) ==
  CHOOSE t \in Range(timestamps) :
    Cardinality(Before(timestamps, t)) < k /\ Cardinality(UpTo(timestamps, t)) >= k

CalcPastMedianTime(nodes) ==
  LET timestamps == LastTimestamps(nodes)
  IN  SortedAt(timestamps, Len(timestamps) \div 2 + 1)

\* Mutant: a template may carry the median time itself.
MedianAdjustedTimeNotAfter == IF now < MedianTimePast THEN MedianTimePast ELSE now

MedianAdjustedTime == IF now < MedianTimePast + 1 THEN MedianTimePast + 1 ELSE now

-----------------------------------------------------------------------------
(* The checks.                                                             *)

CheckProofOfWork(header) ==
  CompactToBig(header.bits) > 0 /\ CompactToBig(header.bits) <= PowLimit

PowCheckBlockSanity(header, time) ==
  CheckProofOfWork(header) /\ header.timestamp <= time + MaxTimeOffsetSeconds

PowCheckBlockContext(header, nodes) ==
  /\ header.bits = CalcNextRequiredDifficulty(nodes)
  /\ header.timestamp > CalcPastMedianTime(nodes)

Accepted(header, nodes, time) ==
  PowCheckBlockSanity(header, time) /\ PowCheckBlockContext(header, nodes)

GenerateBlock ==
  [timestamp |-> MedianAdjustedTime, bits |-> CalcNextRequiredDifficulty(branch)]

-----------------------------------------------------------------------------
HeaderInit ==
  /\ branch = <<[timestamp |-> GenesisTime, bits |-> GenesisBits]>>
  /\ MedianTimePast = 0
  /\ now = GenesisTime + 1

Tick ==
  /\ now < MaxNow
  /\ now' = now + 1
  /\ UNCHANGED <<branch, MedianTimePast>>

\* ProcessBlock of a block that extends the branch, up to ConnectBlock.
ConnectHeader(header) ==
  /\ TipHeight(branch) < MaxHeight
  /\ Accepted(header, branch, now)
  /\ branch' = Append(branch, header)
  /\ MedianTimePast' = CalcPastMedianTime(branch')
  /\ UNCHANGED now

\* InitWithGenesisBlock loads the nodes again and leaves MedianTimePast zero.
RestartNode ==
  /\ MedianTimePast # 0
  /\ MedianTimePast' = 0
  /\ UNCHANGED <<branch, now>>

Timestamps == 0 .. MaxNow + MaxTimeOffsetSeconds
Bits == {PowLimitBits, CalcNextRequiredDifficulty(branch)}

HeaderNext ==
  \/ Tick
  \/ \E t \in Timestamps, bits \in Bits : ConnectHeader([timestamp |-> t, bits |-> bits])
  \/ RestartNode

-----------------------------------------------------------------------------
(* Properties.                                                             *)

\* The median time of the branch never falls when a block is connected, however
\* the miners choose their timestamps: what was too old stays too old.
MedianNeverFalls ==
  [][CalcPastMedianTime(branch') >= CalcPastMedianTime(branch)]_headerVars

\* The node accepts its own template, a second later at most: the bits it computes
\* are a target that CheckProofOfWork takes, and its time is after the median and
\* not too far ahead.  The exception is a node that has just started, whose
\* template says now whatever the median: it has to wait for its clock.
TemplateAccepted ==
  \/ Accepted(GenerateBlock, branch, now + 1)
  \/ MedianTimePast = 0 /\ now <= CalcPastMedianTime(branch)

Target(height) == CompactToBig(At(branch, height).bits)
Ulp(n) == Base ^ (IF ByteLen[n] > 2 THEN ByteLen[n] - 2 ELSE 0)

\* From the second block on, no block asks for a target more than AdjustmentFactor
\* times that of the block before it, nor for less than that part of it (up to what
\* the compact form drops), even when the period's timestamps run backwards.
RetargetBounded ==
  \A height \in 2 .. TipHeight(branch) :
    /\ Target(height) <= AdjustmentFactor * Target(height - 1)
    /\ AdjustmentFactor * (Target(height) + Ulp(Target(height))) >= Target(height - 1)
=============================================================================
