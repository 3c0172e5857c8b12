----------------------------- MODULE DmaEngine -----------------------------
(* The state machine of DmaEngineRTL: it moves words between an external   *)
(* memory with beats of four words and a scratchpad with one-word accesses.*)
(* One action per handshake; the guard of each is the state in which its   *)
(* val or rdy output is high, and the caller gives the message.            *)
EXTENDS Integers

CONSTANTS
  DramAddrMod,  \* byte addresses of the external memory wrap here
  SpmAddrMod,   \* word addresses of the scratchpad wrap here
  BytesMod,     \* byte and word counts wrap here
  Zero          \* the word of all zeros

WordBytes == 4  \* bytes of a scratchpad word
Lanes == 4      \* words of a beat
BeatBytes == Lanes * WordBytes

VARIABLES
  state,
  opcode, dram_addr, spm_addr, tag,
  words_left,
  beat,      \* the beat being unpacked or packed, lane by lane
  word_idx,  \* the lane to read or fill next
  wr_mask    \* the lanes a write to the external memory touches

regVars == <<opcode, dram_addr, spm_addr, tag>>
engineVars == <<state, regVars, words_left, beat, word_idx, wr_mask>>

EmptyBeat == [l \in 0 .. Lanes - 1 |-> Zero]

EngineReset ==
  /\ state = "IDLE"
  /\ opcode = "MVIN" /\ dram_addr = 0 /\ spm_addr = 0 /\ tag = 0
  /\ words_left = 0
  /\ beat = EmptyBeat /\ word_idx = 0 /\ wr_mask = {}

(* dma_cmd handshake.  The size is cut to whole words.                     *)
RecvCommand(cmd) ==
  /\ state = "IDLE"
  /\ opcode' = cmd.op /\ dram_addr' = cmd.dram_addr /\ spm_addr' = cmd.spm_addr
  /\ tag' = cmd.tag
  /\ words_left' = cmd.nbytes \div WordBytes
  /\ beat' = EmptyBeat /\ word_idx' = 0 /\ wr_mask' = {}
  /\ state' = IF cmd.nbytes = 0 THEN "DONE"
              ELSE IF cmd.op = "MVIN" THEN "MVIN_REQ" ELSE "MVOUT_READ"

NextBeatAddr == dram_addr' = (dram_addr + BeatBytes) % DramAddrMod

SendDramRead ==
  /\ state = "MVIN_REQ"
  /\ NextBeatAddr
  /\ state' = "MVIN_RESP"
  /\ UNCHANGED <<opcode, spm_addr, tag, words_left, beat, word_idx, wr_mask>>

RecvDramRead(msg) ==
  /\ state = "MVIN_RESP"
  /\ beat' = msg /\ word_idx' = 0
  /\ state' = "MVIN_WRITE"
  /\ UNCHANGED <<regVars, words_left, wr_mask>>

(* One scratchpad word is done: the address and the count move on.         *)
NextWord ==
  /\ spm_addr' = (spm_addr + 1) % SpmAddrMod
  /\ words_left' = (words_left - 1) % BytesMod

SendSpmWrite ==
  /\ state = "MVIN_WRITE"
  /\ NextWord
  /\ \/ words_left = 1 /\ state' = "DONE" /\ UNCHANGED word_idx
     \/ words_left # 1 /\ word_idx = 3 /\ state' = "MVIN_REQ" /\ word_idx' = 0
     \/ words_left # 1 /\ word_idx # 3 /\ word_idx' = word_idx + 1 /\ UNCHANGED state
  /\ UNCHANGED <<opcode, dram_addr, tag, beat, wr_mask>>

SendSpmRead ==
  /\ state = "MVOUT_READ"
  /\ state' = "MVOUT_RESP"
  /\ UNCHANGED <<regVars, words_left, beat, word_idx, wr_mask>>

Bug_full_mask(word) ==
  /\ state = "MVOUT_RESP"
  /\ beat' = [beat EXCEPT ![word_idx] = word]
  /\ NextWord
  /\ \/ /\ words_left = 1 \/ word_idx = 3
        /\ wr_mask' = 0 .. Lanes - 1
        /\ state' = "MVOUT_WRITE"
        /\ UNCHANGED word_idx
     \/ /\ words_left # 1 /\ word_idx # 3
        /\ word_idx' = word_idx + 1
        /\ state' = "MVOUT_READ"
        /\ UNCHANGED wr_mask
  /\ UNCHANGED <<opcode, dram_addr, tag>>

(* The word enters its lane; the mask is set when the beat is full or the  *)
(* transfer has no more words, to the lanes filled.                        *)
RecvSpmRead(word) ==
  /\ state = "MVOUT_RESP"
  /\ beat' = [beat EXCEPT ![word_idx] = word]
  /\ NextWord
  /\ \/ /\ words_left = 1 \/ word_idx = 3
        /\ wr_mask' = 0 .. word_idx
        /\ state' = "MVOUT_WRITE"
        /\ UNCHANGED word_idx
     \/ /\ words_left # 1 /\ word_idx # 3
        /\ word_idx' = word_idx + 1
        /\ state' = "MVOUT_READ"
        /\ UNCHANGED wr_mask
  /\ UNCHANGED <<opcode, dram_addr, tag>>

SendDramWrite ==
  /\ state = "MVOUT_WRITE"
  /\ state' = "MVOUT_WAIT"
  /\ UNCHANGED <<regVars, words_left, beat, word_idx, wr_mask>>

RecvDramWrite ==
  /\ state = "MVOUT_WAIT"
  /\ NextBeatAddr
  /\ beat' = EmptyBeat /\ word_idx' = 0 /\ wr_mask' = {}
  /\ state' = IF words_left = 0 THEN "DONE" ELSE "MVOUT_READ"
  /\ UNCHANGED <<opcode, spm_addr, tag, words_left>>

SendDone ==
  /\ state = "DONE"
  /\ state' = "IDLE"
  /\ UNCHANGED <<regVars, words_left, beat, word_idx, wr_mask>>
=============================================================================
