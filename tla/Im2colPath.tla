----------------------------- MODULE Im2colPath -----------------------------
(***************************************************************************)
(* The im2col engine (fu/others/Im2colEngineRTL.py) behind the controller  *)
(* of its CGRA (cgra/IntegratedIm2ColWithCgraRTL.py).  The CPU configures  *)
(* and launches it with packets; the engine lowers the image in its        *)
(* scratchpad to a matrix of columns and stores that in the data memory    *)
(* through the controller.  The packets the CPU sends behind the launch    *)
(* configure and launch tiles that work on the matrix; a gate holds them   *)
(* back while the engine is active.                                        *)
(*                                                                         *)
(* One action is one handshake or one step of the state machine.  The NoC  *)
(* of a single CGRA is a bypass queue from the controller to itself; what  *)
(* the controller's crossbar buffers in front of it is not told apart.     *)
(***************************************************************************)
EXTENDS Integers, Sequences, FiniteSets

CONSTANTS
  Shapes,      (* geometries: H, W, kH, kW, log2_stride, dst_sram_base     *)
  ScratchMod,  (* words of the engine's scratchpad                         *)
  DataAddrMod, (* words of the data memory                                 *)
  ChannelSize, (* packets in a channel of the controller                   *)
  Early, Late  (* tile packets before and behind the launch                *)

QueueSize == 2 (* NormalQueueRTL's default                                 *)

VARIABLES
  shape,               (* what the CPU wants (history)                     *)
  packets,             (* the packets it has yet to send                   *)
  engine_active,       (* the gate is closed                               *)
  cpu_queue,           (* recv_from_cpu_pkt_queue                          *)
  config_regs,         (* cfg_H, ... of the engine                         *)
  engine,              (* state, loop counters, emit_idx, data_reg         *)
  im2col_queue,        (* recv_from_im2col_pkt_queue                       *)
  bypass_queue,        (* the NoC                                          *)
  store_queue,         (* send_to_mem_store_request_queue                  *)
  stored,              (* the writes of the data memory, in order          *)
  at_tiles             (* the packets on the ctrl ring, in order           *)

cpu_side == <<shape, packets, engine_active, cpu_queue>>
engine_side == <<config_regs, engine>>
vars == <<cpu_side, engine_side, im2col_queue, bypass_queue, store_queue, stored, at_tiles>>

Geometry == {"H", "W", "kH", "kW", "log2_stride", "dst_sram_base"}
Order == <<"H", "W", "kH", "kW", "log2_stride", "dst_sram_base">>

(* All words of the image differ.                                          *)
in_mem(a) == 100 + a

Configure(s) == [i \in 1 .. Len(Order) |-> [cmd |-> Order[i], n |-> s[Order[i]]]]
Tiles(first, n, behind) ==
  [i \in 1 .. n |-> [cmd |-> "TILE", id |-> first + i, late |-> behind]]

Program(s) == Tiles(0, Early, FALSE) \o Configure(s) \o <<[cmd |-> "LAUNCH"]>>
                \o Tiles(Early, Late, TRUE)
-----------------------------------------------------------------------------
(* comb_in_addr, and the matrix the loops walk, in the scratchpad's width. *)

in_row == engine.oy * 2^config_regs.log2_stride + engine.ky
in_col == engine.ox * 2^config_regs.log2_stride + engine.kx
in_addr == (in_row * config_regs.W + in_col) % ScratchMod

Positions(size, kernel) ==
  (((config_regs[size] - config_regs[kernel]) % ScratchMod)
      \div (2^config_regs.log2_stride) + 1) % ScratchMod

more(index, bound) == (index + 1) % ScratchMod < bound

Bug_ReleaseGate ==                       \* opens when the engine is idle again
  /\ engine_active /\ engine.state = "IDLE"
  /\ engine_active' = FALSE
  /\ UNCHANGED <<shape, packets, cpu_queue, engine_side, im2col_queue, bypass_queue, store_queue,
                 stored, at_tiles>>

Bug_Advance ==
  IF more(engine.ox, engine.Wout)      THEN [engine EXCEPT !.ox = @ + 1]
  ELSE IF more(engine.oy, engine.Hout) THEN [engine EXCEPT !.ox = 0, !.oy = @ + 1]
  ELSE IF more(engine.kx, config_regs.kW)
                                       THEN [engine EXCEPT !.ox = 0, !.oy = 0, !.kx = @ + 1]
  ELSE IF more(engine.ky, config_regs.kH)     \* kx goes on where it was
                                       THEN [engine EXCEPT !.ox = 0, !.oy = 0, !.ky = @ + 1]
  ELSE [engine EXCEPT !.state = "DONE"]

(* The nested loops after a store: ox innermost, then oy, kx, ky.          *)
Advance ==
  IF more(engine.ox, engine.Wout)      THEN [engine EXCEPT !.ox = @ + 1]
  ELSE IF more(engine.oy, engine.Hout) THEN [engine EXCEPT !.ox = 0, !.oy = @ + 1]
  ELSE IF more(engine.kx, config_regs.kW)
                                       THEN [engine EXCEPT !.ox = 0, !.oy = 0, !.kx = @ + 1]
  ELSE IF more(engine.ky, config_regs.kH)
                                THEN [engine EXCEPT !.ox = 0, !.oy = 0, !.kx = 0, !.ky = @ + 1]
  ELSE [engine EXCEPT !.state = "DONE"]
-----------------------------------------------------------------------------
Reset ==
  /\ engine_active = FALSE
  /\ cpu_queue = <<>>
  /\ config_regs = [g \in Geometry |-> 0]
  /\ engine = [state |-> "IDLE", ox |-> 0, oy |-> 0, kx |-> 0, ky |-> 0, Hout |-> 0, Wout |-> 0,
               emit_idx |-> 0, data_reg |-> 0]
  /\ im2col_queue = <<>> /\ bypass_queue = <<>> /\ store_queue = <<>>
  /\ stored = <<>> /\ at_tiles = <<>>

Init == shape \in Shapes /\ packets = Program(shape) /\ Reset

Bug_gate_cpu_stream == Len(cpu_queue) < QueueSize
gate_cpu_stream == ~engine_active /\ Len(cpu_queue) < QueueSize

SendCpu ==
  /\ packets # <<>> /\ gate_cpu_stream
  /\ cpu_queue' = Append(cpu_queue, Head(packets))
  /\ packets' = Tail(packets)
  /\ UNCHANGED <<shape, engine_active, engine_side, im2col_queue, bypass_queue, store_queue,
                 stored, at_tiles>>

(* The controller forks the engine's packets to it; the engine takes them  *)
(* while it is idle.                                                       *)
RecvConfig ==
  /\ cpu_queue # <<>> /\ Head(cpu_queue).cmd \in Geometry
  /\ engine.state = "IDLE"
  /\ config_regs' = [config_regs EXCEPT ![Head(cpu_queue).cmd] =
       Head(cpu_queue).n % (IF Head(cpu_queue).cmd = "dst_sram_base" THEN DataAddrMod
                                                                      ELSE ScratchMod)]
  /\ cpu_queue' = Tail(cpu_queue)
  /\ UNCHANGED <<shape, packets, engine_active, engine, im2col_queue, bypass_queue, store_queue,
                 stored, at_tiles>>

RecvLaunch ==
  /\ cpu_queue # <<>> /\ Head(cpu_queue).cmd = "LAUNCH"
  /\ engine.state = "IDLE"
  /\ engine' = [engine EXCEPT
       !.state = "READ", !.ox = 0, !.oy = 0, !.kx = 0, !.ky = 0, !.emit_idx = 0,
       !.Hout = Positions("H", "kH"), !.Wout = Positions("W", "kW")]
  /\ cpu_queue' = Tail(cpu_queue)
  /\ engine_active' = TRUE
  /\ UNCHANGED <<shape, packets, config_regs, im2col_queue, bypass_queue, store_queue, stored,
                 at_tiles>>

ReadImage ==
  /\ engine.state = "READ"
  /\ engine' = [engine EXCEPT !.state = "EMIT", !.data_reg = in_mem(in_addr)]
  /\ UNCHANGED <<cpu_side, config_regs, im2col_queue, bypass_queue, store_queue, stored, at_tiles>>

Store == [cmd |-> "STORE_REQUEST", data |-> engine.data_reg,
          addr |-> (config_regs.dst_sram_base + engine.emit_idx) % DataAddrMod]

SendStore ==
  /\ engine.state = "EMIT" /\ Len(im2col_queue) < ChannelSize
  /\ im2col_queue' = Append(im2col_queue, Store)
  /\ engine' = [Advance EXCEPT !.state = IF @ = "EMIT" THEN "READ" ELSE @,
                               !.emit_idx = (@ + 1) % DataAddrMod]
  /\ UNCHANGED <<cpu_side, config_regs, bypass_queue, store_queue, stored, at_tiles>>

(* The gate opens when the engine is done, which it stays until reset.     *)
ReleaseGate ==
  /\ engine_active /\ engine.state = "DONE"
  /\ engine_active' = FALSE
  /\ UNCHANGED <<shape, packets, cpu_queue, engine_side, im2col_queue, bypass_queue, store_queue,
                 stored, at_tiles>>

(* The controller's crossbar grants its outport to either of the two.      *)
GrantCpu ==
  /\ bypass_queue = <<>>
  /\ cpu_queue # <<>> /\ Head(cpu_queue).cmd = "TILE"
  /\ bypass_queue' = <<Head(cpu_queue)>>
  /\ cpu_queue' = Tail(cpu_queue)
  /\ UNCHANGED <<shape, packets, engine_active, engine_side, im2col_queue, store_queue, stored,
                 at_tiles>>

GrantIm2col ==
  /\ bypass_queue = <<>> /\ im2col_queue # <<>>
  /\ bypass_queue' = <<Head(im2col_queue)>>
  /\ im2col_queue' = Tail(im2col_queue)
  /\ UNCHANGED <<cpu_side, engine_side, store_queue, stored, at_tiles>>

(* What comes back from the NoC goes to the data memory or to the tiles.   *)
ToMemory ==
  /\ bypass_queue # <<>> /\ bypass_queue[1].cmd = "STORE_REQUEST"
  /\ Len(store_queue) < ChannelSize
  /\ store_queue' = Append(store_queue, bypass_queue[1])
  /\ bypass_queue' = <<>>
  /\ UNCHANGED <<cpu_side, engine_side, im2col_queue, stored, at_tiles>>

ToTiles ==
  /\ bypass_queue # <<>> /\ bypass_queue[1].cmd = "TILE"
  /\ at_tiles' = Append(at_tiles, bypass_queue[1])
  /\ bypass_queue' = <<>>
  /\ UNCHANGED <<cpu_side, engine_side, im2col_queue, store_queue, stored>>

(* The data memory writes when the bank and its crossbar let it.           *)
WriteMemory ==
  /\ store_queue # <<>>
  /\ stored' = Append(stored, Head(store_queue))
  /\ store_queue' = Tail(store_queue)
  /\ UNCHANGED <<cpu_side, engine_side, im2col_queue, bypass_queue, at_tiles>>

Next ==
  \/ SendCpu \/ RecvConfig \/ RecvLaunch \/ ReadImage \/ SendStore \/ ReleaseGate
  \/ GrantCpu \/ GrantIm2col \/ ToMemory \/ ToTiles \/ WriteMemory

Spec == Init /\ [][Next]_vars

(* The CPU sends, the engine steps, the memory writes, and the crossbar    *)
(* grants its outport to one of those that ask for it.                     *)
Fairness ==
  /\ WF_vars(SendCpu) /\ WF_vars(RecvConfig \/ RecvLaunch)
  /\ WF_vars(ReadImage \/ SendStore) /\ WF_vars(ReleaseGate)
  /\ WF_vars(GrantCpu \/ GrantIm2col) /\ WF_vars(ToMemory \/ ToTiles) /\ WF_vars(WriteMemory)

FairSpec == Spec /\ Fairness
-----------------------------------------------------------------------------
(* The lowered matrix of a shape as the engine's test computes it: row     *)
(* ky*kW + kx, column oy*Wout + ox (golden_im2col).                        *)
OutputsOf(size, kernel) == (shape[size] - shape[kernel]) \div (2^shape.log2_stride) + 1
Columns == OutputsOf("H", "kH") * OutputsOf("W", "kW")
Total == shape.kH * shape.kW * Columns

Element(row, col) ==
  LET y == (col \div OutputsOf("W", "kW")) * 2^shape.log2_stride + (row \div shape.kW)
      x == (col % OutputsOf("W", "kW")) * 2^shape.log2_stride + (row % shape.kW)
  IN in_mem(y * shape.W + x)

(* The image fits in the scratchpad and the kernel in the image, and the   *)
(* matrix fits in the data memory behind its base address.                 *)
ShapesFit ==
  \A s \in Shapes :
    LET Hs == (s.H - s.kH) \div 2^s.log2_stride + 1
        Ws == (s.W - s.kW) \div 2^s.log2_stride + 1
    IN /\ \A g \in {"H", "W", "kH", "kW"} : 0 < s[g] /\ s[g] < ScratchMod
       /\ s.kH <= s.H /\ s.kW <= s.W /\ s.H * s.W <= ScratchMod
       /\ s.log2_stride < ScratchMod
       /\ s.dst_sram_base + s.kH * s.kW * (Hs * Ws) <= DataAddrMod

Matrix == [i \in 1 .. Total |->
  [cmd |-> "STORE_REQUEST", data |-> Element((i - 1) \div Columns, (i - 1) % Columns),
   addr |-> shape.dst_sram_base + i - 1]]

Stores == IF bypass_queue # <<>> /\ bypass_queue[1].cmd = "STORE_REQUEST" THEN bypass_queue
          ELSE <<>>
Emitted == stored \o store_queue \o Stores \o im2col_queue

(* The stores written and under way are the matrix of the shape the CPU    *)
(* configured, word by word and in order, and all of it when the engine is *)
(* done, whatever else uses the controller's crossbar meanwhile.           *)
ColumnsExact ==
  /\ Len(Emitted) <= Total /\ Emitted = SubSeq(Matrix, 1, Len(Emitted))
  /\ engine.state = "DONE" => Len(Emitted) = Total

Behind == Cardinality({i \in DOMAIN at_tiles : at_tiles[i].late})

(* The packet next to the launch is in the controller's queue when the     *)
(* gate closes, and slips through; no other one reaches the tiles before   *)
(* the engine is done.                                                     *)
OneSlipsThrough == engine.state # "DONE" => Behind <= 1

(* "While high, the CPU-facing recv_from_cpu_pkt is held (rdy=0) so        *)
(* subsequent CPU packets wait": what was sent behind the launch does not  *)
(* reach the tiles while the engine stores.                                *)
PacketsWait == engine.state # "DONE" => Behind = 0

(* The matrix gets into the data memory and every packet to its tile.      *)
PreloadCompletes == <>(Len(stored) = Total /\ Len(at_tiles) = Early + Late)
=============================================================================
