------------------------------ MODULE SbusFrame ------------------------------
(***************************************************************************)
(* What sbus_publisher.py makes of a frame: its 16 channels of 11 bits,    *)
(* the check for garbage, the positions of sticks and switches, and the    *)
(* command they stand for.  Channels are numbered 1 to 16 as on the radio. *)
(* Drive speeds are kept doubled (the mixer halves the turn), and the      *)
(* scroll wheel in its raw steps from the centre: nothing is rounded.      *)
(***************************************************************************)
EXTENDS Integers, FiniteSets

Channels == 1..16

(* Where a channel starts in each half of the 22 data bytes: the byte and  *)
(* its first bit.                                                          *)
Places == <<<<0, 0>>, <<1, 3>>, <<2, 6>>, <<4, 1>>, <<5, 4>>, <<6, 7>>, <<8, 2>>, <<9, 5>>>>

\* Mutant: the third byte is left out where a channel only just reaches it.
ChannelOf_two_bytes(d, c) ==
  LET place == Places[((c - 1) % 8) + 1]
      byte == place[1] + 11 * ((c - 1) \div 8)
      bit == place[2]
  IN ((d[byte] \div 2^bit) + d[byte + 1] * 2^(8 - bit)
        + (IF bit > 6 THEN d[byte + 2] * 2^(16 - bit) ELSE 0)) % 2048

(* Two bytes, or three where the channel reaches the third. *)
ChannelOf(d, c) ==
  LET place == Places[((c - 1) % 8) + 1]
      byte == place[1] + 11 * ((c - 1) \div 8)
      bit == place[2]
  IN ((d[byte] \div 2^bit) + d[byte + 1] * 2^(8 - bit)
        + (IF bit > 5 THEN d[byte + 2] * 2^(16 - bit) ELSE 0)) % 2048

(* How the line carries a frame: 176 bits, the lowest of each byte first,  *)
(* and of each channel.                                                    *)
Frames == [0..175 -> {0, 1}]
ByteAt(bits, n) == bits[n] + 2 * bits[n + 1] + 4 * bits[n + 2] + 8 * bits[n + 3]
                   + 16 * bits[n + 4] + 32 * bits[n + 5] + 64 * bits[n + 6] + 128 * bits[n + 7]
BytesOf(bits) == [i \in 0..21 |-> ByteAt(bits, 8 * i)]
ElevenAt(bits, n) ==
  ByteAt(bits, n) + 256 * bits[n + 8] + 512 * bits[n + 9] + 1024 * bits[n + 10]

ChannelsLookSane(ch) == Cardinality({c \in Channels : ch[c] \notin 172..1811}) <= 1

-----------------------------------------------------------------------------
(* ud3: 1 up, 0 centre, -1 down. *)
ud3(v) == CASE v > 1400 -> -1
            [] v > 400 /\ v <= 1400 -> 0
            [] OTHER -> 1

(* rcl3 and fcb3: the other way round. *)
fcb3(v) == -ud3(v)

ud2(v) == IF v > 1400 THEN 0 ELSE 1

Clamped(v) == IF v < 272 THEN 272 ELSE IF v > 1712 THEN 1712 ELSE v

(* Percent of the travel; a half is rounded to the even side. *)
Speed(v) ==
  LET scaled == 100 * (Clamped(v) - 272)
      whole == scaled \div 1440
      rest == 2 * (scaled % 1440)
  IN IF rest > 1440 \/ (rest = 1440 /\ whole % 2 = 1) THEN whole + 1 ELSE whole

Claw(v) == Clamped(v) - 992

ModeOf(v) == CASE ud3(v) = 1 -> "HOME" [] ud3(v) = -1 -> "DRIVE" [] OTHER -> "ARM"
OperationOf(v) == CASE ud3(v) = 1 -> "FIRING" [] ud3(v) = -1 -> "DISARMED" [] OTHER -> "ARMED"

(* Every field 0, and the two that say where the switches are. *)
Still(mode, operation, light, axis) ==
  [control_mode |-> mode, operation_mode |-> operation,
   drive_left |-> 0, drive_right |-> 0, drive_speed |-> 0,
   arm_x_cmd |-> 0, arm_y_cmd |-> 0, arm_z_cmd |-> 0,
   ee_roll |-> 0, ee_pitch |-> 0, claw_cmd |-> 0, telescope_cmd |-> 0,
   rear_flipper |-> 0, front_flipper |-> 0,
   light_state |-> light, camera_axis |-> axis, camera_cmd |-> 0]

(* ChannelInterpreter.interpret.  HOME zeroes what moves the arm except    *)
(* the pitch; DISARMED zeroes all but the modes and the two switches.      *)
Interpret(ch) ==
  LET mode == ModeOf(ch[1])
      still == Still(mode, OperationOf(ch[2]), ud2(ch[13]), ud2(ch[14]))
      fwd == IF mode = "DRIVE" THEN -ud3(ch[3]) * Speed(ch[8]) ELSE 0
      turn == IF mode = "DRIVE" THEN ud3(ch[4]) * Speed(ch[8]) ELSE 0
      mixed == IF fwd < 0 THEN -turn ELSE turn
      inArm(v) == IF mode = "ARM" THEN v ELSE 0
      notHome(v) == IF mode = "HOME" THEN 0 ELSE v
  IN IF still.operation_mode = "DISARMED"
       THEN still
       ELSE [still EXCEPT !.drive_left = 2 * fwd + mixed,
                          !.drive_right = 2 * fwd - mixed,
                          !.drive_speed = notHome(Speed(ch[8])),
                          !.arm_x_cmd = inArm(-ud3(ch[4])),
                          !.arm_y_cmd = inArm(-ud3(ch[3])),
                          !.arm_z_cmd = inArm(-ud3(ch[5])),
                          !.ee_roll = notHome(fcb3(ch[6])),
                          !.ee_pitch = ud3(ch[12]),
                          !.claw_cmd = inArm(Claw(ch[15])),
                          !.telescope_cmd = notHome(fcb3(ch[11])),
                          !.rear_flipper = fcb3(ch[9]),
                          !.front_flipper = fcb3(ch[10]),
                          !.camera_cmd = ud3(ch[16])]

=============================================================================
