------------------------------ MODULE Protocol ------------------------------
(***************************************************************************)
(* The frames of the station protocol, byte by byte                        *)
(* (allpowers_ble_protocol.cpp), the bits of the shared settings command   *)
(* the requests of allpowers_ble.cpp change, and the select entities that  *)
(* show them.  AllpowersBLE treats the same frames as records of fields.   *)
(*                                                                         *)
(* One report of the station arrives, maybe damaged on the way; what it    *)
(* says is the base of one command.  Writes are accepted here; refused     *)
(* writes, availability and expiry are in AllpowersBLE.                    *)
(***************************************************************************)
EXTENDS Integers, Sequences, FiniteSetsExt

CONSTANTS
  MaxDeviceNameLength,  \* MAX_DEVICE_NAME_LENGTH
  Placeholders,         \* INVALID_NAMES, in lower case
  StatusReports,        \* the telemetry a station may report
  SettingsReports,      \* the settings a station may report
  StationNames,         \* the names a station may report
  Alphabet,             \* the bytes names and other texts are made of
  MaxText,              \* the length of the longest name or text
  None                  \* what is not there, and an entity without a state

Byte == 0..255
Uint16 == 0..65535

ASSUME ProtocolAssumption ==
  /\ MaxDeviceNameLength \in 1..247
  /\ Placeholders \subseteq Seq(Byte)
  /\ StatusReports \subseteq
       [status : Byte, soc : Byte, powers : [1..3 -> Uint16]]
  /\ SettingsReports \subseteq
       [flags : Byte, eco_time : Byte, hardware : Byte, firmware : Byte]
  /\ StationNames \subseteq {name \in Seq(Byte) : Len(name) \in Byte}
  /\ Alphabet \in [{"name", "text"} -> SUBSET Byte]
  /\ MaxText \in [{"name", "text"} -> Nat]
  /\ None \notin Seq(Byte) \cup [dc : BOOLEAN, ac : BOOLEAN, light : BOOLEAN]
               \cup [flags : Byte, eco_time : Byte]

VARIABLES
  subject,   \* what the behavior is about: a report, or what is typed
  sent,      \* history: what the station meant by it
  air,       \* the report as it arrives, or None
  damaged,   \* history: it is not as it was sent
  outputs,   \* dc_on_, ac_on_, light_on_, or None
  settings,  \* settings_flags_, eco_time_, or None
  entities,  \* what publish_settings_states_ made the entities show
  text,      \* a name typed by the user, or advertised
  written    \* the frame written to FFF2, or None

vars ==
  <<subject, sent, air, damaged, outputs, settings, entities, text, written>>

-----------------------------------------------------------------------------
(* Bytes, bit by bit.  A mask is a byte with one bit.                      *)

Masks == {1, 2, 4, 8, 16, 32, 64, 128}
Has(byte, mask) == (byte \div mask) % 2 = 1
Bit(set, mask) == IF set THEN mask ELSE 0

\* The byte with the bits that Set is true of.
ByteOf(Set(_)) ==
  Bit(Set(1), 1) + Bit(Set(2), 2) + Bit(Set(4), 4) + Bit(Set(8), 8)
    + Bit(Set(16), 16) + Bit(Set(32), 32) + Bit(Set(64), 64)
    + Bit(Set(128), 128)

a & b == LET InBoth(mask) == Has(a, mask) /\ Has(b, mask) IN ByteOf(InBoth)
a | b == LET InOne(mask) == Has(a, mask) \/ Has(b, mask) IN ByteOf(InOne)

\* A bit survives the xor of all bytes when an odd number of them has it.
Odd(bytes, mask) ==
  Cardinality({i \in DOMAIN bytes : Has(bytes[i], mask)}) % 2 = 1

xor_bytes(bytes) == LET Left(mask) == Odd(bytes, mask) IN ByteOf(Left)

-----------------------------------------------------------------------------
(* Frames: validate_frame.  Byte i of the code is frame[i + 1].            *)

MinFrameLength == 8
StatusCommand == \h01
SettingsStatusCommand == \h03
DeviceNameCommand == \h35

At(frame, offset) == frame[offset + 1]
Word(frame, offset) == 256 * At(frame, offset) + At(frame, offset + 1)

\* mutant: the payload may be longer than announced
ValidateFrameLoosely(frame) ==
  IF Len(frame) < MinFrameLength THEN "SHORT_FRAME"
  ELSE IF At(frame, 0) # \hA5 \/ At(frame, 1) # \h65 THEN "INVALID_HEADER"
  ELSE IF MinFrameLength + At(frame, 5) > Len(frame)
    THEN "INCONSISTENT_LENGTH"
  ELSE IF xor_bytes(frame) # 0 THEN "INVALID_CHECKSUM"
  ELSE "NONE"

validate_frame(frame) ==
  IF Len(frame) < MinFrameLength THEN "SHORT_FRAME"
  ELSE IF At(frame, 0) # \hA5 \/ At(frame, 1) # \h65 THEN "INVALID_HEADER"
  ELSE IF MinFrameLength + At(frame, 5) # Len(frame)
    THEN "INCONSISTENT_LENGTH"
  ELSE IF xor_bytes(frame) # 0 THEN "INVALID_CHECKSUM"
  ELSE "NONE"

\* What process_notification_ takes a report for; other commands it ignores.
ErrorOf(frame, command) ==
  IF validate_frame(frame) # "NONE" THEN validate_frame(frame)
  ELSE IF At(frame, 6) # command THEN "WRONG_COMMAND"
  ELSE "NONE"

-----------------------------------------------------------------------------
(* parse_status, parse_settings and format_version.                        *)

StatusError(frame) ==
  IF ErrorOf(frame, StatusCommand) # "NONE"
    THEN ErrorOf(frame, StatusCommand)
  ELSE IF Len(frame) < 16 THEN "INCOMPLETE_STATUS"
  ELSE IF At(frame, 8) > 100 THEN "INVALID_STATE_OF_CHARGE"
  ELSE "NONE"

OutputsOf(status) ==
  [dc |-> Has(status, 1), ac |-> Has(status, 2), light |-> Has(status, 16)]

\* mutant: the words are read with the low byte first
ParseStatusLittleEndian(frame) ==
  LET SwappedWord(i) == At(frame, i) + 256 * At(frame, i + 1) IN
  [outputs |-> OutputsOf(At(frame, 7)),
   hz |-> IF Has(At(frame, 7), 4) THEN 60 ELSE 50,
   soc |-> At(frame, 8),
   powers |-> <<SwappedWord(9), SwappedWord(11), SwappedWord(13)>>]

\* The input power, the output power and the remaining minutes are words.
parse_status(frame) ==
  [outputs |-> OutputsOf(At(frame, 7)),
   hz |-> IF Has(At(frame, 7), 4) THEN 60 ELSE 50,
   soc |-> At(frame, 8),
   powers |-> <<Word(frame, 9), Word(frame, 11), Word(frame, 13)>>]

\* major.minor, or the raw byte when a digit is not decimal
format_version(encoded) ==
  LET major == encoded \div 16
      minor == encoded & \h0F
  IN IF major > 9 \/ minor > 9 THEN <<encoded>> ELSE <<major, minor>>

SettingsError(frame) ==
  IF ErrorOf(frame, SettingsStatusCommand) # "NONE"
    THEN ErrorOf(frame, SettingsStatusCommand)
  ELSE IF Len(frame) < 14 THEN "INCOMPLETE_SETTINGS"
  ELSE "NONE"

\* mutant: the flags and the shutdown time change places
ParseSettingsSwapped(frame) ==
  [flags |-> At(frame, 8), eco_time |-> At(frame, 7),
   hardware |-> format_version(At(frame, 11)),
   firmware |-> format_version(At(frame, 12))]

parse_settings(frame) ==
  [flags |-> At(frame, 7), eco_time |-> At(frame, 8),
   hardware |-> format_version(At(frame, 11)),
   firmware |-> format_version(At(frame, 12))]

-----------------------------------------------------------------------------
(* Names: valid_utf8, normalize_station_name, parse_device_name.           *)

\* For characters of 1 to 4 bytes: how the first byte is recognised, its payload,
\* and the least code point that needs that many.
LeadMask == <<\h80, \hE0, \hF0, \hF8>>
LeadBits == <<\h00, \hC0, \hE0, \hF0>>
LeadPayload == <<\h7F, \h1F, \h0F, \h07>>
Least == <<\h00, \h80, \h800, \h10000>>

Codepoint(bytes, first, n) ==
  LET lead == bytes[first] & LeadPayload[n]
      With(i, codepoint) == 64 * codepoint + (bytes[first + i] & \h3F)
  IN CASE n = 1 -> lead
       [] n = 2 -> With(1, lead)
       [] n = 3 -> With(2, With(1, lead))
       [] n = 4 -> With(3, With(2, With(1, lead)))

Led(bytes, first, n) ==
  /\ bytes[first] & LeadMask[n] = LeadBits[n]
  /\ \A i \in 1..(n - 1) : bytes[first + i] & \hC0 = \h80

Surrogate(codepoint) == codepoint >= \hD800 /\ codepoint <= \hDFFF

\* mutant: overlong encodings pass
CharOverlong(bytes, first, n) ==
  /\ first + n <= Len(bytes) + 1
  /\ Led(bytes, first, n)
  /\ Codepoint(bytes, first, n) <= \h10FFFF
  /\ ~Surrogate(Codepoint(bytes, first, n))

\* What one iteration of the loop accepts: a character of n bytes at `first'.
Char(bytes, first, n) ==
  /\ first + n <= Len(bytes) + 1
  /\ Led(bytes, first, n)
  /\ Codepoint(bytes, first, n) >= Least[n]
  /\ Codepoint(bytes, first, n) <= \h10FFFF
  /\ ~Surrogate(Codepoint(bytes, first, n))

\* The bytes from one iteration to the next are a character: `starts' is where
\* iterations begin, and the last of them finds the end.
Divides(bytes, Piece(_, _)) ==
  \E starts \in SUBSET (1..(Len(bytes) + 1)) :
    /\ 1 \in starts
    /\ \A first \in starts \ {Len(bytes) + 1} :
         \E n \in 1..4 : first + n \in starts /\ Piece(first, n)

valid_utf8(bytes) ==
  LET Accepted(first, n) == Char(bytes, first, n) IN Divides(bytes, Accepted)

\* std::isspace and std::tolower of the C locale
IsSpace(byte) == byte \in 9..13 \/ byte = 32
IsUpper(byte) == byte \in 65..90
ToLower(byte) == IF IsUpper(byte) THEN byte + 32 ELSE byte

ASSUME PlaceholdersAssumption ==
  \A p \in Placeholders : \A i \in DOMAIN p : ~IsUpper(p[i])

Trimmed(name) ==
  LET kept == {i \in DOMAIN name : ~IsSpace(name[i])} IN
  IF kept = {} THEN <<>> ELSE SubSeq(name, Min(kept), Max(kept))

\* mutant: the C1 controls are looked for in the wrong place
HasControlButC1(name) ==
  \E i \in DOMAIN name : name[i] < \h20 \/ name[i] = \h7F

HasControl(name) ==
  \E i \in DOMAIN name :
    \/ name[i] < \h20 \/ name[i] = \h7F
    \/ /\ name[i] = \hC2
       /\ i < Len(name) /\ name[i + 1] \in \h80..\h9F

\* What normalize_station_name asks of the trimmed name.
Usable(name) ==
  /\ Len(name) \in 1..MaxDeviceNameLength
  /\ valid_utf8(name)
  /\ ~HasControl(name)
  /\ [i \in DOMAIN name |-> ToLower(name[i])] \notin Placeholders

normalize_station_name(name) ==
  IF Usable(Trimmed(name)) THEN Trimmed(name) ELSE None

\* mutant: the last byte of the payload is left behind
PayloadShort(frame) == SubSeq(frame, 8, 6 + At(frame, 5))

Payload(frame) == SubSeq(frame, 8, 7 + At(frame, 5))

NameError(frame) ==
  IF ErrorOf(frame, DeviceNameCommand) # "NONE"
    THEN ErrorOf(frame, DeviceNameCommand)
  ELSE IF At(frame, 5) > MaxDeviceNameLength
    THEN "INVALID_DEVICE_NAME_LENGTH"
  ELSE IF ~valid_utf8(Payload(frame)) THEN "INVALID_UTF8"
  ELSE "NONE"

-----------------------------------------------------------------------------
(* The frames the component writes.                                        *)

Sealed(bytes) == Append(bytes, xor_bytes(bytes))

\* mutant: the AC output needs no correction
ControlFrameUncorrected(o) ==
  LET bits == Bit(o.dc, 1) + Bit(o.ac, 2) + Bit(o.light, 32) IN
  <<\hA5, \h65, \h00, \hB1, \h01, \h01, \h00, bits, 113 - bits>>

\* mutant: the light has the bit of the status report
ControlFrameStatusBits(o) ==
  LET bits == Bit(o.dc, 1) + Bit(o.ac, 2) + Bit(o.light, 16) IN
  <<\hA5, \h65, \h00, \hB1, \h01, \h01, \h00, bits,
    (113 - bits + Bit(o.ac, 4)) % 256>>

\* Not a checksum by its definition.
make_control_frame(o) ==
  LET bits == Bit(o.dc, 1) + Bit(o.ac, 2) + Bit(o.light, 32) IN
  <<\hA5, \h65, \h00, \hB1, \h01, \h01, \h00, bits,
    (113 - bits + Bit(o.ac, 4)) % 256>>

make_settings_frame(s) ==
  Sealed(<<\hA5, \h65, \h00, \hB1, \h01, \h02, \h02, s.flags, s.eco_time>>)

\* of a name normalize_station_name accepted; the empty name is the query.
make_device_name_frame(name) ==
  Sealed(<<\hA5, \h65, \h00, \hB1, \h01, Len(name), DeviceNameCommand>> \o name)

-----------------------------------------------------------------------------
(* The bits of the settings, and the select options.                       *)

EcoMask == 1
WorkModeMask == 6
CarChargerMask == 16
EcoShutdownHours == <<1, 2, 4, 6>>
WorkModes == <<0, 1, 2>>

WithBit(flags, mask, state) ==
  IF state THEN flags | mask ELSE flags & (255 - mask)

\* mutant: the mode is merged into the old one
WithWorkModeMerged(flags, mode) == flags | (2 * mode)

WithWorkMode(flags, mode) == (flags & (255 - WorkModeMask)) | (2 * mode)

WorkMode(flags) == (flags & WorkModeMask) \div 2

\* publish_hours and publish_mode: an index, or no state for any other value
Option(options, value) ==
  LET matching == {i \in DOMAIN options : options[i] = value} IN
  IF matching = {} THEN None ELSE Min(matching) - 1

\* publish_settings_states_
Published(s) ==
  [eco |-> Has(s.flags, EcoMask), car |-> Has(s.flags, CarChargerMask),
   hours |-> Option(EcoShutdownHours, s.eco_time),
   mode |-> Option(WorkModes, WorkMode(s.flags))]

-----------------------------------------------------------------------------
(* The station's side of the air.                                          *)

StationFrame(command, payload) ==
  Sealed(<<\hA5, \h65, \hB1, \h00, \h01, Len(payload), command>> \o payload)

StatusFrame(r) ==
  LET high(i) == r.powers[i] \div 256
      low(i) == r.powers[i] % 256
  IN StationFrame(StatusCommand,
       <<r.status, r.soc, high(1), low(1), high(2), low(2), high(3), low(3)>>)

SettingsFrame(r) ==
  StationFrame(SettingsStatusCommand,
    <<r.flags, r.eco_time, 0, 0, r.hardware, r.firmware>>)

Reports == {"status", "settings", "station name"}
Typing == {"name", "text"}

Init ==
  /\ \/ subject = "status" /\ sent \in StatusReports /\ air = StatusFrame(sent)
     \/ /\ subject = "settings" /\ sent \in SettingsReports
        /\ air = SettingsFrame(sent)
     \/ /\ subject = "station name" /\ sent \in StationNames
        /\ air = StationFrame(DeviceNameCommand, sent)
     \/ subject \in Typing /\ sent = None /\ air = None
  /\ damaged = FALSE /\ outputs = None /\ settings = None /\ entities = None
  /\ text = <<>> /\ written = None

\* A name grows byte by byte.
Typed(byte) ==
  /\ subject \in Typing /\ written = None
  /\ byte \in Alphabet[subject] /\ Len(text) < MaxText[subject]
  /\ text' = Append(text, byte)
  /\ UNCHANGED <<subject, sent, air, damaged, outputs, settings, entities,
                 written>>

Flipped(byte, mask) ==
  IF Has(byte, mask) THEN byte - mask ELSE byte + mask

\* One bit flips, or the report is cut short or runs on, before it is parsed.
Damaged ==
  /\ subject \in Reports /\ ~damaged /\ outputs = None /\ settings = None
  /\ damaged' = TRUE
  /\ \/ \E i \in DOMAIN air, mask \in Masks :
          air' = [air EXCEPT ![i] = Flipped(@, mask)]
     \/ \E n \in 0..(Len(air) - 1) : air' = SubSeq(air, 1, n)
     \/ \E byte \in {0, 1, air[Len(air)]} : air' = Append(air, byte)
  /\ UNCHANGED <<subject, sent, outputs, settings, entities, text, written>>

-----------------------------------------------------------------------------
(* The component's side: the reports it accepts and the commands on them.  *)

\* process_status_
StatusNotification ==
  /\ subject = "status" /\ outputs = None
  /\ StatusError(air) = "NONE"
  /\ outputs' = parse_status(air).outputs
  /\ UNCHANGED <<subject, sent, air, damaged, settings, entities, text,
                 written>>

\* process_settings_
SettingsNotification ==
  /\ subject = "settings" /\ settings = None
  /\ SettingsError(air) = "NONE"
  /\ settings' = [flags |-> parse_settings(air).flags,
                  eco_time |-> parse_settings(air).eco_time]
  /\ entities' = Published(settings')
  /\ UNCHANGED <<subject, sent, air, damaged, outputs, text, written>>

\* request_output
RequestOutput(output, state) ==
  /\ outputs # None /\ written = None
  /\ outputs' = [outputs EXCEPT ![output] = state]
  /\ written' = make_control_frame(outputs')
  /\ UNCHANGED <<subject, sent, air, damaged, settings, entities, text>>

\* The common part of the four settings requests: what is set already is
\* published again and not written.
RequestSettings(new) ==
  /\ settings # None /\ written = None
  /\ settings' = new
  /\ written' = IF new = settings THEN None ELSE make_settings_frame(new)
  /\ entities' = Published(new)
  /\ UNCHANGED <<subject, sent, air, damaged, outputs, text>>

RequestEcoMode(state) ==
  RequestSettings([settings EXCEPT !.flags = WithBit(@, EcoMask, state)])

RequestCarCharger(state) ==
  RequestSettings([settings EXCEPT !.flags = WithBit(@, CarChargerMask, state)])

\* The two selects, by the index of an option.
RequestEcoShutdownTime(index) ==
  /\ index < Len(EcoShutdownHours)
  /\ RequestSettings([settings EXCEPT !.eco_time = EcoShutdownHours[index + 1]])

RequestWorkMode(index) ==
  /\ index < Len(WorkModes)
  /\ RequestSettings([settings EXCEPT
                        !.flags = WithWorkMode(@, WorkModes[index + 1])])

\* request_device_name
RequestDeviceName ==
  /\ subject = "name" /\ written = None
  /\ normalize_station_name(text) # None
  /\ written' = make_device_name_frame(normalize_station_name(text))
  /\ UNCHANGED <<subject, sent, air, damaged, outputs, settings, entities, text>>

Next ==
  \/ \E byte \in Byte : Typed(byte)
  \/ Damaged
  \/ StatusNotification
  \/ SettingsNotification
  \/ \E output \in {"dc", "ac", "light"}, state \in BOOLEAN :
       RequestOutput(output, state)
  \/ \E state \in BOOLEAN : RequestEcoMode(state) \/ RequestCarCharger(state)
  \/ \E index \in 0..4 : RequestEcoShutdownTime(index) \/ RequestWorkMode(index)
  \/ RequestDeviceName

Spec == Init /\ [][Next]_vars

-----------------------------------------------------------------------------
(* Properties                                                              *)

\* protocol.md:20-31: no damage of one bit, no lost tail and no extra byte gets a
\* report past the envelope, whatever the report says.
DamageIsDetected == damaged => validate_frame(air) # "NONE"

\* protocol.md:121-124: a version is two decimal digits; any other byte is shown
\* as it is.
VersionShown(shown, byte) ==
  \/ \E major, minor \in 0..9 :
       byte = 16 * major + minor /\ shown = <<major, minor>>
  \/ /\ \A major, minor \in 0..9 : byte # 16 * major + minor
     /\ shown = <<byte>>

\* protocol.md:78-92, 105-126: a report that arrives as it was sent means what the
\* station meant.  A status report is refused exactly when its state of charge is
\* not a percentage, a settings report never.
ReportsAreUnderstood ==
  ~damaged =>
    /\ subject = "status" =>
         IF sent.soc > 100 THEN StatusError(air) = "INVALID_STATE_OF_CHARGE"
         ELSE /\ StatusError(air) = "NONE"
              /\ parse_status(air) =
                   [outputs |-> [dc |-> sent.status % 2 = 1,
                                 ac |-> (sent.status \div 2) % 2 = 1,
                                 light |-> (sent.status \div 16) % 2 = 1],
                    hz |-> IF (sent.status \div 4) % 2 = 1 THEN 60 ELSE 50,
                    soc |-> sent.soc, powers |-> sent.powers]
    /\ subject = "settings" =>
         /\ SettingsError(air) = "NONE"
         /\ parse_settings(air).flags = sent.flags
         /\ parse_settings(air).eco_time = sent.eco_time
         /\ VersionShown(parse_settings(air).hardware, sent.hardware)
         /\ VersionShown(parse_settings(air).firmware, sent.firmware)

\* The table of well-formed byte sequences of the Unicode standard, row by row.
InTable(bytes, first, n) ==
  LET Is(i, low, high) == low <= bytes[first + i] /\ bytes[first + i] <= high
      Continues(i) == Is(i, \h80, \hBF)
  IN \/ n = 1 /\ Is(0, \h00, \h7F)
     \/ n = 2 /\ Is(0, \hC2, \hDF) /\ Continues(1)
     \/ n = 3 /\ Is(0, \hE0, \hE0) /\ Is(1, \hA0, \hBF) /\ Continues(2)
     \/ n = 3 /\ Is(0, \hE1, \hEC) /\ Continues(1) /\ Continues(2)
     \/ n = 3 /\ Is(0, \hED, \hED) /\ Is(1, \h80, \h9F) /\ Continues(2)
     \/ n = 3 /\ Is(0, \hEE, \hEF) /\ Continues(1) /\ Continues(2)
     \/ n = 4 /\ Is(0, \hF0, \hF0) /\ Is(1, \h90, \hBF)
              /\ Continues(2) /\ Continues(3)
     \/ n = 4 /\ Is(0, \hF1, \hF3)
              /\ Continues(1) /\ Continues(2) /\ Continues(3)
     \/ n = 4 /\ Is(0, \hF4, \hF4) /\ Is(1, \h80, \h8F)
              /\ Continues(2) /\ Continues(3)

WellFormed(bytes) ==
  LET Tabled(first, n) == InTable(bytes, first, n) IN Divides(bytes, Tabled)

\* The hand-written decoder accepts the well-formed sequences of the standard and
\* no other: nothing overlong, truncated, surrogate or beyond U+10FFFF.
Utf8IsUnicode == valid_utf8(text) <=> WellFormed(text)

\* README.md:321: a name that is kept shows as text on one line, fits the
\* protocol, is no placeholder in any case or spacing, and normalising it again
\* changes nothing.
Parts(bytes) == {SubSeq(bytes, i, j) : i, j \in DOMAIN bytes}

Controls ==
  {<<c>> : c \in (\h00..\h1F) \cup {\h7F}} \cup {<<\hC2, c>> : c \in \h80..\h9F}

NamesAreClean ==
  LET name == normalize_station_name(text) IN
  name # None =>
    /\ name # <<>> /\ Len(name) <= MaxDeviceNameLength
    /\ WellFormed(name)
    /\ Parts(name) \cap Controls = {}
    /\ ~IsSpace(name[1]) /\ ~IsSpace(name[Len(name)])
    /\ \A p \in Placeholders :
         Len(p) = Len(name) =>
           \E i \in DOMAIN p : name[i] # p[i] /\ ToLower(name[i]) # p[i]
    /\ normalize_station_name(name) = name

\* protocol.md:27-29: the control, settings and name commands satisfy the envelope
\* the component asks of the station, the check byte of the control frame included,
\* although it is computed in another way.  The status request is a constant that
\* is no such envelope (protocol.md:40-41); `written' never holds it.
CommandsAreFrames == written # None => validate_frame(written) = "NONE"

\* A name written to the station and returned by it is the same name, and a
\* report is refused only for its length or its encoding.
NamesSurviveTheAir ==
  /\ subject = "name" /\ written # None =>
       /\ NameError(written) = "NONE"
       /\ Payload(written) = normalize_station_name(text)
  /\ subject = "station name" /\ ~damaged =>
       (NameError(air) = "NONE" <=> Len(sent) <= MaxDeviceNameLength
                                    /\ WellFormed(sent))

\* What the settings and the outputs of docs/protocol.md:96-117, 136-143 mean.
Decoded(s) ==
  [eco |-> s.flags % 2, mode |-> (s.flags \div 2) % 4,
   car |-> (s.flags \div 16) % 2, ac_mode |-> (s.flags \div 8) % 2,
   rest |-> s.flags \div 32, hours |-> s.eco_time]

Changes(meant) ==
  /\ Decoded(settings') = meant
  /\ written' # None =>
       <<At(written', 7), At(written', 8)>> =
         <<settings'.flags, settings'.eco_time>>

FieldAsked ==
  /\ \A state \in BOOLEAN :
       /\ RequestEcoMode(state) =>
            /\ Changes([Decoded(settings) EXCEPT !.eco = Bit(state, 1)])
            /\ entities'.eco = state
       /\ RequestCarCharger(state) =>
            /\ Changes([Decoded(settings) EXCEPT !.car = Bit(state, 1)])
            /\ entities'.car = state
  /\ \A index \in 0..3 :
       /\ RequestWorkMode(index) =>
            /\ Changes([Decoded(settings) EXCEPT !.mode = index])
            /\ entities'.mode = index
       /\ RequestEcoShutdownTime(index) =>
            /\ \E hours \in {1, 2, 4, 6} :
                 Changes([Decoded(settings) EXCEPT !.hours = hours])
            /\ entities'.hours = index

\* A request changes its own field on the wire and no other, whatever the station
\* reported in the other bits, and the entities then show what was asked for.
RequestsChangeTheirField == [][FieldAsked]_vars

\* The light is bit 4 of a report and bit 5 of a command: a command still says of
\* the other outputs what the report said.
OutputsKeepTheirMeaning ==
  subject = "status" /\ written # None =>
    /\ outputs = [dc |-> At(written, 7) % 2 = 1,
                  ac |-> (At(written, 7) \div 2) % 2 = 1,
                  light |-> (At(written, 7) \div 32) % 2 = 1]
    /\ \E output \in {"dc", "ac", "light"} :
         [outputs EXCEPT ![output] = FALSE] =
           [parse_status(air).outputs EXCEPT ![output] = FALSE]
=============================================================================
