------------------------------- MODULE Wgrib2 -------------------------------
(* The main program of wgrib2: the options of the command line are called  *)
(* once before the file is read (mode -1), once for every record that is   *)
(* selected (mode >= 0) and once at the end (mode -2).  Each option keeps   *)
(* a state of its own (local); the records are read in the order of the    *)
(* file, of an inventory (-i), or one by its number (-d).                  *)
EXTENDS NewGrid, Calculator, Netcdf

CONSTANTS
  Jobs,           \* command lines with their input:
                  \* [args, file: messages, lines: inventory, stream: not seekable,
                  \* nc: the netCDF file that is there]
  StaleRows,      \* what an index of -rpn may be before it is set
  UnsetRanges,    \* what a range of valid values of -netcdf may be before it is set
  RandomNumbers   \* what rand() may give

VARIABLES
  job,        \* the command line and the files it is run on
  phase,      \* init, dump, read, select, decode, options, final, done, failed, fatal
  j,          \* the option being called
  sw,         \* the switches the options have set
  rd,         \* what has been read: [msg_no, inv_no, submsg, pos, last_pos,
              \* last_submsg, lines, buf], buf the message with submessages
  sec,        \* the sections of the record, by position in rd.buf
  run,        \* [match_val, match_fs_val, match_flag, last_message]
  grid,       \* [old_gds, GDS_change_no, translation, points: lat and lon]
  data,       \* the decoded field in output order
  regs,       \* the registers of the calculator that hold a field
  local,      \* the state of each option
  files,      \* what each file contains
  inventory   \* what is written to the standard output

vars == <<job, phase, j, sw, rd, sec, run, grid, data, regs, local, files, inventory>>

----------------------------------------------------------------------------
(* The options. *)

Setup == {"match", "not", "match_fs", "not_fs", "for", "for_n", "i", "d", "order", "append"} \cup NcSetup
Conditions == {"if", "not_if", "if_fs", "not_if_fs", "if_n", "if_rec", "if_reg"}
RegisterOptions == {"rpn_rcl", "rpn_sto"}
Undefining == {"undefine", "ijundefine", "undefine_val"}
Imports == {"import_text", "import_ieee", "import_bin"}
Calculations == RegisterOptions \cup Undefining \cup Imports \cup {"rpn", "import_grib"}
Switches == {"submsg", "gctpc", "header"} \cup NewGridOptions
PlacesIn == {"lola", "ijbox"}
PlaceLines == AtPlace \ PlacesIn
Inv == {"s", "n"} \cup PlaceLines
Statistics == {"ave0", "fcst_ave0", "ave", "fcst_ave", "ave_var"}
Uv == {"ncep_uv", "submsg_uv"}
Wind == {"wind_speed", "wind_dir"}
Rewriting == Statistics \cup Wind \cup {"grib_out", "merge_fcst", "ncep_norm"}
Cutting == {"small_grib", "ijsmall_grib"}
Listing == Tables \cup {"grib_out_irr"}
Unordered == {"new_grid", "grib_out_irr2"}
Appending ==
  Rewriting \cup Uv \cup Cutting \cup Listing \cup Unordered \cup {"grib", "GRIB", "bin", "tosubmsg"}
Rasters == {"AAIG", "AAIGlong"}
Output == Appending \cup PlacesIn \cup Rasters \cup {"netcdf", "fi"}
Patterns == {"match", "not", "if", "not_if"}
PatternsFs == {"match_fs", "not_fs", "if_fs", "not_if_fs"}

\* Without an option that writes an inventory -s is added.
arglist ==
  IF \E i \in 1 .. Len(job.args) : job.args[i].kind \in Inv THEN job.args
  ELSE Append(job.args, [kind |-> "s"])

\* The rasters of -AAIG and -AAIGlong are the file "asc".
FileNames ==
  {arglist[i].file : i \in {k \in 1 .. Len(arglist) : arglist[k].kind \in Output \ {"fi"}}}

NoRange == [start |-> 0, end |-> 0, step |-> 0]

init_globals ==
  [input |-> "all", dump_msg |-> 0, dump_submsg |-> 0, only_submsg |-> 0,
   for |-> NoRange, for_n |-> NoRange, matches |-> <<>>, matches_fs |-> <<>>, decode |-> FALSE, latlon |-> FALSE,
   save_translation |-> FALSE, order |-> "we:sn", append |-> FALSE, open |-> {}, use_gctpc |-> TRUE,
   header |-> TRUE, new_grid |-> default_settings, nc |-> NoSettings]

\* What the call with mode -1 changes.
Switched(o) ==
  CASE o.kind \in Patterns -> [sw EXCEPT !.matches = Append(@, o)]
    [] o.kind \in PatternsFs -> [sw EXCEPT !.matches_fs = Append(@, o)]
    [] o.kind = "for"      -> [sw EXCEPT !.for = o.range]
    [] o.kind = "for_n"    -> [sw EXCEPT !.for_n = o.range]
    [] o.kind = "submsg"   -> [sw EXCEPT !.only_submsg = o.submsg]
    [] o.kind = "i"        -> [sw EXCEPT !.input = "inv"]
    [] o.kind = "d"        -> [sw EXCEPT !.input = "dump", !.dump_msg = o.msg,
                                         !.dump_submsg = o.submsg]
    [] o.kind = "order"    -> [sw EXCEPT !.order = o.order]
    [] o.kind = "append"   -> [sw EXCEPT !.append = TRUE]
    [] o.kind = "gctpc"    -> [sw EXCEPT !.use_gctpc = o.on]
    [] o.kind = "header"   -> [sw EXCEPT !.header = o.on]
    [] o.kind \in NewGridOptions -> [sw EXCEPT !.new_grid = NewGridInit(o, @)]
    [] o.kind \in Calculations \cup PlaceLines \cup Rasters ->
         [sw EXCEPT !.decode = TRUE,
                    !.latlon = @ \/ o.kind \in {"rpn", "undefine"} \cup Locating \cup Rasters]
    [] o.kind \in NcSetup   -> [sw EXCEPT !.nc = NcSet(o, @)]
    [] o.kind = "netcdf"   -> [sw EXCEPT !.nc = NcSet(o, @), !.decode = TRUE, !.latlon = TRUE]
    [] o.kind \in Appending \cup PlacesIn ->
         [sw EXCEPT !.open = @ \cup {o.file},
                    !.decode = @ \/ o.kind \in Rewriting \cup Cutting \cup Listing \cup PlacesIn
                                              \cup Unordered \cup {"bin"},
                    !.order = IF o.kind = "new_grid" THEN "raw" ELSE @,
                    !.latlon = @ \/ o.kind \in Cutting \cup (Listing \ {"text"}) \cup {"lola"},
                    !.save_translation = @ \/ o.kind \in Rewriting]
    [] OTHER               -> sw

\* A pattern remembers its number.
InitialLocal(o) ==
  CASE o.kind \in Patterns -> [match_cnt |-> Len(sw.matches) + 1]
    [] o.kind \in PatternsFs -> [match_cnt |-> Len(sw.matches_fs) + 1]
    [] o.kind = "limit"    -> [left |-> o.n]
    [] o.kind \in Imports  -> [words |-> 0]
    [] o.kind = "new_grid" -> NewGridLocal(o, sw.new_grid.winds)
    [] o.kind \in AtPlace  -> NoPlace
    [] o.kind \in Statistics \cup {"merge_fcst", "ncep_norm"} -> NoSeries
    [] o.kind \in Uv \cup Wind -> NoU
    [] o.kind = "tosubmsg" -> NoMessage
    [] o.kind = "small_grib" -> [GDS_change_no |-> 0, dom |-> NoDomain]
    [] o.kind = "import_grib" -> [pos |-> 0, submsg |-> 0, sec |-> NoSections]
    [] o.kind = "netcdf"   -> open_netcdf(sw.nc, sw.append, files[o.file][1])
    [] OTHER               -> None

\* The netCDF file is made by the first record; opening it may change its attributes.
NcFile(o, l) ==
  IF l # None /\ l.initialized THEN [files EXCEPT ![o.file] = <<l.nc>>] ELSE files

\* A file is emptied when the first option opens it, unless after -append.
Opened(o) ==
  IF o.kind = "netcdf" THEN NcFile(o, InitialLocal(o))
  ELSE IF o.kind \in Appending \cup PlacesIn /\ o.file \notin sw.open /\ ~sw.append
  THEN [files EXCEPT ![o.file] = <<>>] ELSE files

\* A range given twice, a box that is none, a register there is not.
BadArgument(o) ==
  \/ o.kind = "for" /\ sw.for # NoRange
  \/ o.kind = "for_n" /\ sw.for_n # NoRange
  \/ o.kind = "ijsmall_grib" /\ BadDomain(o)
  \/ o.kind = "small_grib" /\ BadBox(o)
  \/ o.kind = "undefine" /\ BadUndefine(o.box)
  \/ o.kind = "lola" /\ BadLola(o)
  \/ o.kind = "new_grid" /\ BadNewGrid(o)
  \/ o.kind = "new_grid_ipopt" /\ Len(o.vals) > NIpopt
  \/ o.kind = "if_reg" /\ ~(o.regs \subseteq 0 .. N_RPN_REGS - 1)
  \/ BadNcSetup(o, sw.nc)
  \/ o.kind = "netcdf" /\ InitialLocal(o) = None

InitOption ==
  /\ phase = "init"
  /\ j <= Len(arglist)
  /\ sw' = Switched(arglist[j])
  /\ local' = Append(local, InitialLocal(arglist[j]))
  /\ files' = Opened(arglist[j])
  /\ j' = j + 1
  /\ phase' = IF BadArgument(arglist[j]) THEN "fatal"
              ELSE IF arglist[j].kind = "d" /\ arglist[j].msg <= 0 THEN "failed"
              ELSE phase
  /\ UNCHANGED <<job, rd, sec, run, grid, data, regs, inventory>>

\* The latitudes and longitudes are known for one order only; an inventory needs a file
\* that can be read anywhere.
InitDone ==
  /\ phase = "init"
  /\ j > Len(arglist)
  /\ j' = 1
  /\ phase' = IF \/ sw.latlon /\ sw.order # "we:sn"
                 \/ sw.input = "inv" /\ job.stream
              THEN "fatal" ELSE "dump"
  /\ UNCHANGED <<job, sw, rd, sec, run, grid, data, regs, local, files, inventory>>

----------------------------------------------------------------------------
(* Reading.  The messages of the file are at the positions 0, 1, 2 ... *)

MessageAt(pos) == IF pos < Len(job.file) THEN job.file[pos + 1] ELSE None

End == phase' = "final" /\ UNCHANGED <<rd, sec>>
Stop == phase' = "fatal" /\ UNCHANGED <<rd, sec>>

\* -d passes over the messages before the one wanted.
SkipToDump ==
  /\ phase = "dump"
  /\ IF sw.input # "dump" \/ rd.msg_no >= sw.dump_msg
     THEN phase' = "read" /\ UNCHANGED <<rd, sec>>
     ELSE IF MessageAt(rd.pos) = None THEN Stop
     ELSE /\ rd' = [rd EXCEPT !.last_pos = rd.pos, !.pos = @ + 1, !.msg_no = @ + 1,
                              !.buf = MessageAt(rd.pos)]
          /\ UNCHANGED <<phase, sec>>
  /\ UNCHANGED <<job, j, sw, run, grid, data, regs, local, files, inventory>>

\* The next submessage, or the next message.
ReadAll ==
  LET first == rd.submsg = 0
      over == rd.submsg > num_submsgs(rd.buf)
      pos == IF ~first /\ over THEN rd.pos + 1 ELSE rd.pos
  IN  IF first \/ over
      THEN IF MessageAt(pos) = None THEN End
           ELSE IF parse_1st_msg(MessageAt(pos), sec) = Bad THEN Stop
           ELSE /\ rd' = [rd EXCEPT !.pos = pos, !.submsg = 1, !.buf = MessageAt(pos),
                                    !.msg_no = @ + (IF first THEN 0 ELSE 1)]
                /\ sec' = parse_1st_msg(MessageAt(pos), sec)
                /\ phase' = "select"
      ELSE IF parse_next_msg(rd.buf, sec) = Bad THEN Stop
      ELSE /\ sec' = parse_next_msg(rd.buf, sec)
           /\ phase' = "select"
           /\ UNCHANGED rd

\* Submessage k from the first, as far as there are any.
FromFirst(secs, k) ==
  LET at[i \in 1 .. k] ==
        IF i = 1 THEN parse_1st_msg(secs, sec)
        ELSE IF at[i - 1] = Bad THEN Bad
        ELSE IF parse_next_msg(secs, at[i - 1]) = Ended THEN at[i - 1]
        ELSE parse_next_msg(secs, at[i - 1])
  IN  at[k]

Found(line, secs, found) ==
  /\ rd' = [rd EXCEPT !.msg_no = line.msg_no, !.pos = line.pos, !.submsg = line.submsg,
                      !.last_pos = line.pos, !.last_submsg = line.submsg, !.buf = secs,
                      !.lines = IF sw.input = "inv" THEN Tail(@) ELSE @]
  /\ sec' = found
  /\ phase' = "select"

\* The submessage of a message at a position: the message is read unless it was the
\* last one, and the next submessage of the same message is parsed from where sec is.
Seek(line) ==
  LET fresh == line.pos # rd.last_pos
      secs == IF fresh THEN MessageAt(line.pos) ELSE rd.buf
      next == line.submsg = 1 + (IF fresh THEN -1 ELSE rd.last_submsg)
      found == IF next THEN parse_next_msg(secs, sec) ELSE FromFirst(secs, line.submsg)
  IN  IF secs = None THEN Stop
      ELSE IF found = Bad THEN Stop
      ELSE IF found = Ended THEN End
      ELSE Found(line, secs, found)

DumpLine == [msg_no |-> rd.msg_no, pos |-> rd.pos, submsg |-> sw.dump_submsg]

\* The head of the loop.  After -d its message number is -1.
ReadRecord ==
  /\ phase = "read"
  /\ IF run.last_message THEN End /\ UNCHANGED sw
     ELSE IF sw.input = "all" THEN ReadAll /\ UNCHANGED sw
     ELSE IF sw.input = "inv"
     THEN (IF rd.lines = <<>> THEN End ELSE Seek(Head(rd.lines))) /\ UNCHANGED sw
     ELSE IF sw.dump_msg = -1 THEN End /\ UNCHANGED sw
     ELSE Seek(DumpLine) /\ sw' = [sw EXCEPT !.dump_msg = -1]
  /\ UNCHANGED <<job, j, run, grid, data, regs, local, files, inventory>>

----------------------------------------------------------------------------
(* Selecting. *)

c == Contents(rd.buf, sec)

Within(n, range) ==
  n >= range.start /\ n <= range.end /\ (n - range.start) % range.step = 0

Matches(o, record) == record[4].par \in o.pars

\* Whether -match and -not, or -match_fs and -not_fs, let the record pass.
is_match(patterns) ==
  \A i \in 1 .. Len(patterns) :
    LET o == patterns[i]
    IN  /\ o.kind \in {"match", "match_fs"} => Matches(o, c)
        /\ o.kind \in {"not", "not_fs"} => ~Matches(o, c)

\* What -if and its like are told.
Results(patterns) == [i \in 1 .. Len(patterns) |-> IF Matches(patterns[i], c) THEN 0 ELSE 1]

NextSubmsg == phase' = "read" /\ UNCHANGED <<j, grid, data, inventory>>

\* Mutant: a record that does not match is counted.
CountAll(n) == rd' = [rd EXCEPT !.submsg = @ + 1, !.inv_no = rd.inv_no + 1]

\* The record is passed over, the number of the inventory becoming n.
Counted(n) == rd' = [rd EXCEPT !.submsg = @ + 1, !.inv_no = n]

SelectRecord ==
  /\ phase = "select"
  /\ LET inv_no == rd.inv_no + 1
         fixed == Results(sw.matches_fs)
         results == Results(sw.matches)
     IN  IF sw.only_submsg > 0 /\ sw.only_submsg # rd.submsg
         THEN Counted(rd.inv_no) /\ NextSubmsg /\ UNCHANGED run
         ELSE IF sw.for # NoRange /\ ~Within(rd.msg_no, sw.for)
         THEN /\ Counted(rd.inv_no)
              /\ NextSubmsg
              /\ run' = [run EXCEPT !.last_message =
                           @ \/ (rd.msg_no > sw.for.end /\ sw.input # "inv")]
         ELSE IF ~is_match(sw.matches_fs) THEN Counted(rd.inv_no) /\ NextSubmsg /\ UNCHANGED run
         ELSE IF ~is_match(sw.matches)
         THEN Counted(rd.inv_no) /\ NextSubmsg /\ run' = [run EXCEPT !.match_fs_val = fixed]
         ELSE IF sw.for_n # NoRange /\ ~Within(inv_no, sw.for_n)
         THEN /\ Counted(inv_no)
              /\ NextSubmsg
              /\ run' = [match_val |-> results, match_fs_val |-> fixed, match_flag |-> 0,
                         last_message |-> run.last_message \/ inv_no > sw.for_n.end]
         ELSE /\ rd' = [rd EXCEPT !.inv_no = inv_no]
              /\ run' = [run EXCEPT !.match_val = results, !.match_fs_val = fixed, !.match_flag = 0]
              /\ phase' = "decode"
              /\ UNCHANGED <<j, grid, data, inventory>>
  /\ UNCHANGED <<job, sw, sec, regs, local, files>>

----------------------------------------------------------------------------
(* Decoding. *)

Order(gds) ==
  CASE sw.order = "we:sn" -> to_we_sn_scan(gds.scan, gds.nx, gds.ny)
    [] sw.order = "we:ns" -> to_we_ns_scan(gds.scan, gds.nx, gds.ny)
    [] OTHER              -> None

\* Mutant: the table is not made again for a grid of the same size.
TranslationKept(gds) ==
  IF grid.translation # None /\ gds.nx * gds.ny = Len(grid.translation)
  THEN grid.translation ELSE Order(gds)

Translation(gds) == Order(gds)

Decoded(new, points) ==
  /\ grid' = [old_gds |-> c[3], points |-> points,
              GDS_change_no |-> grid.GDS_change_no + (IF new THEN 1 ELSE 0),
              translation |-> IF sw.decode /\ sw.save_translation THEN Translation(c[3])
                              ELSE grid.translation]
  /\ data' = IF sw.decode THEN Ordered(unpk_grib(c), Order(c[3])) ELSE None
  /\ inventory' = Append(inventory, [line |-> <<rd.msg_no, rd.submsg, rd.pos>>, n |-> rd.inv_no])
  /\ j' = 1
  /\ phase' = "options"

\* A new grid is counted, and its points are found when an option needs them; the line of
\* the inventory begins.
DecodeRecord ==
  /\ phase = "decode"
  /\ LET new == c[3] # grid.old_gds
         points == IF new /\ sw.latlon THEN get_latlon(c[3]) ELSE grid.points
     IN  IF points = Refused
         THEN phase' = "fatal" /\ UNCHANGED <<j, grid, data, inventory>>
         ELSE Decoded(new, points)
  /\ UNCHANGED <<job, sw, rd, sec, run, regs, local, files>>

----------------------------------------------------------------------------
(* The options for one record. *)

Option == arglist[j]

InOptions == phase = "options" /\ j <= Len(arglist)

\* An output option ends the conditional part, even when it is passed over.
SkipOption ==
  /\ InOptions
  /\ run.match_flag = 1
  /\ run' = [run EXCEPT !.match_flag = IF Option.kind \in Output THEN 0 ELSE 1]
  /\ j' = j + 1
  /\ UNCHANGED <<job, phase, sw, rd, sec, grid, data, regs, local, files, inventory>>

Called(kinds) == InOptions /\ run.match_flag # 1 /\ Option.kind \in kinds /\ j' = j + 1

SetupOption ==
  /\ Called(Setup \cup {"s", "fi"})
  /\ UNCHANGED <<job, phase, sw, rd, sec, run, grid, data, regs, local, files, inventory>>

\* The flag set by a condition: 1 when the options up to the next output are passed
\* over.
Condition(o) ==
  CASE o.kind = "if"     -> run.match_val[local[j].match_cnt]
    [] o.kind = "not_if" -> 1 - run.match_val[local[j].match_cnt]
    [] o.kind = "if_fs"  -> run.match_fs_val[local[j].match_cnt]
    [] o.kind = "not_if_fs" -> 1 - run.match_fs_val[local[j].match_cnt]
    [] o.kind = "if_n"   -> IF Within(rd.inv_no, o.range) THEN 0 ELSE 1
    [] o.kind = "if_rec" -> IF Within(rd.msg_no, o.range) THEN 0 ELSE 1
    [] o.kind = "if_reg" -> f_if_reg(o.regs, regs)

IfOption ==
  /\ Called(Conditions)
  /\ run' = [run EXCEPT !.match_flag = Condition(Option)]
  /\ UNCHANGED <<job, phase, sw, rd, sec, grid, data, regs, local, files, inventory>>

\* -limit counts the records that are decoded.
LimitOption ==
  /\ Called({"limit", "end"})
  /\ IF Option.kind = "end"
     THEN run' = [run EXCEPT !.last_message = TRUE] /\ UNCHANGED local
     ELSE IF ~sw.decode THEN UNCHANGED <<run, regs, local>>
     ELSE /\ local' = [local EXCEPT ![j].left = @ - 1]
          /\ run' = [run EXCEPT !.last_message = @ \/ local[j].left = 1]
  /\ UNCHANGED <<job, phase, sw, rd, sec, grid, data, regs, files, inventory>>

\* -submsg, -gctpc, -header and the settings of -new_grid are set again for every record.
SwitchOption ==
  /\ Called(Switches)
  /\ sw' = IF Option.kind \in NewGridOptions
           THEN [sw EXCEPT !.new_grid = NewGridSet(Option, @)] ELSE Switched(Option)
  /\ UNCHANGED <<job, phase, rd, sec, run, grid, data, regs, local, files, inventory>>

\* The time ranges that follow each other.
Elapsed(ranges) ==
  LET sum[i \in 0 .. Len(ranges)] ==
        IF i = 0 THEN 0
        ELSE sum[i - 1] + (IF ranges[i].inc \in {1, 2} THEN ranges[i].len ELSE 0)
  IN  sum[Len(ranges)]

\* A relative -set_date writes the reference time and the end of the time ranges into
\* the sections in the buffer.
SetDateOption ==
  /\ Called({"set_date"})
  /\ rd' = [rd EXCEPT !.buf[sec[1]].ref = @ + Option.shift,
                      !.buf[sec[4]].end = IF Statistical(c[4])
                                          THEN c[1].ref + Option.shift + c[4].ft
                                               + Elapsed(c[4].ranges)
                                          ELSE @]
  /\ UNCHANGED <<job, phase, sw, sec, run, grid, data, regs, local, files, inventory>>

NOption ==
  /\ Called({"n"})
  /\ inventory' = Append(inventory, [n |-> rd.inv_no])
  /\ UNCHANGED <<job, phase, sw, rd, sec, run, grid, data, regs, local, files>>

\* What is written for the points found.
AtPoints(o, iptr) ==
  CASE o.kind \in PlaceLines -> PointLine(o, iptr, grid.points, data)
    [] o.kind = "lola"       -> f_lola(o, iptr, c, data)
    [] o.kind = "ijbox"      -> f_ijbox(o, iptr, c[3], data)

\* The points are kept until the grid changes.
Iptrs(o, l) ==
  IF l.last_GDS_change_no = grid.GDS_change_no THEN {l.iptr}
  ELSE Found_iptr(o, c[3], grid.points, sw.order, sw.use_gctpc)

PlaceOption ==
  /\ InOptions
  /\ run.match_flag # 1
  /\ Option.kind \in AtPlace
  /\ \E iptr \in Iptrs(Option, local[j]) :
       IF iptr = None THEN phase' = "fatal" /\ UNCHANGED <<j, local, files, inventory>>
       ELSE /\ local' = [local EXCEPT ![j] = [iptr |-> iptr,
                                              last_GDS_change_no |-> grid.GDS_change_no]]
            /\ LET out == AtPoints(Option, iptr)
               IN  IF Option.kind \in PlaceLines
                   THEN inventory' = Append(inventory, out) /\ UNCHANGED files
                   ELSE /\ files' = [files EXCEPT ![Option.file] = Append(@, out)]
                        /\ UNCHANGED inventory
            /\ j' = j + 1
            /\ UNCHANGED phase
  /\ UNCHANGED <<job, sw, rd, sec, run, grid, data, regs>>

RasterOption ==
  /\ Called(Rasters)
  /\ files' = [files EXCEPT ![Option.file] = f_AAIG(Option.kind, @, c, data, grid.points)]
  /\ UNCHANGED <<job, phase, sw, rd, sec, run, grid, data, regs, local, inventory>>

\* -rpn: the field, the registers and what is printed; the program may stop.
RpnOption ==
  /\ InOptions
  /\ run.match_flag # 1
  /\ Option.kind = "rpn"
  /\ \E row \in StaleRows, rand \in RandomNumbers :
       \E end \in {f_rpn(Option.tokens, data, regs, c, grid.points, row, rand)} :
           IF ~end.ok THEN phase' = "fatal" /\ UNCHANGED <<j, data, regs, inventory>>
           ELSE /\ data' = end.data
                /\ regs' = end.regs
                /\ inventory' = inventory \o end.out
                /\ j' = j + 1
                /\ UNCHANGED phase
  /\ UNCHANGED <<job, sw, rd, sec, run, grid, local, files>>

RclOption ==
  /\ InOptions
  /\ run.match_flag # 1
  /\ Option.kind = "rpn_rcl"
  /\ LET field == f_rpn_rcl(Option.n, data, regs)
     IN  IF field = None THEN phase' = "fatal" /\ UNCHANGED <<j, data>>
         ELSE data' = field /\ j' = j + 1 /\ UNCHANGED phase
  /\ UNCHANGED <<job, sw, rd, sec, run, grid, regs, local, files, inventory>>

StoOption ==
  /\ Called({"rpn_sto"})
  /\ regs' = f_rpn_sto(Option.n, data, regs)
  /\ UNCHANGED <<job, phase, sw, rd, sec, run, grid, data, local, files, inventory>>

UndefineOption ==
  /\ Called(Undefining)
  /\ data' = CASE Option.kind = "undefine"     -> f_undefine(Option, data, grid.points)
              [] Option.kind = "ijundefine"   -> f_ijundefine(Option, data, c[3])
              [] Option.kind = "undefine_val" -> f_undefine_val(Option, data)
  /\ UNCHANGED <<job, phase, sw, rd, sec, run, grid, regs, local, files, inventory>>

\* The next submessage of the other file: [l, c], None when the program stops.
Imported(o, l) ==
  LET first == l.submsg = 0
      pos == IF first THEN l.pos + 1 ELSE l.pos
      secs == o.messages[pos]
      to == IF first THEN parse_1st_msg(secs, l.sec) ELSE parse_next_msg(secs, l.sec)
      last == num_submsgs(secs) = l.submsg + 1
  IN  IF pos > Len(o.messages) THEN None
      ELSE IF to \in {Bad, Ended} THEN None
      ELSE [l |-> [pos |-> pos, submsg |-> IF last THEN 0 ELSE l.submsg + 1, sec |-> to],
            c |-> Contents(secs, to)]

\* -import_grib replaces the field by that of a record of another file with as many
\* points.
ImportOption ==
  /\ InOptions
  /\ run.match_flag # 1
  /\ Option.kind = "import_grib"
  /\ LET next == Imported(Option, local[j])
         Fits == npnts(next.c) = Len(data)
     IN  IF IF next = None THEN TRUE ELSE ~Fits
         THEN phase' = "fatal" /\ UNCHANGED <<j, data, local>>
         ELSE /\ data' = Ordered(unpk_grib(next.c), Order(next.c[3]))
              /\ local' = [local EXCEPT ![j] = next.l]
              /\ j' = j + 1
              /\ UNCHANGED phase
  /\ UNCHANGED <<job, sw, rd, sec, run, grid, regs, files, inventory>>

\* The words of the next field in a file: its size is before it, and behind it unless the
\* file is a text, when there are headers.
NextField(o, l, gds, n) ==
  LET text == o.kind = "import_text"
      head == IF ~sw.header THEN <<>> ELSE IF text THEN <<gds.nx, gds.ny>> ELSE <<n>>
      tail == IF ~sw.header \/ text THEN <<>> ELSE <<n>>
      length == Len(head) + n + Len(tail)
      words == SubSeq(o.words, l.words + 1, l.words + length)
  IN  IF Len(o.words) < l.words + length THEN None
      ELSE IF SubSeq(words, 1, Len(head)) # head \/ SubSeq(words, Len(head) + n + 1, length) # tail
      THEN None
      ELSE [l |-> [words |-> l.words + length], field |-> SubSeq(words, Len(head) + 1, Len(head) + n)]

\* -import_text, -import_ieee and -import_bin replace the field by the next of a file.
FieldOption ==
  /\ InOptions
  /\ run.match_flag # 1
  /\ Option.kind \in Imports
  /\ LET next == NextField(Option, local[j], c[3], Len(data))
     IN  IF next = None THEN phase' = "fatal" /\ UNCHANGED <<j, data, local>>
         ELSE /\ data' = next.field
              /\ local' = [local EXCEPT ![j] = next.l]
              /\ j' = j + 1
              /\ UNCHANGED phase
  /\ UNCHANGED <<job, sw, rd, sec, run, grid, regs, files, inventory>>

\* What an option that writes a file does with the record.
Step(o, l) ==
  CASE o.kind = "grib"         -> Write(l, wrt_sec(c))
    [] o.kind = "GRIB"         -> Write(l, rd.buf)
    [] o.kind = "bin"          -> Write(l, data)
    [] o.kind = "grib_out"     -> Write(l, grib_wrt(c, c[4],
                                              undo_output_order(data, grid.translation)))
    [] o.kind = "ave0"         -> f_ave0(o, l, c, data, grid.translation)
    [] o.kind = "fcst_ave0"    -> f_fcst_ave0(o, l, c, data, grid.translation)
    [] o.kind \in {"ave", "fcst_ave"} -> f_time_processing(o, l, c, data, grid.translation)
    [] o.kind = "merge_fcst"   -> f_merge_fcst(o, l, c, data, grid.translation)
    [] o.kind = "ncep_norm"    -> f_ncep_norm(l, c, data, grid.translation)
    [] o.kind = "wind_speed"   -> f_wind_speed(l, c, data, grid.translation)
    [] o.kind = "wind_dir"     -> f_wind_dir(l, c, data, grid.translation)
    [] o.kind = "ncep_uv"      -> f_ncep_uv(l, c)
    [] o.kind = "submsg_uv"    -> f_submsg_uv(l, c)
    [] o.kind = "tosubmsg"     -> write_tosubmsg(l, c)
    [] o.kind = "ave_var"      -> f_ave_var(o, l, c, data, grid.translation)
    [] o.kind = "text"         -> f_text(l, c[3], data)
    [] o.kind = "spread"       -> f_spread(l, c, data, grid.points)
    [] o.kind \in {"csv", "csv_long"} -> f_csv(o, l, c, data, grid.points)
    [] o.kind = "grib_out_irr" -> f_grib_out_irr(o, l, c, data, grid.points)
    [] o.kind = "grib_out_irr2" -> f_grib_out_irr2(o, l, c, data)
    [] o.kind = "new_grid"     -> f_new_grid(o, l, c, data, sw.new_grid, sw.order)
    [] o.kind = "ijsmall_grib" -> f_ijsmall_grib(o, l, c, data, grid.points, sw.order)
    [] o.kind = "small_grib"   -> f_small_grib(o, l, c, data, grid.points, sw.order,
                                               grid.GDS_change_no)

OutputOption ==
  /\ InOptions
  /\ run.match_flag # 1
  /\ Option.kind \in Appending
  /\ LET step == Step(Option, local[j])
     IN  IF step = None THEN phase' = "fatal" /\ UNCHANGED <<j, local, files>>
         ELSE /\ local' = [local EXCEPT ![j] = step.loc]
              /\ files' = [files EXCEPT ![Option.file] = @ \o step.out]
              /\ j' = j + 1
              /\ UNCHANGED phase
  /\ UNCHANGED <<job, sw, rd, sec, run, grid, data, regs, inventory>>

\* The record goes into the netCDF file, or is not one for it, or the program stops.
NetcdfOption ==
  /\ InOptions
  /\ run.match_flag # 1
  /\ Option.kind = "netcdf"
  /\ \E unset \in UnsetRanges :
       \E l \in {f_netcdf(local[j], c, data, grid.points, grid.GDS_change_no, sw.nc.pack, unset)} :
           IF l = None THEN phase' = "fatal" /\ UNCHANGED <<j, local, files>>
           ELSE /\ local' = [local EXCEPT ![j] = l]
                /\ files' = NcFile(Option, l)
                /\ j' = j + 1
                /\ UNCHANGED phase
  /\ UNCHANGED <<job, sw, rd, sec, run, grid, data, regs, inventory>>

RecordDone ==
  /\ phase = "options"
  /\ j > Len(arglist)
  /\ rd' = [rd EXCEPT !.submsg = @ + 1]
  /\ phase' = IF sw.input = "dump" /\ sw.dump_msg > 0 THEN "final" ELSE "read"
  /\ UNCHANGED <<job, j, sw, sec, run, grid, data, regs, local, files, inventory>>

----------------------------------------------------------------------------
(* The end. *)

LastStep(o, l) ==
  CASE o.kind = "ave_var"    -> LastAveVar(o, l)
    [] o.kind \in Statistics \ {"ave_var"} -> LastSeries(o, l)
    [] o.kind \in Uv         -> LastU(l)
    [] o.kind = "tosubmsg"   -> cleanup_tosubmsg(l)
    [] OTHER                 -> Keep(l)

\* All options are called with mode -2, in one step here: each has a file of its own or
\* appends to a shared one in the order of the command line.
Finalize ==
  /\ phase = "final"
  /\ phase' = "done"
  /\ LET written[i \in 0 .. Len(arglist)] ==
           IF i = 0 THEN files
           ELSE IF arglist[i].kind \notin Appending THEN written[i - 1]
           ELSE [written[i - 1] EXCEPT ![arglist[i].file] =
                   @ \o LastStep(arglist[i], local[i]).out]
     IN  files' = written[Len(arglist)]
  /\ UNCHANGED <<job, j, sw, rd, sec, run, grid, data, regs, local, inventory>>

Init ==
  /\ job \in Jobs
  /\ phase = "init"
  /\ j = 1
  /\ sw = init_globals
  /\ rd = [msg_no |-> 1, inv_no |-> 0, submsg |-> 0, pos |-> 0, last_pos |-> -1,
           last_submsg |-> -1, lines |-> job.lines, buf |-> <<>>]
  /\ sec = NoSections
  /\ run = [match_val |-> <<>>, match_fs_val |-> <<>>, match_flag |-> 0, last_message |-> FALSE]
  /\ grid = [old_gds |-> None, GDS_change_no |-> 0, translation |-> None, points |-> None]
  /\ data = None
  /\ regs = <<>>
  /\ local = <<>>
  /\ files = [f \in FileNames |-> IF f = "asc" THEN <<>> ELSE <<IF f = "nc" THEN job.nc ELSE None>>]
  /\ inventory = <<>>

Stopped == phase \in {"done", "failed", "fatal"} /\ UNCHANGED vars

Next ==
  \/ InitOption \/ InitDone \/ SkipToDump \/ ReadRecord \/ SelectRecord \/ DecodeRecord
  \/ SkipOption \/ SetupOption \/ IfOption \/ LimitOption \/ SwitchOption \/ SetDateOption
  \/ NOption \/ PlaceOption \/ RasterOption \/ RpnOption \/ RclOption \/ StoOption \/ UndefineOption
  \/ ImportOption \/ FieldOption \/ OutputOption \/ NetcdfOption \/ RecordDone \/ Finalize
  \/ Stopped

Spec == Init /\ [][Next]_vars
=============================================================================
