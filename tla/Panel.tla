-------------------------------- MODULE Panel --------------------------------
(***************************************************************************)
(* The screen (gui/prp_fbdev.c) and the touch on it (gui/prp_gui.c): LVGL  *)
(* draws on a logical display, the flush writes every logical pixel as a   *)
(* block of the panel, and the touch driver's panel coordinates are mapped *)
(* back.  A panel is a record: width, height, line (bytes per line), mem   *)
(* (bytes mapped), bytes (per pixel), xoff, yoff.                          *)
(***************************************************************************)
EXTENDS Integers, FiniteSets, FiniteSetsExt

\* main: the factor comes from the scale in percent.
Factor(pct) == IF pct \div 100 < 1 THEN 1 ELSE pct \div 100

Logical(fb, s) == [width |-> fb.width \div s, height |-> fb.height \div s]

Smaller(m, n) == IF m < n THEN m ELSE n
Larger(m, n) == IF m > n THEN m ELSE n

\* row_ptr: where in the mapping a pixel begins; NULL at its end and behind it.
Offset(fb, x, y) == (y + fb.yoff) * fb.line + (x + fb.xoff) * fb.bytes
Mapped(fb, x, y) == Offset(fb, x, y) < fb.mem

\* prp_fbdev_flush's part of an area that is on the panel.
Clip(fb, area) ==
  [x1 |-> Larger(area.x1, 0), y1 |-> Larger(area.y1, 0),
   x2 |-> Smaller(area.x2, fb.width - 1), y2 |-> Smaller(area.y2, fb.height - 1)]

OffPanel(fb, area) ==
  \/ area.x2 < 0 \/ area.y2 < 0
  \/ area.x1 > fb.width - 1 \/ area.y1 > fb.height - 1

\* The panel's pixels a logical pixel is written to; the loops break at the
\* panel's edge.
Blocks(fb, s, lx, ly) ==
  {p \in {<<lx * s + sx, ly * s + sy>> : sx \in 0..(s - 1), sy \in 0..(s - 1)} :
     p[1] < fb.width /\ p[2] < fb.height}

\* Is p written?  When the display is scaled each pixel is looked up by itself,
\* otherwise only the first one of its row of the area; a row that is not mapped
\* ends the loop, and no row after it is mapped either.
Reached(fb, s, c, p) == IF s > 1 THEN Mapped(fb, p[1], p[2]) ELSE Mapped(fb, c.x1, p[2])

\* (mutant of Flush) the buffer's lines are as long as the panel's
FlushByPanelLine(fb, s, area) ==
  LET c == Clip(fb, area)
  IN  IF OffPanel(fb, area) THEN {}
      ELSE UNION {{[at |-> Offset(fb, p[1], p[2]),
                    from |-> (ly - c.y1) * fb.width + (lx - c.x1)] :
                     p \in {q \in Blocks(fb, s, lx, ly) : Reached(fb, s, c, q)}} :
                  lx \in c.x1..c.x2, ly \in c.y1..c.y2}

\* prp_fbdev_flush: the writes, each from an element of LVGL's buffer to an
\* offset of the mapping.  The buffer's lines are w long, the clipped width.
Flush(fb, s, area) ==
  LET c == Clip(fb, area)
      w == c.x2 - c.x1 + 1
  IN  IF OffPanel(fb, area) THEN {}
      ELSE UNION {{[at |-> Offset(fb, p[1], p[2]),
                    from |-> (ly - c.y1) * w + (lx - c.x1)] :
                     p \in {q \in Blocks(fb, s, lx, ly) : Reached(fb, s, c, q)}} :
                  lx \in c.x1..c.x2, ly \in c.y1..c.y2}

\* (mutant of Touched) the last panel columns are not limited
TouchedUnclamped(raw, s, logical) == raw \div s

\* prp_evdev_read_scaled, one coordinate; without scaling the driver has
\* limited it to the display already.
Touched(raw, s, logical) == Smaller(raw \div s, logical - 1)

-----------------------------------------------------------------------------
(* What the screen and the touch are for. *)

\* The panel's pixels that show a logical pixel of the area.
Showing(fb, s, area) ==
  {p \in (0..(fb.width - 1)) \X (0..(fb.height - 1)) :
     p[1] \div s \in area.x1..area.x2 /\ p[2] \div s \in area.y1..area.y2}

\* Each of them gets its pixel of LVGL's buffer, within the mapping, and nothing
\* else is written.
Draws(fb, s, area, writes) ==
  /\ writes = {[at |-> (p[2] + fb.yoff) * fb.line + (p[1] + fb.xoff) * fb.bytes,
                from |-> (p[2] \div s - area.y1) * (area.x2 - area.x1 + 1)
                           + (p[1] \div s - area.x1)] : p \in Showing(fb, s, area)}
  /\ \A t \in writes : t.at + fb.bytes <= fb.mem

\* A touch goes to a pixel of the display, to the one that is shown where it was.
Hits(raw, s, logical, pixel) ==
  /\ pixel \in 0..(logical - 1)
  /\ raw < logical * s => \E sx \in 0..(s - 1) : raw = pixel * s + sx

=============================================================================
