----------------------------- MODULE LedColour ------------------------------
(***************************************************************************)
(* The arithmetic of WS2812Led.c, with the widths of its C types: colours  *)
(* are 8 bits, a gradient is followed with 8 bits of fraction in 16, and   *)
(* quotients of signed numbers are truncated toward zero.  The table of    *)
(* the gamma correction, which is applied last, is left out.               *)
(***************************************************************************)
EXTENDS Integers

Byte(x) == x % 256
Word(x) == x % 65536

\* A 16-bit pattern read as int16_t.
Signed16(x) == IF Word(x) >= 32768 THEN Word(x) - 65536 ELSE Word(x)

\* The quotient of C, for n > 0.
Quotient(x, n) == IF x >= 0 THEN x \div n ELSE -((-x) \div n)

Scale8(x, scale) == Byte((x * scale) \div 256)

\* SCALE8_NZ, "video" dimming
Scale8Nz(x, scale) == Scale8(x, scale) + (IF x # 0 /\ scale # 0 THEN 1 ELSE 0)

-----------------------------------------------------------------------------
(* get_gradient_iter and the steps that follow it *)

\* The direction a gradient takes, for a difference of hues.
Direction(dir, hueDelta) ==
  CASE dir = "shortest" -> IF hueDelta > 127 THEN "bwd" ELSE "fwd"
    [] dir = "longest" -> IF hueDelta < 128 THEN "bwd" ELSE "fwd"
    [] OTHER -> dir

\* Mutant: the distance backward is not cut to 8 bits.
Mut_HueDistance(start, end, dir) ==
  LET hueDelta == Byte(end.h - start.h)
  IN IF Direction(dir, hueDelta) = "fwd"
       THEN Signed16(hueDelta * 128)
       ELSE Signed16(-((256 - hueDelta) * 128))

\* The distance of the hues, s[8 7].
HueDistance(start, end, dir) ==
  LET hueDelta == Byte(end.h - start.h)
  IN IF Direction(dir, hueDelta) = "fwd"
       THEN Signed16(hueDelta * 128)
       ELSE Signed16(-(Byte(256 - hueDelta) * 128))

\* The increments of a step, u[8 8].
GradientDelta(start, end, dir, numSteps) ==
  LET Delta(dist_7) == Word(Quotient(dist_7, numSteps) * 2)
  IN [h |-> Delta(HueDistance(start, end, dir)),
      s |-> Delta(Signed16((end.s - start.s) * 128)),
      v |-> Delta(Signed16((end.v - start.v) * 128))]

\* The colour after so many steps: the accumulators wrap at 16 bits.
GradientAt(start, delta, i) ==
  LET At(first, inc) == Word(first * 256 + i * inc) \div 256
  IN [h |-> At(start.h, delta.h), s |-> At(start.s, delta.s), v |-> At(start.v, delta.v)]

-----------------------------------------------------------------------------
(* hsv2rgb and get_heatcolor *)

Hsv2Rgb(hsv) ==
  LET region == hsv.h \div 43
      remainder == Byte((hsv.h - region * 43) * 6)
      p == Byte((hsv.v * (255 - hsv.s)) \div 256)
      q == Byte((hsv.v * (255 - ((hsv.s * remainder) \div 256))) \div 256)
      t == Byte((hsv.v * (255 - ((hsv.s * (255 - remainder)) \div 256))) \div 256)
      RGB(r, g, b) == [r |-> r, g |-> g, b |-> b]
  IN IF hsv.s = 0 THEN RGB(hsv.v, hsv.v, hsv.v)
     ELSE CASE region = 0 -> RGB(hsv.v, t, p)
            [] region = 1 -> RGB(q, hsv.v, p)
            [] region = 2 -> RGB(p, hsv.v, t)
            [] region = 3 -> RGB(p, q, hsv.v)
            [] region = 4 -> RGB(t, p, hsv.v)
            [] OTHER -> RGB(hsv.v, p, q)

HeatColor(temperature) ==
  LET t192 == Scale8Nz(temperature, 191)
      heatramp == Byte((t192 % 64) * 4)
      RGB(r, g, b) == [r |-> r, g |-> g, b |-> b]
  IN CASE t192 >= 128 -> RGB(255, 255, heatramp)
       [] t192 \in 64..127 -> RGB(255, heatramp, 0)
       [] OTHER -> RGB(heatramp, 0, 0)

-----------------------------------------------------------------------------

Between(x, a, b) == (a <= x /\ x <= b) \/ (b <= x /\ x <= a)

\* Every colour of a gradient lies between its two ends, on the arc of hues the
\* direction asks for, although the accumulators are unsigned and the increments are
\* not: no step overshoots an end or wraps around zero.
GradientStaysBetween(start, end, dir, numSteps) ==
  LET delta == GradientDelta(start, end, dir, numSteps)
      hueDelta == Byte(end.h - start.h)
  IN \A i \in 0..numSteps :
       LET c == GradientAt(start, delta, i)
       IN /\ Between(c.s, start.s, end.s)
          /\ Between(c.v, start.v, end.v)
          /\ IF Direction(dir, hueDelta) = "fwd"
               THEN Byte(c.h - start.h) <= hueDelta
               ELSE Byte(start.h - c.h) <= Byte(256 - hueDelta)

\* The sum of the channels.
Brightness(rgb) == rgb.r + rgb.g + rgb.b

Apart(x, y) == IF x > y THEN x - y ELSE y - x

\* No region of hsv2rgb or third of get_heatcolor ends in a jump: hues that differ by
\* one (the colour circle is closed) give colours that hardly differ, the largest
\* channel is the value asked for, and a hotter cell is never darker.
ColoursAreSmooth(hsv, jump) ==
  LET rgb == Hsv2Rgb(hsv)
      near == Hsv2Rgb([hsv EXCEPT !.h = Byte(hsv.h + 1)])
  IN /\ \A c \in {"r", "g", "b"} : Apart(rgb[c], near[c]) <= jump /\ rgb[c] <= hsv.v
     /\ \E c \in {"r", "g", "b"} : rgb[c] = hsv.v
     /\ hsv.h < 255 => Brightness(HeatColor(hsv.h)) <= Brightness(HeatColor(hsv.h + 1))
=============================================================================
