-------------------------- MODULE ReferencePrograms -------------------------
(* Three compiled C programs of tests/tests_bin, whose traces are recorded in *)
(* tests/tests_ref/interpret_debug, an assembled one, all with their whole    *)
(* text and data, and a program written for its calls.                        *)
EXTENDS Loader

\* tests_bin/1.c.out: 320 bytes of text, 20 of data.
Text1 == <<
  49, 237, 137, 227, 139, 7, 141, 87, 2, 141, 79, 4, 1, 193, 1, 193, 187, 16, 0, 129, 251, 20, 0, 115, 15,
  246, 195, 1, 117, 10, 129, 63, 83, 83, 117, 4, 137, 30, 2, 0, 139, 30, 2, 0, 137, 15, 81, 82, 80, 232, 5, 0,
  80, 232, 51, 0, 244, 85, 137, 229, 184, 6, 0, 80, 184, 4, 0, 80, 184, 1, 0, 80, 232, 65, 0, 131, 196, 6,
  233, 228, 0, 85, 137, 229, 86, 139, 54, 12, 0, 78, 124, 12, 137, 243, 209, 227, 139, 159, 22, 0, 255, 211,
  235, 241, 233, 201, 0, 85, 137, 229, 232, 224, 255, 131, 62, 14, 0, 0, 116, 6, 139, 30, 14, 0, 255, 211,
  255, 118, 4, 232, 4, 0, 91, 233, 173, 0, 233, 5, 0, 0, 233, 33, 0, 0, 85, 137, 229, 131, 236, 24, 139, 86,
  4, 137, 86, 236, 141, 70, 232, 80, 184, 1, 0, 80, 49, 192, 80, 232, 51, 0, 131, 196, 6, 233, 133, 0, 85,
  137, 229, 131, 236, 24, 139, 86, 4, 137, 86, 236, 139, 86, 8, 137, 86, 238, 139, 86, 6, 137, 86, 242, 141,
  70, 232, 80, 184, 4, 0, 80, 184, 1, 0, 80, 232, 6, 0, 131, 196, 6, 233, 88, 0, 85, 137, 229, 86, 87, 139,
  118, 8, 139, 86, 6, 137, 84, 2, 86, 255, 118, 4, 232, 47, 0, 91, 91, 137, 199, 9, 255, 116, 3, 137, 124, 2,
  131, 124, 2, 0, 125, 14, 139, 84, 2, 247, 218, 137, 22, 18, 0, 184, 255, 255, 235, 3, 139, 68, 2, 233, 28,
  0, 185, 1, 0, 235, 10, 185, 2, 0, 235, 5, 185, 3, 0, 235, 0, 85, 137, 229, 139, 70, 4, 139, 94, 6, 205, 32,
  93, 195, 95, 94, 137, 236, 93, 195, 94, 95, 235, 248, 0, 0, 0, 0, 0, 20, 0, 104, 101, 108, 108, 111, 10, 0,
  0, 0, 0, 0, 0, 83, 83, 0, 0 >>

Program1 == Load(Text1, 320, 20, << <<49, 46, 99, 46, 111, 117, 116>> >>)

\* tests_bin/2.c.out: 336 bytes of text, 12 of data.
Text2 == <<
  49, 237, 137, 227, 139, 7, 141, 87, 2, 141, 79, 4, 1, 193, 1, 193, 187, 8, 0, 129, 251, 12, 0, 115, 15, 246,
  195, 1, 117, 10, 129, 63, 83, 83, 117, 4, 137, 30, 2, 0, 139, 30, 2, 0, 137, 15, 81, 82, 80, 232, 5, 0, 80,
  232, 69, 0, 244, 85, 137, 229, 184, 97, 0, 80, 232, 4, 0, 91, 233, 0, 1, 85, 137, 229, 184, 1, 0, 80, 141,
  70, 4, 80, 184, 1, 0, 80, 232, 69, 0, 131, 196, 6, 138, 70, 4, 152, 233, 228, 0, 85, 137, 229, 86, 139, 54,
  4, 0, 78, 124, 12, 137, 243, 209, 227, 139, 159, 14, 0, 255, 211, 235, 241, 233, 201, 0, 85, 137, 229, 232,
  224, 255, 131, 62, 6, 0, 0, 116, 6, 139, 30, 6, 0, 255, 211, 255, 118, 4, 232, 4, 0, 91, 233, 173, 0, 233,
  5, 0, 0, 233, 33, 0, 0, 85, 137, 229, 131, 236, 24, 139, 86, 4, 137, 86, 236, 141, 70, 232, 80, 184, 1, 0,
  80, 49, 192, 80, 232, 51, 0, 131, 196, 6, 233, 133, 0, 85, 137, 229, 131, 236, 24, 139, 86, 4, 137, 86, 236,
  139, 86, 8, 137, 86, 238, 139, 86, 6, 137, 86, 242, 141, 70, 232, 80, 184, 4, 0, 80, 184, 1, 0, 80, 232, 6,
  0, 131, 196, 6, 233, 88, 0, 85, 137, 229, 86, 87, 139, 118, 8, 139, 86, 6, 137, 84, 2, 86, 255, 118, 4, 232,
  47, 0, 91, 91, 137, 199, 9, 255, 116, 3, 137, 124, 2, 131, 124, 2, 0, 125, 14, 139, 84, 2, 247, 218, 137,
  22, 10, 0, 184, 255, 255, 235, 3, 139, 68, 2, 233, 28, 0, 185, 1, 0, 235, 10, 185, 2, 0, 235, 5, 185, 3, 0,
  235, 0, 85, 137, 229, 139, 70, 4, 139, 94, 6, 205, 32, 93, 195, 95, 94, 137, 236, 93, 195, 94, 95, 235, 248,
  0, 0, 0, 12, 0, 0, 0, 0, 0, 83, 83, 0, 0 >>

Program2 == Load(Text2, 336, 12, << <<50, 46, 99, 46, 111, 117, 116>> >>)

\* tests_bin/6.c.out: 400 bytes of text, 12 of data.
Text6 == <<
  49, 237, 137, 227, 139, 7, 141, 87, 2, 141, 79, 4, 1, 193, 1, 193, 187, 8, 0, 129, 251, 12, 0, 115, 15, 246,
  195, 1, 117, 10, 129, 63, 83, 83, 117, 4, 137, 30, 2, 0, 139, 30, 2, 0, 137, 15, 81, 82, 80, 232, 5, 0, 80,
  232, 131, 0, 244, 85, 137, 229, 184, 229, 20, 80, 232, 4, 0, 91, 233, 62, 1, 85, 137, 229, 86, 87, 139, 126,
  4, 9, 255, 125, 5, 184, 49, 0, 235, 3, 184, 48, 0, 80, 232, 38, 0, 91, 49, 246, 131, 254, 5, 125, 27, 185,
  12, 0, 137, 250, 211, 250, 129, 226, 7, 0, 131, 194, 48, 82, 232, 12, 0, 91, 185, 3, 0, 211, 231, 70, 235,
  224, 233, 254, 0, 85, 137, 229, 184, 1, 0, 80, 141, 70, 4, 80, 184, 1, 0, 80, 232, 69, 0, 131, 196, 6, 138,
  70, 4, 152, 233, 228, 0, 85, 137, 229, 86, 139, 54, 4, 0, 78, 124, 12, 137, 243, 209, 227, 139, 159, 14, 0,
  255, 211, 235, 241, 233, 201, 0, 85, 137, 229, 232, 224, 255, 131, 62, 6, 0, 0, 116, 6, 139, 30, 6, 0, 255,
  211, 255, 118, 4, 232, 4, 0, 91, 233, 173, 0, 233, 5, 0, 0, 233, 33, 0, 0, 85, 137, 229, 131, 236, 24, 139,
  86, 4, 137, 86, 236, 141, 70, 232, 80, 184, 1, 0, 80, 49, 192, 80, 232, 51, 0, 131, 196, 6, 233, 133, 0, 85,
  137, 229, 131, 236, 24, 139, 86, 4, 137, 86, 236, 139, 86, 8, 137, 86, 238, 139, 86, 6, 137, 86, 242, 141,
  70, 232, 80, 184, 4, 0, 80, 184, 1, 0, 80, 232, 6, 0, 131, 196, 6, 233, 88, 0, 85, 137, 229, 86, 87, 139,
  118, 8, 139, 86, 6, 137, 84, 2, 86, 255, 118, 4, 232, 47, 0, 91, 91, 137, 199, 9, 255, 116, 3, 137, 124, 2,
  131, 124, 2, 0, 125, 14, 139, 84, 2, 247, 218, 137, 22, 10, 0, 184, 255, 255, 235, 3, 139, 68, 2, 233, 28,
  0, 185, 1, 0, 235, 10, 185, 2, 0, 235, 5, 185, 3, 0, 235, 0, 85, 137, 229, 139, 70, 4, 139, 94, 6, 205, 32,
  93, 195, 95, 94, 137, 236, 93, 195, 94, 95, 235, 248, 0, 0, 0, 0, 0, 12, 0, 0, 0, 0, 0, 83, 83, 0, 0 >>

Program6 == Load(Text6, 400, 12, << <<54, 46, 99, 46, 111, 117, 116>> >>)

\* tests_bin/asm/2.s.out: 16 bytes of text, 38 of data, which it changes.
Assembly2 == <<
  131, 46, 33, 0, 32, 187, 0, 0, 205, 32, 187, 16, 0, 205, 32, 0, 1, 0, 4, 0, 1, 0, 6, 0, 0, 0, 32, 0,
  0, 0, 0, 0, 1, 0, 1, 0, 0, 0, 0, 0, 0, 0, 0, 0, 0, 0, 0, 0, 104, 101, 108, 108, 111, 10 >>

\* main calls f(3, f) and exits with the result; f(n, g) is n + g(n - 1, g),
\* or 0 for n = 0.  f calls through a word of its caller's part of the stack,
\* keeps SI, and pops its own arguments (ret 4).
Recursion == <<
  191, 52, 18, 184, 24, 0, 80, 184, 3, 0, 80, 232, 10, 0, 80, 185, 1, 0, 81, 81, 137, 227, 205, 32, 85,
  137, 229, 86, 139, 118, 4, 131, 254, 0, 116, 14, 255, 118, 6, 137, 240, 72, 80, 255, 86, 6, 1, 240,
  235, 2, 49, 192, 94, 93, 194, 4, 0, 0 >>

References == << Program1, Program2, Program6 >>

Programs ==
  References \o << Load(Assembly2, 16, 38, << <<50, 46, 115, 46, 111, 117, 116>> >>),
                   Load(Recursion, 58, 0, << <<114>> >>) >>
=============================================================================
