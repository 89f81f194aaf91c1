------------------------------- MODULE TrackA -------------------------------
(* Track A, node by node in the order of init_tracka: sensors A1 to E16, the *)
(* switches as a branch and a merge each, the ends of the track.             *)
EXTENDS Track, Sequences

SensorsA_A ==
  <<Sensor(0, 1, 103, 231), Sensor(1, 0, 133, 504), Sensor(2, 3, 106, 43),
    Sensor(3, 2, 31, 437), Sensor(4, 5, 85, 231), Sensor(5, 4, 25, 642),
    Sensor(6, 7, 27, 470), Sensor(7, 6, 83, 229), Sensor(8, 9, 23, 289),
    Sensor(9, 8, 81, 229), Sensor(10, 11, 81, 518), Sensor(11, 10, 139, 43),
    Sensor(12, 13, 87, 236), Sensor(13, 12, 131, 325), Sensor(14, 15, 135, 144),
    Sensor(15, 14, 87, 417)>>

SensorsB_A ==
  <<Sensor(16, 17, 61, 404), Sensor(17, 16, 111, 231), Sensor(18, 19, 33, 201),
    Sensor(19, 18, 111, 239), Sensor(20, 21, 50, 404), Sensor(21, 20, 105, 231),
    Sensor(22, 23, 9, 289), Sensor(23, 22, 137, 43), Sensor(24, 25, 4, 642),
    Sensor(25, 24, 141, 50), Sensor(26, 27, 7, 470), Sensor(27, 26, 143, 50),
    Sensor(28, 29, 119, 239), Sensor(29, 28, 63, 201), Sensor(30, 31, 2, 437),
    Sensor(31, 30, 108, 50)>>

SensorsC_A ==
  <<Sensor(32, 33, 19, 201), Sensor(33, 32, 117, 246), Sensor(34, 35, 129, 514),
    Sensor(35, 34, 89, 239), Sensor(36, 37, 90, 61), Sensor(37, 36, 109, 433),
    Sensor(38, 39, 115, 231), Sensor(39, 38, 84, 128), Sensor(40, 41, 109, 326),
    Sensor(41, 40, 110, 128), Sensor(42, 43, 104, 120), Sensor(43, 42, 107, 333),
    Sensor(44, 45, 70, 875), Sensor(45, 44, 100, 43), Sensor(46, 47, 59, 404),
    Sensor(47, 46, 91, 239)>>

SensorsD_A ==
  <<Sensor(48, 49, 121, 246), Sensor(49, 48, 67, 201), Sensor(50, 51, 99, 239),
    Sensor(51, 50, 21, 404), Sensor(52, 53, 69, 376), Sensor(53, 52, 97, 239),
    Sensor(54, 55, 97, 309), Sensor(55, 54, 71, 384), Sensor(56, 57, 75, 369),
    Sensor(57, 56, 95, 316), Sensor(58, 59, 47, 404), Sensor(59, 58, 93, 231),
    Sensor(60, 61, 17, 404), Sensor(61, 60, 113, 239), Sensor(62, 63, 28, 201),
    Sensor(63, 62, 113, 246)>>

SensorsE_A ==
  <<Sensor(64, 65, 123, 239), Sensor(65, 64, 78, 201), Sensor(66, 67, 48, 201),
    Sensor(67, 66, 99, 239), Sensor(68, 69, 53, 376), Sensor(69, 68, 98, 50),
    Sensor(70, 71, 54, 384), Sensor(71, 70, 45, 875), Sensor(72, 73, 95, 239),
    Sensor(73, 72, 76, 376), Sensor(74, 75, 57, 369), Sensor(75, 74, 92, 50),
    Sensor(76, 77, 112, 43), Sensor(77, 76, 72, 376), Sensor(78, 79, 105, 246),
    Sensor(79, 78, 64, 201)>>

Switches1To7_A ==
  <<Branch(1, 81, 11, 518, 8, 229), Merge(1, 80, 83, 188), Branch(2, 83, 80, 188, 6, 229),
    Merge(2, 82, 85, 185), Branch(3, 85, 5, 231, 82, 185), Merge(3, 84, 38, 128),
    Branch(4, 87, 14, 417, 13, 236), Merge(4, 86, 103, 185), Branch(5, 89, 34, 239, 93, 371),
    Merge(5, 88, 114, 155), Branch(6, 91, 46, 239, 115, 371), Merge(6, 90, 37, 61),
    Branch(7, 93, 58, 231, 89, 371), Merge(7, 92, 74, 50)>>

Switches8To14_A ==
  <<Branch(8, 95, 56, 316, 73, 239), Merge(8, 94, 96, 155), Branch(9, 97, 55, 309, 52, 239),
    Merge(9, 96, 94, 155), Branch(10, 99, 51, 239, 66, 239), Merge(10, 98, 68, 50),
    Branch(11, 101, 102, 188, 107, 495), Merge(11, 100, 44, 43),
    Branch(12, 103, 1, 231, 86, 185), Merge(12, 102, 101, 188),
    Branch(13, 105, 20, 231, 79, 246), Merge(13, 104, 43, 120),
    Branch(14, 107, 101, 495, 42, 333), Merge(14, 106, 3, 43)>>

Switches15To156_A ==
  <<Branch(15, 109, 36, 433, 41, 326), Merge(15, 108, 30, 50),
    Branch(16, 111, 16, 231, 18, 239), Merge(16, 110, 40, 128),
    Branch(17, 113, 60, 239, 62, 246), Merge(17, 112, 77, 43),
    Branch(18, 115, 39, 231, 91, 371), Merge(18, 114, 88, 155),
    Branch(153, 117, 125, 253, 32, 246), Merge(153, 116, 119, 0),
    Branch(154, 119, 116, 0, 29, 239), Merge(154, 118, 122, 0),
    Branch(155, 121, 127, 282, 49, 246), Merge(155, 120, 123, 0),
    Branch(156, 123, 120, 0, 65, 239), Merge(156, 122, 118, 0)>>

Ends_A ==
  <<EnterNode(125, 117, 253), ExitNode(124), EnterNode(127, 121, 282), ExitNode(126),
    EnterNode(129, 35, 514), ExitNode(128), EnterNode(131, 12, 325), ExitNode(130),
    EnterNode(133, 0, 504), ExitNode(132), EnterNode(135, 15, 144), ExitNode(134),
    EnterNode(137, 22, 43), ExitNode(136), EnterNode(139, 10, 43), ExitNode(138),
    EnterNode(141, 24, 50), ExitNode(140), EnterNode(143, 26, 50), ExitNode(142)>>

LayoutA ==
  Numbered(SensorsA_A \o SensorsB_A \o SensorsC_A \o SensorsD_A \o SensorsE_A
           \o Switches1To7_A \o Switches8To14_A \o Switches15To156_A \o Ends_A)

=============================================================================
